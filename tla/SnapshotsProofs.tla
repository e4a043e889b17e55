--------------------------- MODULE SnapshotsProofs ---------------------------
(***************************************************************************)
(* Proofs about Snapshots, for any number of requests, instances and       *)
(* stored snapshots, whatever fails or is changed around OAM.              *)
(*                                                                         *)
(* The argument: the checksum of a row is that of the document it was      *)
(* stored with (Origins), so what GetSnapshotDocument lets pass is that    *)
(* document, and a restore carries it along unchanged (Carries).  Between  *)
(* the read of the target's configuration and the restore, a restore that  *)
(* nobody disturbed knows the configuration (Remembers).  Whoever is about *)
(* to write or delete a row that counts as safely pinned read it after it  *)
(* was pinned (Respects).                                                  *)
(*                                                                         *)
(* The action properties rest on what a step of one thread does to the     *)
(* others (Turn, WorldTurn) and on three more invariants (ActInv), below.  *)
(***************************************************************************)
EXTENDS Snapshots, TLAPS, FiniteSetTheorems, WellFoundedInduction

JobFields == {"op", "id", "inst", "mode", "comps", "raw", "fetched", "pre", "trigger", "pinned",
              "asked", "flag", "retain", "calm", "todo", "ids", "retains"}

\* The types of a job.
Typed(j) ==
    /\ DOMAIN j = JobFields
    /\ j.id \in 0..taken /\ j.pre \in 0..taken
    /\ j.inst \in Instances \cup {None}
    /\ j.trigger \in Triggers
    /\ j.flag \in BOOLEAN /\ j.pinned \in BOOLEAN /\ j.retain \in Nat
    /\ j.todo \subseteq Instances /\ j.ids \subseteq 1..taken

\* What a job has at a step.
Placed(j, l) ==
    /\ l \in {"instance", "read", "store", "readBack", "mark", "target", "send", "putSchedule"} =>
          j.inst \in Instances
    /\ l = "store" \/ (l = "instance" /\ j.op = "upload") => j.fetched \in Docs
    /\ l \in {"open", "mark", "update", "delete"} => j.id # 0
    /\ l \in {"target", "send"} => j.op = "restore"
    /\ l \in {"due", "recordRun"} => j.op \notin {"upload", "restore"}

\* A restore has the document that was stored.
Carries(j, l) ==
    j.op = "restore" /\ (l \in {"target", "instance", "read", "store", "readBack", "send"}
                         \/ (l = "mark" /\ j.flag)) =>
        j.id # 0 /\ j.raw = origin[j.id].doc

\* An undisturbed job knows the configuration it has read.
Remembers(j, l) ==
    /\ l = "store" /\ j.op # "upload" /\ j.calm => j.fetched.cfg = config[j.inst]
    /\ l = "readBack" \/ (l = "send" /\ j.mode = "commit") =>
          /\ j.pre # 0
          /\ origin[j.pre].inst = j.inst
          /\ j.op # "upload" /\ j.calm => origin[j.pre].doc.cfg = config[j.inst]

\* Nobody is about to take a pin that counts.
Respects(j, l) ==
    /\ l = "update" => /\ j.asked = TRUE => j.pinned = TRUE
                       /\ j.id \in safe => j.pinned = TRUE \/ j.asked = FALSE
    /\ l = "delete" /\ j.id \in safe => j.flag
    /\ l = "prune" => j.ids \cap safe = {}

ThreadOK(j, l) == Typed(j) /\ Placed(j, l) /\ Carries(j, l) /\ Remembers(j, l) /\ Respects(j, l)

Origins ==
    /\ DOMAIN origin = Ids
    /\ \A i \in 1..taken : origin[i].inst \in Instances /\ origin[i].doc \in Docs
    /\ \A i \in Ids : snaps[i] # None =>
          snaps[i].sum = origin[i].doc /\ snaps[i].inst = origin[i].inst

Data == TypeOK /\ Origins /\ PinHonoured

IInv == Data /\ DOMAIN job = Threads /\ \A t \in Threads : ThreadOK(job[t], pc[t])

-----------------------------------------------------------------------------
(* The operators *)

\* A set of ids has a newest one.
LEMMA NewestIn ==
    ASSUME NEW ids, ids \subseteq Ids, ids # {}
    PROVE  Newest(ids) \in ids /\ \A o \in ids : o <= Newest(ids)
<1> DEFINE T == {MaxIds - i : i \in ids}
           R == OpToRel(<, Nat)
<1>1. T \subseteq Nat /\ T # {}
  <2>1. \A i \in ids : i \in Nat /\ 1 <= i /\ i <= MaxIds
    BY BoundAssumption DEF Ids
  <2>2. \A i \in ids : MaxIds - i \in Nat
    BY <2>1, BoundAssumption
  <2>3. PICK i \in ids : TRUE
    OBVIOUS
  <2>4. MaxIds - i \in T
    BY <2>3
  <2> QED BY <2>2, <2>4
<1>2. PICK x \in T : \A y \in T : ~ (<<y, x>> \in R)
  <2> HIDE DEF T, R
  <2>1. IsWellFoundedOn(R, Nat)
    BY NatLessThanWellFounded DEF R
  <2> QED BY <1>1, <2>1, WFMin
<1>3. \A y \in T : x <= y
  <2>1. R = {ss \in Nat \X Nat : ss[1] < ss[2]}
    BY DEF OpToRel
  <2>2. \A y \in T : y < x => <<y, x>> \in R
    <3> SUFFICES ASSUME NEW y \in T, y < x PROVE <<y, x>> \in {ss \in Nat \X Nat : ss[1] < ss[2]}
      BY <2>1, Zenon
    <3> QED BY <1>1
  <2> HIDE DEF R, T
  <2>3. \A y \in T : ~ (y < x)
    BY <1>2, <2>2, Zenon
  <2>4. \A y \in T : y \in Nat
    BY <1>1, Zenon
  <2> QED BY <2>3, <2>4, <1>2
<1>4. PICK m \in ids : x = MaxIds - m
  BY <1>2
<1>5. \A n \in ids : n <= m
  BY <1>3, <1>4, BoundAssumption DEF Ids
<1> QED BY <1>4, <1>5 DEF Newest

LEMMA NoJobFields ==
    /\ DOMAIN NoJob = JobFields /\ NoJob.op = "none" /\ NoJob.id = 0 /\ NoJob.inst = None
    /\ NoJob.mode = "dry-run" /\ NoJob.comps = Omitted /\ NoJob.raw = None /\ NoJob.fetched = None
    /\ NoJob.pre = 0 /\ NoJob.trigger = "manual" /\ NoJob.pinned = FALSE /\ NoJob.asked = None
    /\ NoJob.flag = FALSE /\ NoJob.retain = 0 /\ NoJob.calm = FALSE
    /\ NoJob.todo = {} /\ NoJob.ids = {} /\ NoJob.retains = None
BY DEF NoJob, JobFields

LEMMA NoJobOK == ASSUME TypeOK PROVE Typed(NoJob)
<1>1. taken \in Nat /\ 0 \in 0..taken
  BY BoundAssumption DEF TypeOK
<1>2. NoJob.flag \in BOOLEAN /\ NoJob.pinned \in BOOLEAN
  BY NoJobFields
<1>3. NoJob.todo \subseteq Instances /\ NoJob.ids \subseteq 1..taken
  BY NoJobFields
<1>4. NoJob.trigger \in Triggers
  BY NoJobFields DEF Triggers
<1> QED BY <1>1, <1>2, <1>3, <1>4, NoJobFields DEF Typed

\* At these steps only the types of the job matter.
Resting == {"idle", "recordRun", "verify", "due", "retains", "listInstances", "candidates", "sweep"}

LEMMA RestingOK ==
    ASSUME NEW j, Typed(j), NEW l \in Resting, Placed(j, l)
    PROVE  ThreadOK(j, l)
BY DEF Resting, ThreadOK, Carries, Remembers, Respects

\* A row that is stored is one of those counted.
LEMMA StoredCounted ==
    ASSUME TypeOK, NEW i \in Ids, snaps[i] # None
    PROVE  i \in 1..taken /\ snaps[i] \in Rows
BY BoundAssumption DEF TypeOK, Ids

-----------------------------------------------------------------------------
(* What others keep *)

\* The thread u does nothing; at most it is told that what it knows is old.
Same(u) == pc'[u] = pc[u] /\ (job'[u] = job[u] \/ job'[u] = [job[u] EXCEPT !.calm = FALSE])

\* No row that was stored is forgotten.
Grown ==
    /\ taken' \in Nat /\ taken <= taken'
    /\ \A i \in 1..taken : origin'[i] = origin[i]

LEMMA SameFields ==
    ASSUME NEW u \in Threads, Same(u), Typed(job[u])
    PROVE  /\ DOMAIN job'[u] = JobFields
           /\ job'[u].op = job[u].op /\ job'[u].id = job[u].id /\ job'[u].inst = job[u].inst
           /\ job'[u].mode = job[u].mode /\ job'[u].raw = job[u].raw
           /\ job'[u].fetched = job[u].fetched /\ job'[u].pre = job[u].pre
           /\ job'[u].trigger = job[u].trigger /\ job'[u].pinned = job[u].pinned
           /\ job'[u].asked = job[u].asked /\ job'[u].flag = job[u].flag
           /\ job'[u].retain = job[u].retain /\ job'[u].todo = job[u].todo
           /\ job'[u].ids = job[u].ids /\ job'[u].comps = job[u].comps
           /\ job'[u].retains = job[u].retains
           /\ (job'[u] = job[u] \/ job'[u].calm = FALSE)
<1>1. CASE job'[u] = job[u]
  BY <1>1 DEF Typed
<1>2. CASE job'[u] = [job[u] EXCEPT !.calm = FALSE]
  BY <1>2 DEF Typed, JobFields
<1> QED BY <1>1, <1>2 DEF Same

LEMMA OthersKeep ==
    ASSUME IInv, NEW u \in Threads, Same(u), Grown,
           job[u].inst \in Instances => config'[job[u].inst] = config[job[u].inst] \/ job'[u].calm = FALSE,
           \A id \in safe' \ safe :
              /\ pc[u] \in {"update", "delete"} => job[u].id # id
              /\ pc[u] = "prune" => id \notin job[u].ids
    PROVE  ThreadOK(job[u], pc[u])'
<1>1. ThreadOK(job[u], pc[u]) /\ taken \in Nat
  BY BoundAssumption DEF IInv, Data, TypeOK
<1>2. Typed(job[u])
  BY <1>1 DEF ThreadOK
<1>3. Typed(job[u])'
  <2>1. 0..taken \subseteq 0..taken' /\ 1..taken \subseteq 1..taken'
    BY <1>1 DEF Grown
  <2>2. DOMAIN job'[u] = JobFields
    BY <1>2, SameFields
  <2>3. /\ job'[u].id \in 0..taken' /\ job'[u].pre \in 0..taken'
        /\ job'[u].ids \subseteq 1..taken'
    BY <1>2, <2>1, SameFields DEF Typed
  <2>4. /\ job'[u].inst \in Instances \cup {None} /\ job'[u].trigger \in Triggers
        /\ job'[u].retain \in Nat /\ job'[u].todo \subseteq Instances
    BY <1>2, SameFields DEF Typed
  <2>5. job'[u].flag \in BOOLEAN /\ job'[u].pinned \in BOOLEAN
    BY <1>2, SameFields, Zenon DEF Typed
  <2> QED BY <2>2, <2>3, <2>4, <2>5 DEF Typed
<1>4. Placed(job[u], pc[u])'
  BY <1>1, <1>2, SameFields DEF ThreadOK, Placed, Same
<1>5. \A i \in 0..taken : i # 0 => origin'[i] = origin[i]
  BY <1>1 DEF Grown
<1>6. Carries(job[u], pc[u])'
  BY <1>1, <1>2, <1>5, SameFields DEF ThreadOK, Typed, Carries, Same
<1>7. Remembers(job[u], pc[u])'
  <2>1. job'[u].calm => /\ job[u].calm
                        /\ job[u].inst \in Instances => config'[job[u].inst] = config[job[u].inst]
    BY <1>2, SameFields
  <2>2. pc[u] \in {"store", "readBack", "send"} => job[u].inst \in Instances
    BY <1>1 DEF ThreadOK, Placed
  <2>3. Remembers(job[u], pc[u]) /\ pc'[u] = pc[u] /\ job[u].pre \in 0..taken
    BY <1>1 DEF ThreadOK, Typed, Same
  <2>4. /\ job'[u].op = job[u].op /\ job'[u].inst = job[u].inst /\ job'[u].mode = job[u].mode
        /\ job'[u].fetched = job[u].fetched /\ job'[u].pre = job[u].pre
    BY <1>2, SameFields
  <2> QED BY <1>5, <2>1, <2>2, <2>3, <2>4 DEF Remembers
<1>8. Respects(job[u], pc[u])'
  BY <1>1, <1>2, SameFields DEF ThreadOK, Respects, Same
<1> QED BY <1>3, <1>4, <1>6, <1>7, <1>8 DEF ThreadOK

\* A step of t that changes no more than what the threads do not depend on.
LEMMA WriteStep ==
    ASSUME IInv, NEW t \in Threads, NEW j, NEW l \in PCs, ThreadOK(j, l),
           job' = [job EXCEPT ![t] = j], pc' = [pc EXCEPT ![t] = l],
           Data', UNCHANGED <<config, taken, origin, safe>>
    PROVE  IInv'
<1>1. DOMAIN job' = Threads
  BY DEF IInv
<1>2. ThreadOK(job[t], pc[t])'
  <2>1. job'[t] = j /\ pc'[t] = l
    BY DEF IInv, Data, TypeOK
  <2> QED BY <2>1 DEF ThreadOK, Typed, Placed, Carries, Remembers, Respects
<1>3. ASSUME NEW u \in Threads \ {t} PROVE ThreadOK(job[u], pc[u])'
  <2>1. job'[u] = job[u] /\ pc'[u] = pc[u]
    BY DEF IInv, Data, TypeOK
  <2>2. ThreadOK(job[u], pc[u])
    BY DEF IInv
  <2> QED BY <2>1, <2>2 DEF ThreadOK, Typed, Placed, Carries, Remembers, Respects
<1> QED BY <1>1, <1>2, <1>3 DEF IInv

\* A step that changes nothing but the job of t and where it is.
LEMMA LocalStep ==
    ASSUME IInv, NEW t \in Threads, NEW j, NEW l \in PCs, ThreadOK(j, l),
           job' = [job EXCEPT ![t] = j], pc' = [pc EXCEPT ![t] = l],
           UNCHANGED <<registered, config, snaps, taken, schedules, key, origin, safe>>,
           quiet' \in BOOLEAN
    PROVE  IInv'
<1>1. Data'
  BY DEF IInv, Data, TypeOK, Origins, PinHonoured
<1> QED BY <1>1, WriteStep

\* A step that only moves t on.
LEMMA MoveStep ==
    ASSUME IInv, NEW t \in Threads, NEW l \in PCs, ThreadOK(job[t], l),
           job' = job, pc' = [pc EXCEPT ![t] = l],
           UNCHANGED <<registered, config, snaps, taken, schedules, key, origin, safe>>,
           quiet' \in BOOLEAN
    PROVE  IInv'
<1>1. Data'
  BY DEF IInv, Data, TypeOK, Origins, PinHonoured
<1>2. DOMAIN job' = Threads
  BY DEF IInv
<1>3. ThreadOK(job[t], pc[t])'
  <2>1. job'[t] = job[t] /\ pc'[t] = l
    BY DEF IInv, Data, TypeOK
  <2> QED BY <2>1 DEF ThreadOK, Typed, Placed, Carries, Remembers, Respects
<1>4. ASSUME NEW u \in Threads \ {t} PROVE ThreadOK(job[u], pc[u])'
  <2>1. job'[u] = job[u] /\ pc'[u] = pc[u]
    BY DEF IInv, Data, TypeOK
  <2>2. ThreadOK(job[u], pc[u])
    BY DEF IInv
  <2> QED BY <2>1, <2>2 DEF ThreadOK, Typed, Placed, Carries, Remembers, Respects
<1> QED BY <1>1, <1>2, <1>3, <1>4 DEF IInv

\* The job with which an operation ends.
LEMMA FinishTo ==
    ASSUME IInv, NEW t \in Threads, Finish(t)
    PROVE  \E j : \E l \in Resting :
              /\ Typed(j) /\ Placed(j, l)
              /\ job' = [job EXCEPT ![t] = j] /\ pc' = [pc EXCEPT ![t] = l]
<1>1. PICK l \in {"recordRun", "verify", "idle"} :
          /\ pc' = [pc EXCEPT ![t] = l] /\ l \in Resting
          /\ l = "recordRun" => job[t].op = "scheduled"
  BY DEF Finish, Go, Resting
<1>2. TypeOK /\ Typed(job[t])
  BY DEF IInv, Data, ThreadOK
<1>3. CASE t \in Users
  <2>1. job' = [job EXCEPT ![t] = NoJob] /\ Typed(NoJob)
    BY <1>2, <1>3, NoJobOK DEF Finish
  <2>2. Placed(NoJob, l)
    BY <1>1, NoJobFields DEF Placed
  <2> QED BY <1>1, <2>1, <2>2
<1>4. CASE t \notin Users
  <2> DEFINE j == [NoJob EXCEPT !.op = job[t].op, !.inst = job[t].inst,
                                !.todo = job[t].todo, !.ids = job[t].ids]
  <2>1. job' = [job EXCEPT ![t] = j]
    BY <1>4 DEF Finish
  <2>2. /\ DOMAIN j = JobFields /\ j.op = job[t].op /\ j.id = NoJob.id /\ j.pre = NoJob.pre /\ j.inst = job[t].inst
        /\ j.trigger = NoJob.trigger /\ j.flag = NoJob.flag /\ j.pinned = NoJob.pinned
        /\ j.retain = NoJob.retain /\ j.todo = job[t].todo /\ j.ids = job[t].ids
    BY DEF NoJob, JobFields
  <2> HIDE DEF j
  <2>3. Typed(NoJob)
    BY <1>2, NoJobOK
  <2>4. j.flag \in BOOLEAN /\ j.pinned \in BOOLEAN
    BY <2>2, NoJobFields
  <2>5. Typed(j)
    BY <1>2, <2>2, <2>3, <2>4 DEF Typed
  <2>6. Placed(j, l)
    BY <1>1, <2>2 DEF Placed
  <2> QED BY <1>1, <2>1, <2>5, <2>6
<1> QED BY <1>3, <1>4

LEMMA FinishStep ==
    ASSUME IInv, NEW t \in Threads, Finish(t), quiet' \in BOOLEAN,
           UNCHANGED <<registered, config, snaps, taken, schedules, key, origin, safe>>
    PROVE  IInv'
<1>1. PICK j : \E l \in Resting :
              /\ Typed(j) /\ Placed(j, l)
              /\ job' = [job EXCEPT ![t] = j] /\ pc' = [pc EXCEPT ![t] = l]
  BY FinishTo
<1>2. PICK l \in Resting : /\ Typed(j) /\ Placed(j, l)
                           /\ job' = [job EXCEPT ![t] = j] /\ pc' = [pc EXCEPT ![t] = l]
  BY <1>1
<1>3. ThreadOK(j, l) /\ l \in PCs
  BY <1>2, RestingOK DEF Resting, PCs
<1> QED BY <1>2, <1>3, LocalStep

LEMMA TypedGrows == ASSUME NEW j, Typed(j), TypeOK, Grown PROVE Typed(j)'
<1>1. taken \in Nat
  BY BoundAssumption DEF TypeOK
<1>2. 0..taken \subseteq 0..taken' /\ 1..taken \subseteq 1..taken'
  BY <1>1 DEF Grown
<1> QED BY <1>2 DEF Typed

\* A step of t that may change the rows.
LEMMA StepOf ==
    ASSUME IInv, NEW t \in Threads, Data', Grown, DOMAIN job' = Threads, ThreadOK(job[t], pc[t])',
           config' = config,
           \A u \in Threads \ {t} :
              /\ Same(u)
              /\ \A id \in safe' \ safe :
                    /\ pc[u] \in {"update", "delete"} => job[u].id # id
                    /\ pc[u] = "prune" => id \notin job[u].ids
    PROVE  IInv'
<1>1. ASSUME NEW u \in Threads \ {t} PROVE ThreadOK(job[u], pc[u])'
  BY <1>1, OthersKeep
<1> QED BY <1>1 DEF IInv

\* The same of a step with which the operation ends.
LEMMA LastStep ==
    ASSUME IInv, NEW t \in Threads, Finish(t), Grown, config' = config,
           Data',
           \A id \in safe' \ safe : ~ InFlight(t, id)
    PROVE  IInv'
<1>1. PICK j : \E l \in Resting :
              /\ Typed(j) /\ Placed(j, l)
              /\ job' = [job EXCEPT ![t] = j] /\ pc' = [pc EXCEPT ![t] = l]
  BY FinishTo
<1>2. PICK l \in Resting : /\ Typed(j) /\ Placed(j, l)
                           /\ job' = [job EXCEPT ![t] = j] /\ pc' = [pc EXCEPT ![t] = l]
  BY <1>1
<1>3. TypeOK /\ DOMAIN job = Threads /\ pc \in [Threads -> PCs]
  BY DEF IInv, Data, TypeOK
<1>4. /\ DOMAIN job' = Threads /\ job'[t] = j /\ pc'[t] = l
      /\ \A u \in Threads \ {t} : job'[u] = job[u] /\ pc'[u] = pc[u]
  BY <1>2, <1>3
<1>5. ThreadOK(job[t], pc[t])'
  <2>1. Typed(j)'
    BY <1>2, <1>3, TypedGrows
  <2> QED BY <1>2, <1>4, <2>1 DEF Resting, ThreadOK, Typed, Placed, Carries, Remembers, Respects
<1>6. \A u \in Threads \ {t} :
              /\ Same(u)
              /\ \A id \in safe' \ safe :
                    /\ pc[u] \in {"update", "delete"} => job[u].id # id
                    /\ pc[u] = "prune" => id \notin job[u].ids
  BY <1>4 DEF Same, InFlight
<1> QED BY <1>4, <1>5, <1>6, StepOf

-----------------------------------------------------------------------------
(* The requests *)

\* The fields a request sets are typed, and the others are those of NoJob.
LEMMA RequestTyped ==
    ASSUME TypeOK, NEW j, DOMAIN j = JobFields,
           j.id \in 0..taken, j.pre = NoJob.pre, j.inst \in Instances \cup {None},
           j.trigger \in Triggers, j.flag \in BOOLEAN, j.pinned \in BOOLEAN, j.retain \in Nat,
           j.todo = NoJob.todo, j.ids = NoJob.ids
    PROVE  Typed(j)
BY NoJobOK DEF Typed

LEMMA RequestStep ==
    ASSUME IInv, NEW u \in Users, NEW j, NEW l \in PCs, Request(u, j, l), ThreadOK(j, l)
    PROVE  IInv'
<1>1. u \in Threads /\ quiet' \in BOOLEAN
  BY DEF Threads, Request, ghosts, IInv, Data, TypeOK
<1> QED BY <1>1, LocalStep DEF Request, Go, ghosts

LEMMA BeginTakeKeeps == ASSUME IInv, NEW u \in Users, BeginTake(u) PROVE IInv'
<1>1. PICK i \in Instances, trigger \in {"manual", "pre_upgrade"} :
         Request(u, [NoJob EXCEPT !.op = "take", !.inst = i, !.trigger = trigger], "instance")
  BY DEF BeginTake
<1> DEFINE j == [NoJob EXCEPT !.op = "take", !.inst = i, !.trigger = trigger]
<1>2. /\ DOMAIN j = JobFields /\ j.op = "take" /\ j.id = 0 /\ j.inst = i /\ j.trigger = trigger
      /\ j.pre = NoJob.pre /\ j.retain = 0 /\ j.todo = NoJob.todo /\ j.ids = NoJob.ids
  BY DEF NoJob, JobFields
<1>3. j.flag \in BOOLEAN /\ j.pinned \in BOOLEAN
  BY DEF NoJob
<1>4. Request(u, j, "instance")
  BY <1>1
<1> HIDE DEF j
<1>5. TypeOK /\ 0 \in 0..taken /\ trigger \in Triggers
  BY BoundAssumption DEF IInv, Data, TypeOK, Triggers
<1>6. Typed(j)
  BY <1>2, <1>3, <1>5, RequestTyped
<1>7. ThreadOK(j, "instance")
  BY <1>2, <1>6 DEF ThreadOK, Placed, Carries, Remembers, Respects
<1> QED BY <1>4, <1>7, RequestStep DEF PCs

LEMMA BeginUploadKeeps == ASSUME IInv, NEW u \in Users, BeginUpload(u) PROVE IInv'
<1>1. PICK i \in Instances, doc \in Uploads :
         Request(u, [NoJob EXCEPT !.op = "upload", !.inst = i, !.fetched = doc], "instance")
  BY DEF BeginUpload, Parses
<1> DEFINE j == [NoJob EXCEPT !.op = "upload", !.inst = i, !.fetched = doc]
<1>2. /\ DOMAIN j = JobFields /\ j.op = "upload" /\ j.id = 0 /\ j.inst = i /\ j.fetched = doc
      /\ j.trigger = "manual"
      /\ j.pre = NoJob.pre /\ j.retain = 0 /\ j.todo = NoJob.todo /\ j.ids = NoJob.ids
  BY DEF NoJob, JobFields
<1>3. j.flag \in BOOLEAN /\ j.pinned \in BOOLEAN
  BY DEF NoJob
<1>4. Request(u, j, "instance")
  BY <1>1
<1> HIDE DEF j
<1>5. TypeOK /\ 0 \in 0..taken /\ "manual" \in Triggers /\ doc \in Docs
  BY BoundAssumption, UploadsAssumption DEF IInv, Data, TypeOK, Triggers
<1>6. Typed(j)
  BY <1>2, <1>3, <1>5, RequestTyped
<1>7. ThreadOK(j, "instance")
  BY <1>2, <1>5, <1>6 DEF ThreadOK, Placed, Carries, Remembers, Respects
<1> QED BY <1>4, <1>7, RequestStep DEF PCs

LEMMA BeginRestoreKeeps == ASSUME IInv, NEW u \in Users, BeginRestore(u) PROVE IInv'
<1>1. PICK id \in Ids, mode \in {"dry-run", "commit"}, comps \in Selections, target \in Targets :
         /\ id <= taken
         /\ Request(u, [NoJob EXCEPT !.op = "restore", !.id = id, !.mode = mode,
                                     !.comps = comps, !.inst = target], "open")
  BY DEF BeginRestore
<1> DEFINE j == [NoJob EXCEPT !.op = "restore", !.id = id, !.mode = mode, !.comps = comps,
                              !.inst = target]
<1>2. /\ DOMAIN j = JobFields /\ j.op = "restore" /\ j.id = id /\ j.inst = target
      /\ j.trigger = "manual"
      /\ j.pre = NoJob.pre /\ j.retain = 0 /\ j.todo = NoJob.todo /\ j.ids = NoJob.ids
  BY DEF NoJob, JobFields
<1>3. j.flag \in BOOLEAN /\ j.pinned \in BOOLEAN
  BY DEF NoJob
<1>4. Request(u, j, "open")
  BY <1>1
<1> HIDE DEF j
<1>5. TypeOK /\ id \in 0..taken /\ id # 0 /\ "manual" \in Triggers /\ target \in Instances \cup {None}
  BY <1>1, BoundAssumption, TargetsAssumption DEF IInv, Data, TypeOK, Triggers, Ids
<1>6. Typed(j)
  BY <1>2, <1>3, <1>5, RequestTyped
<1>7. ThreadOK(j, "open")
  BY <1>2, <1>5, <1>6 DEF ThreadOK, Placed, Carries, Remembers, Respects
<1> QED BY <1>4, <1>7, RequestStep DEF PCs

LEMMA BeginDownloadKeeps == ASSUME IInv, NEW u \in Users, BeginDownload(u) PROVE IInv'
<1>1. PICK id \in Ids : id <= taken /\ Request(u, [NoJob EXCEPT !.op = "download", !.id = id], "open")
  BY DEF BeginDownload
<1> DEFINE j == [NoJob EXCEPT !.op = "download", !.id = id]
<1>2. /\ DOMAIN j = JobFields /\ j.op = "download" /\ j.id = id /\ j.inst = None
      /\ j.trigger = "manual"
      /\ j.pre = NoJob.pre /\ j.retain = 0 /\ j.todo = NoJob.todo /\ j.ids = NoJob.ids
  BY DEF NoJob, JobFields
<1>3. j.flag \in BOOLEAN /\ j.pinned \in BOOLEAN
  BY DEF NoJob
<1>4. Request(u, j, "open")
  BY <1>1
<1> HIDE DEF j
<1>5. TypeOK /\ id \in 0..taken /\ id # 0 /\ "manual" \in Triggers
  BY <1>1, BoundAssumption DEF IInv, Data, TypeOK, Triggers, Ids
<1>6. Typed(j)
  BY <1>2, <1>3, <1>5, RequestTyped
<1>7. ThreadOK(j, "open")
  BY <1>2, <1>5, <1>6 DEF ThreadOK, Placed, Carries, Remembers, Respects
<1> QED BY <1>4, <1>7, RequestStep DEF PCs

LEMMA BeginUpdateKeeps == ASSUME IInv, NEW u \in Users, BeginUpdate(u) PROVE IInv'
<1>1. PICK id \in Ids, asked \in {TRUE, FALSE, None} :
         /\ snaps[id] # None
         /\ Request(u, [NoJob EXCEPT !.op = "update", !.id = id, !.asked = asked,
                                     !.pinned = Patched(snaps[id].pinned, asked)], "update")
  BY DEF BeginUpdate
<1>2. PICK pin : pin = Patched(snaps[id].pinned, asked)
  OBVIOUS
<1>3. TypeOK /\ id \in 1..taken /\ snaps[id] \in Rows /\ taken \in Nat
  BY <1>1, StoredCounted, BoundAssumption DEF IInv, Data, TypeOK
<1>4. snaps[id].pinned \in BOOLEAN /\ (id \in safe => snaps[id].pinned)
  BY <1>1, <1>3 DEF Rows, IInv, Data, PinHonoured
<1>5. /\ pin \in BOOLEAN
      /\ asked = TRUE => pin = TRUE
      /\ id \in safe => pin = TRUE \/ asked = FALSE
  BY <1>2, <1>4, NoneAssumption DEF Patched
<1> DEFINE j == [NoJob EXCEPT !.op = "update", !.id = id, !.asked = asked, !.pinned = pin]
<1>6. /\ DOMAIN j = JobFields /\ j.op = "update" /\ j.id = id /\ j.inst = None /\ j.asked = asked
      /\ j.trigger = "manual" /\ j.pinned = pin
      /\ j.pre = NoJob.pre /\ j.retain = 0 /\ j.todo = NoJob.todo /\ j.ids = NoJob.ids
  BY DEF NoJob, JobFields
<1>7. j.flag \in BOOLEAN
  BY DEF NoJob
<1>8. Request(u, j, "update")
  BY <1>1, <1>2
<1> HIDE DEF j
<1>9. Typed(j)
  <2>1. j.pinned \in BOOLEAN
    BY <1>5, <1>6, Zenon
  <2>2. "manual" \in Triggers /\ id \in 0..taken
    BY <1>3 DEF Triggers
  <2> QED BY <1>3, <1>6, <1>7, <2>1, <2>2, RequestTyped
<1>10. Respects(j, "update")
  BY <1>5, <1>6 DEF Respects
<1>11. ThreadOK(j, "update")
  BY <1>3, <1>6, <1>9, <1>10 DEF ThreadOK, Placed, Carries, Remembers
<1> QED BY <1>8, <1>11, RequestStep DEF PCs

LEMMA BeginDeleteKeeps == ASSUME IInv, NEW u \in Users, BeginDelete(u) PROVE IInv'
<1>1. PICK id \in Ids, force \in BOOLEAN :
         /\ snaps[id] # None
         /\ snaps[id].pinned => force
         /\ Request(u, [NoJob EXCEPT !.op = "delete", !.id = id, !.flag = force], "delete")
  BY DEF BeginDelete
<1>2. TypeOK /\ id \in 0..taken /\ id # 0
  BY <1>1, StoredCounted, BoundAssumption DEF IInv, Data, TypeOK
<1>3. id \in safe => force
  BY <1>1 DEF IInv, Data, PinHonoured
<1> DEFINE j == [NoJob EXCEPT !.op = "delete", !.id = id, !.flag = force]
<1>4. /\ DOMAIN j = JobFields /\ j.op = "delete" /\ j.id = id /\ j.inst = None /\ j.flag = force
      /\ j.trigger = "manual"
      /\ j.pre = NoJob.pre /\ j.retain = 0 /\ j.todo = NoJob.todo /\ j.ids = NoJob.ids
  BY DEF NoJob, JobFields
<1>5. j.pinned \in BOOLEAN
  BY DEF NoJob
<1>6. Request(u, j, "delete")
  BY <1>1
<1> HIDE DEF j
<1>7. j.flag \in BOOLEAN /\ "manual" \in Triggers
  BY <1>4 DEF Triggers
<1>8. Typed(j)
  BY <1>2, <1>4, <1>5, <1>7, RequestTyped
<1>9. ThreadOK(j, "delete")
  BY <1>2, <1>3, <1>4, <1>8 DEF ThreadOK, Placed, Carries, Remembers, Respects
<1> QED BY <1>6, <1>9, RequestStep DEF PCs

LEMMA BeginPutScheduleKeeps == ASSUME IInv, NEW u \in Users, BeginPutSchedule(u) PROVE IInv'
<1>1. PICK i \in registered, enabled \in BOOLEAN, retain \in Retains :
         Request(u, [NoJob EXCEPT !.op = "putSchedule", !.inst = i, !.flag = enabled,
                                  !.retain = retain], "putSchedule")
  BY DEF BeginPutSchedule
<1> DEFINE j == [NoJob EXCEPT !.op = "putSchedule", !.inst = i, !.flag = enabled, !.retain = retain]
<1>2. /\ DOMAIN j = JobFields /\ j.op = "putSchedule" /\ j.id = 0 /\ j.inst = i /\ j.flag = enabled
      /\ j.trigger = "manual" /\ j.retain = retain
      /\ j.pre = NoJob.pre /\ j.todo = NoJob.todo /\ j.ids = NoJob.ids
  BY DEF NoJob, JobFields
<1>3. j.pinned \in BOOLEAN
  BY DEF NoJob
<1>4. Request(u, j, "putSchedule")
  BY <1>1
<1> HIDE DEF j
<1>5. TypeOK /\ 0 \in 0..taken /\ "manual" \in Triggers /\ i \in Instances /\ retain \in Nat
  BY BoundAssumption, RetainAssumption DEF IInv, Data, TypeOK, Triggers
<1>6. j.flag \in BOOLEAN
  BY <1>2
<1>7. Typed(j)
  BY <1>2, <1>3, <1>5, <1>6, RequestTyped
<1>8. ThreadOK(j, "putSchedule")
  BY <1>2, <1>5, <1>7 DEF ThreadOK, Placed, Carries, Remembers, Respects
<1> QED BY <1>4, <1>8, RequestStep DEF PCs

-----------------------------------------------------------------------------
(* The steps of an operation *)

LEMMA FetchKeeps == ASSUME IInv, NEW t \in Threads, FetchInstance(t) PROVE IInv'
<1>1. /\ UNCHANGED <<registered, config, snaps, taken, schedules, key, origin, safe>>
      /\ quiet' \in BOOLEAN /\ pc[t] = "instance" /\ ThreadOK(job[t], pc[t])
  BY DEF FetchInstance, At, ghosts, IInv, Data, TypeOK
<1>2. CASE Finish(t)
  BY <1>1, <1>2, FinishStep
<1>3. CASE Go(t, IF job[t].op = "upload" THEN "store" ELSE "read") /\ UNCHANGED job
  <2>1. PICK l \in {"store", "read"} :
            pc' = [pc EXCEPT ![t] = l] /\ (l = "store" <=> job[t].op = "upload")
    BY <1>3 DEF Go
  <2>2. ThreadOK(job[t], l)
    BY <1>1, <2>1 DEF ThreadOK, Placed, Carries, Remembers, Respects
  <2>3. job' = job /\ l \in PCs
    BY <1>3 DEF PCs
  <2> QED BY <1>1, <2>1, <2>2, <2>3, MoveStep
<1> QED BY <1>2, <1>3 DEF FetchInstance

LEMMA ReadKeeps == ASSUME IInv, NEW t \in Threads, Read(t) PROVE IInv'
<1>1. /\ UNCHANGED <<registered, config, snaps, taken, schedules, key, origin, safe>>
      /\ quiet' \in BOOLEAN /\ pc[t] = "read" /\ ThreadOK(job[t], pc[t]) /\ DOMAIN job = Threads
  BY DEF Read, At, ghosts, IInv, Data, TypeOK
<1>2. job[t].inst \in Instances /\ Typed(job[t])
  BY <1>1 DEF ThreadOK, Placed
<1>3. PICK e : e = Export(job[t].inst)
  OBVIOUS
<1>4. e \in Docs /\ e.cfg = config[job[t].inst]
  BY <1>2, <1>3 DEF Export, Docs, IInv, Data, TypeOK, Configs
<1> DEFINE j == [job[t] EXCEPT !.fetched = e, !.calm = TRUE]
<1>5. job' = [job EXCEPT ![t] = j]
  BY <1>1, <1>3 DEF Read
<1>6. /\ DOMAIN j = JobFields /\ j.fetched = e
      /\ j.op = job[t].op /\ j.id = job[t].id /\ j.inst = job[t].inst /\ j.raw = job[t].raw
      /\ j.pre = job[t].pre /\ j.trigger = job[t].trigger /\ j.pinned = job[t].pinned
      /\ j.flag = job[t].flag /\ j.retain = job[t].retain /\ j.todo = job[t].todo
      /\ j.ids = job[t].ids
  BY <1>2 DEF Typed, JobFields
<1> HIDE DEF j
<1>7. Typed(j)
  BY <1>2, <1>6, Zenon DEF Typed
<1>8. ThreadOK(j, "store")
  BY <1>1, <1>2, <1>4, <1>6, <1>7 DEF ThreadOK, Placed, Carries, Remembers, Respects
<1> QED BY <1>1, <1>5, <1>8, LocalStep DEF Read, Go, PCs

LEMMA ReadBackKeeps == ASSUME IInv, NEW t \in Threads, ReadBack(t) PROVE IInv'
<1>1. /\ UNCHANGED <<registered, config, snaps, taken, schedules, key, origin, safe>>
      /\ quiet' \in BOOLEAN /\ pc[t] = "readBack" /\ ThreadOK(job[t], pc[t])
  BY DEF ReadBack, At, ghosts, IInv, Data, TypeOK
<1>2. CASE Finish(t)
  BY <1>1, <1>2, FinishStep
<1>3. CASE job[t].op = "restore" /\ Go(t, "send") /\ UNCHANGED job
  <2>1. ThreadOK(job[t], "send")
    BY <1>1, <1>3 DEF ThreadOK, Placed, Carries, Remembers, Respects
  <2>2. job' = job /\ "send" \in PCs
    BY <1>3 DEF PCs
  <2> QED BY <1>1, <1>3, <2>1, <2>2, MoveStep DEF Go
<1> QED BY <1>2, <1>3 DEF ReadBack

LEMMA TargetKeeps == ASSUME IInv, NEW t \in Threads, Target(t) PROVE IInv'
<1>1. /\ UNCHANGED <<registered, config, snaps, taken, schedules, key, origin, safe>>
      /\ quiet' \in BOOLEAN /\ pc[t] = "target" /\ ThreadOK(job[t], pc[t]) /\ DOMAIN job = Threads
  BY DEF Target, At, ghosts, IInv, Data, TypeOK
<1>2. Typed(job[t]) /\ job[t].op = "restore" /\ job[t].inst \in Instances
  BY <1>1 DEF ThreadOK, Placed
<1>3. CASE Finish(t)
  BY <1>1, <1>3, FinishStep
<1>4. CASE job[t].mode # "commit" /\ Go(t, "send") /\ UNCHANGED job
  <2>1. ThreadOK(job[t], "send")
    BY <1>1, <1>4 DEF ThreadOK, Placed, Carries, Remembers, Respects
  <2>2. job' = job /\ "send" \in PCs
    BY <1>4 DEF PCs
  <2> QED BY <1>1, <1>4, <2>1, <2>2, MoveStep DEF Go
<1>5. CASE Go(t, "instance") /\ job' = [job EXCEPT ![t].trigger = "pre_restore"]
  <2> DEFINE j == [job[t] EXCEPT !.trigger = "pre_restore"]
  <2>1. job' = [job EXCEPT ![t] = j]
    BY <1>1, <1>5
  <2>2. /\ DOMAIN j = JobFields /\ j.trigger = "pre_restore"
        /\ j.op = job[t].op /\ j.id = job[t].id /\ j.inst = job[t].inst /\ j.raw = job[t].raw
        /\ j.pre = job[t].pre /\ j.pinned = job[t].pinned
        /\ j.flag = job[t].flag /\ j.retain = job[t].retain /\ j.todo = job[t].todo
        /\ j.ids = job[t].ids
    BY <1>2 DEF Typed, JobFields
  <2> HIDE DEF j
  <2>3. Typed(j)
    BY <1>2, <2>2, Zenon DEF Typed, Triggers
  <2>4. ThreadOK(j, "instance")
    BY <1>1, <1>2, <2>2, <2>3 DEF ThreadOK, Placed, Carries, Remembers, Respects
  <2> QED BY <1>1, <1>5, <2>1, <2>4, LocalStep DEF Go, PCs
<1> QED BY <1>3, <1>4, <1>5 DEF Target

LEMMA StoreKeeps == ASSUME IInv, NEW t \in Threads, Store(t) PROVE IInv'
<1>1. /\ UNCHANGED <<registered, config, schedules, key, quiet, safe>>
      /\ pc[t] = "store" /\ ThreadOK(job[t], pc[t]) /\ DOMAIN job = Threads /\ TypeOK
  BY DEF Store, At, IInv, Data
<1>2. /\ Typed(job[t]) /\ job[t].inst \in Instances /\ job[t].fetched \in Docs
      /\ job[t].trigger \in Triggers
  BY <1>1 DEF ThreadOK, Placed, Typed
<1>3. CASE Finish(t) /\ UNCHANGED <<taken, snaps, origin>>
  BY <1>1, <1>3, FinishStep DEF TypeOK
<1>4. CASE job[t].inst \in registered /\ taken < MaxIds
  <2>1. PICK id : id = taken + 1
    OBVIOUS
  <2>2. /\ taken \in Nat /\ id \in Ids /\ id # 0 /\ MaxIds \in Nat
        /\ \A i \in Ids : i <= taken => i # id
    BY <1>1, <1>4, <2>1, BoundAssumption DEF TypeOK, Ids
  <2>3. PICK row : row = Row(job[t].inst, job[t].fetched, job[t].trigger)
    OBVIOUS
  <2>4. /\ row \in Rows /\ row # None /\ row.sum = job[t].fetched /\ row.inst = job[t].inst
    <3>1. row \in Rows
      BY <1>1, <1>2, <2>3 DEF Row, Rows, TypeOK
    <3> QED BY <2>3, <3>1, NoneAssumption DEF Row
  <2>5. PICK o : o = [inst |-> job[t].inst, doc |-> job[t].fetched]
    OBVIOUS
  <2>6. o.inst = job[t].inst /\ o.doc = job[t].fetched
    BY <2>5
  <2>7. /\ taken' = id /\ snaps' = [snaps EXCEPT ![id] = row] /\ origin' = [origin EXCEPT ![id] = o]
        /\ job' = [job EXCEPT ![t].pre = id, ![t].fetched = None]
        /\ pc' = [pc EXCEPT ![t] = "readBack"]
    BY <1>4, <2>1, <2>3, <2>5 DEF Store, Go
  <2>8. /\ snaps \in [Ids -> Rows \cup {None}] /\ DOMAIN origin = Ids /\ pc \in [Threads -> PCs]
    BY DEF IInv, Data, TypeOK, Origins
  <2>9. /\ snaps'[id] = row /\ origin'[id] = o
        /\ \A i \in Ids : i # id => snaps'[i] = snaps[i] /\ origin'[i] = origin[i]
    BY <2>2, <2>7, <2>8
  <2>10. Grown
    BY <2>1, <2>2, <2>7, <2>9 DEF Grown, Ids
  <2>11. TypeOK'
    <3>1. snaps' \in [Ids -> Rows \cup {None}]
      BY <2>2, <2>4, <2>7, <2>8
    <3>2. pc' \in [Threads -> PCs]
      BY <2>7, <2>8 DEF PCs
    <3>3. taken' \in 0..MaxIds
      BY <2>2, <2>7 DEF Ids
    <3>4. \A i \in Ids : (i > taken') => (snaps'[i] = None /\ origin'[i] = None)
      BY <1>1, <2>1, <2>2, <2>7, <2>9 DEF TypeOK, Ids
    <3>5. safe' \subseteq {i \in Ids : i <= taken'}
      BY <1>1, <2>1, <2>2, <2>7 DEF TypeOK, Ids
    <3> QED BY <1>1, <3>1, <3>2, <3>3, <3>4, <3>5 DEF TypeOK
  <2>12. Origins'
    <3>1. DOMAIN origin' = Ids
      BY <2>7, <2>8
    <3>2. \A i \in 1..taken' : i \in Ids /\ (i = id \/ i \in 1..taken)
      BY <2>1, <2>2, <2>7 DEF Ids
    <3>3. \A i \in 1..taken' : origin'[i].inst \in Instances /\ origin'[i].doc \in Docs
      BY <1>2, <2>6, <2>9, <3>2 DEF IInv, Data, Origins
    <3>4. \A i \in Ids : snaps'[i] # None =>
             snaps'[i].sum = origin'[i].doc /\ snaps'[i].inst = origin'[i].inst
      BY <2>4, <2>6, <2>9 DEF IInv, Data, Origins
    <3> QED BY <3>1, <3>3, <3>4 DEF Origins
  <2>13. PinHonoured'
    BY <1>1, <2>2, <2>9 DEF IInv, Data, PinHonoured, TypeOK
  <2>0. PICK j : j = [job[t] EXCEPT !.pre = id, !.fetched = None]
    OBVIOUS
  <2>14. job' = [job EXCEPT ![t] = j]
    BY <1>1, <2>0, <2>7
  <2>15. /\ DOMAIN j = JobFields /\ j.pre = id /\ j.mode = job[t].mode /\ j.calm = job[t].calm
         /\ j.op = job[t].op /\ j.id = job[t].id /\ j.inst = job[t].inst /\ j.raw = job[t].raw
         /\ j.trigger = job[t].trigger /\ j.pinned = job[t].pinned
         /\ j.flag = job[t].flag /\ j.retain = job[t].retain /\ j.todo = job[t].todo
         /\ j.ids = job[t].ids
    BY <1>2, <2>0 DEF Typed, JobFields
  <2>16. Typed(j)'
    <3>1. id \in 0..taken'
      BY <2>2, <2>7 DEF Ids
    <3>2. /\ j.id \in 0..taken' /\ j.inst \in Instances \cup {None} /\ j.trigger \in Triggers
          /\ j.retain \in Nat /\ j.todo \subseteq Instances /\ j.ids \subseteq 1..taken'
      <4>1. /\ job[t].id \in 0..taken' /\ job[t].ids \subseteq 1..taken'
            /\ job[t].inst \in Instances \cup {None} /\ job[t].trigger \in Triggers
            /\ job[t].retain \in Nat /\ job[t].todo \subseteq Instances
        <5>1. 0..taken \subseteq 0..taken' /\ 1..taken \subseteq 1..taken'
          BY <2>1, <2>2, <2>7
        <5> QED BY <1>2, <5>1 DEF Typed
      <4> QED BY <2>15, <4>1
    <3>3. j.flag \in BOOLEAN /\ j.pinned \in BOOLEAN
      BY <1>2, <2>15, Zenon DEF Typed
    <3> QED BY <2>15, <3>1, <3>2, <3>3 DEF Typed
  <2>17. \A i \in 0..taken : i # 0 => origin'[i] = origin[i]
    BY <2>10, <2>2 DEF Grown
  <2>18. Carries(j, "readBack")'
    BY <1>1, <1>2, <2>15, <2>17 DEF ThreadOK, Typed, Carries
  <2>19. Remembers(j, "readBack")'
    BY <1>1, <1>2, <2>2, <2>6, <2>9, <2>15 DEF ThreadOK, Remembers
  <2>20. Placed(j, "readBack") /\ Respects(j, "readBack")'
    BY <1>2, <2>15 DEF Placed, Respects
  <2>21. ThreadOK(j, "readBack")'
    BY <2>16, <2>18, <2>19, <2>20 DEF ThreadOK, Placed
  <2>22. /\ DOMAIN job' = Threads /\ job'[t] = j /\ pc'[t] = "readBack"
         /\ \A u \in Threads \ {t} : job'[u] = job[u] /\ pc'[u] = pc[u]
    BY <1>1, <2>7, <2>8, <2>14
  <2>23. ThreadOK(job[t], pc[t])'
    BY <2>21, <2>22 DEF ThreadOK, Typed, Placed, Carries, Remembers, Respects
  <2>24. \A u \in Threads \ {t} : Same(u)
    BY <2>22 DEF Same
  <2>25. Data' /\ safe' = safe /\ config' = config
    BY <1>1, <2>11, <2>12, <2>13 DEF Data
  <2> QED BY <2>10, <2>22, <2>23, <2>24, <2>25, StepOf
<1> QED BY <1>3, <1>4 DEF Store

LEMMA GoMoves ==
    ASSUME TypeOK, NEW t \in Threads, NEW l \in PCs, Go(t, l) PROVE pc' \in [Threads -> PCs]
BY DEF TypeOK, Go

LEMMA FinishMoves == ASSUME TypeOK, NEW t \in Threads, Finish(t) PROVE pc' \in [Threads -> PCs]
<1>1. PICK l \in {"recordRun", "verify", "idle"} : Go(t, l)
  BY DEF Finish
<1> QED BY <1>1, GoMoves DEF PCs

LEMMA OpenedMoves ==
    ASSUME TypeOK, NEW t \in Threads, NEW j, Opened(t, j) PROVE pc' \in [Threads -> PCs]
BY FinishMoves, GoMoves DEF Opened, PCs

\* The document has been looked at.
LEMMA OpenedKeeps ==
    ASSUME IInv, NEW t \in Threads, NEW j, Opened(t, j), ThreadOK(j, "mark"),
           Data', UNCHANGED <<config, taken, origin, safe>>
    PROVE  IInv'
<1>1. CASE j.op = "restore" /\ j.flag /\ job' = [job EXCEPT ![t] = j] /\ Go(t, "target")
  <2>1. ThreadOK(j, "target")
    BY <1>1 DEF ThreadOK, Placed, Carries, Remembers, Respects
  <2> QED BY <1>1, <2>1, WriteStep DEF Go, PCs
<1>2. CASE Finish(t)
  <2>1. Grown /\ safe' \ safe = {}
    BY BoundAssumption DEF IInv, Data, TypeOK, Grown
  <2> QED BY <1>2, <2>1, LastStep
<1> QED BY <1>1, <1>2 DEF Opened

\* What verifies is the document that was stored.
LEMMA VerifiedStored ==
    ASSUME Data, NEW id \in Ids, snaps[id] # None, Verdict(snaps[id]) = "ok"
    PROVE  snaps[id].blob.doc = origin[id].doc
<1>1. snaps[id].sum = origin[id].doc
  BY DEF Data, Origins
<1>2. snaps[id].blob.doc = snaps[id].sum
  BY DEF Verdict
<1> QED BY <1>1, <1>2

LEMMA OpenKeeps == ASSUME IInv, NEW t \in Threads, Open(t) PROVE IInv'
<1>1. /\ UNCHANGED <<registered, config, snaps, taken, schedules, key, origin, quiet, safe>>
      /\ pc[t] = "open" /\ ThreadOK(job[t], pc[t]) /\ DOMAIN job = Threads /\ Data /\ TypeOK
  BY DEF Open, At, ghosts, IInv, Data
<1>2. Typed(job[t]) /\ job[t].id \in Ids /\ job[t].id # 0
  BY <1>1, BoundAssumption DEF ThreadOK, Placed, Typed, TypeOK, Ids
<1>3. CASE Finish(t)
  BY <1>1, <1>3, FinishStep DEF TypeOK
<1>4. CASE ~ Finish(t)
  <2>1. PICK row : row = snaps[job[t].id]
    OBVIOUS
  <2>2. PICK ok : ok = (Verdict(row) = "ok")
    OBVIOUS
  <2>3. PICK raw : raw = IF ok THEN row.blob.doc ELSE None
    OBVIOUS
  <2>4. PICK i : i = IF job[t].inst = None THEN row.inst ELSE job[t].inst
    OBVIOUS
  <2>5. PICK j : j = [job[t] EXCEPT !.flag = ok, !.calm = TRUE, !.inst = i, !.raw = raw]
    OBVIOUS
  <2>6. /\ row # None
        /\ Opened(t, j) \/ (job' = [job EXCEPT ![t] = j] /\ Go(t, "mark"))
    <3>1. /\ row # None
          /\ \/ Opened(t, [job[t] EXCEPT !.flag = ok, !.calm = TRUE,
                                         !.inst = IF job[t].inst = None THEN row.inst ELSE job[t].inst,
                                         !.raw = IF ok THEN row.blob.doc ELSE None])
             \/ /\ job' = [job EXCEPT ![t] = [job[t] EXCEPT !.flag = ok, !.calm = TRUE,
                                         !.inst = IF job[t].inst = None THEN row.inst ELSE job[t].inst,
                                         !.raw = IF ok THEN row.blob.doc ELSE None]]
                /\ Go(t, "mark")
      BY <1>2, <1>4, <2>1, <2>2 DEF Open, Typed, JobFields
    <3> QED BY <2>3, <2>4, <2>5, <3>1
  <2>7. row \in Rows /\ ok \in BOOLEAN
    BY <1>1, <1>2, <2>1, <2>2, <2>6, StoredCounted
  <2>8. i \in Instances
    BY <1>2, <2>4, <2>7 DEF Typed, Rows
  <2>9. /\ DOMAIN j = JobFields /\ j.inst = i /\ j.raw = raw
        /\ j.op = job[t].op /\ j.id = job[t].id /\ j.pre = job[t].pre
        /\ j.trigger = job[t].trigger /\ j.retain = job[t].retain /\ j.todo = job[t].todo
        /\ j.ids = job[t].ids
    BY <1>2, <2>5 DEF Typed, JobFields
  <2>10. (j.flag <=> ok) /\ j.flag \in BOOLEAN /\ j.pinned = job[t].pinned
    BY <1>2, <2>5, <2>7 DEF Typed, JobFields
  <2>11. Typed(j)
    <3>1. j.pinned \in BOOLEAN
      BY <1>2, <2>10, Zenon DEF Typed
    <3> QED BY <1>2, <2>8, <2>9, <2>10, <3>1 DEF Typed
  <2>12. j.flag => j.raw = origin[j.id].doc
    BY <1>1, <1>2, <2>1, <2>2, <2>3, <2>6, <2>9, <2>10, VerifiedStored
  <2>13. ThreadOK(j, "mark")
    BY <1>2, <2>8, <2>9, <2>11, <2>12 DEF ThreadOK, Placed, Carries, Remembers, Respects
  <2>14. Data'
    <3>1. pc' \in [Threads -> PCs]
      BY <1>1, <2>6, OpenedMoves, GoMoves DEF PCs
    <3> QED BY <1>1, <3>1 DEF Data, TypeOK, Origins, PinHonoured
  <2> QED BY <1>1, <2>6, <2>13, <2>14, OpenedKeeps, WriteStep DEF Go, PCs
<1> QED BY <1>3, <1>4

LEMMA MarkKeeps == ASSUME IInv, NEW t \in Threads, Mark(t) PROVE IInv'
<1>1. /\ UNCHANGED <<registered, config, taken, schedules, key, origin, quiet, safe>>
      /\ pc[t] = "mark" /\ ThreadOK(job[t], pc[t]) /\ Data /\ TypeOK /\ Opened(t, job[t])
  BY DEF Mark, At, ghosts, IInv, Data
<1>2. job[t].flag \in BOOLEAN
  BY <1>1 DEF ThreadOK, Typed
<1>a. PICK id : id = job[t].id
  OBVIOUS
<1>b. PICK ok \in BOOLEAN : ok = job[t].flag
  BY <1>2, Zenon
<1>3. snaps' = [snaps EXCEPT ![id] = IF @ = None THEN None ELSE [@ EXCEPT !.ok = ok]]
  BY <1>a, <1>b, Zenon DEF Mark
<1>4. snaps \in [Ids -> Rows \cup {None}]
  BY <1>1 DEF TypeOK
<1>5. \A row \in Rows : /\ [row EXCEPT !.ok = ok] \in Rows
                        /\ [row EXCEPT !.ok = ok].sum = row.sum
                        /\ [row EXCEPT !.ok = ok].inst = row.inst
                        /\ [row EXCEPT !.ok = ok].pinned = row.pinned
  BY DEF Rows
<1>6. /\ snaps' \in [Ids -> Rows \cup {None}]
      /\ \A i \in Ids : (snaps'[i] = None <=> snaps[i] = None)
  BY <1>3, <1>4, <1>5, NoneAssumption
<1>7. \A i \in Ids : snaps[i] # None =>
         snaps'[i].sum = snaps[i].sum /\ snaps'[i].inst = snaps[i].inst
         /\ snaps'[i].pinned = snaps[i].pinned
  BY <1>3, <1>4, <1>5
<1>8. pc' \in [Threads -> PCs]
  BY <1>1, OpenedMoves
<1>9. TypeOK'
  BY <1>1, <1>6, <1>8 DEF TypeOK
<1>10. Origins'
  BY <1>1, <1>6, <1>7 DEF Data, Origins
<1>11. PinHonoured'
  BY <1>1, <1>6, <1>7 DEF Data, PinHonoured, TypeOK
<1> QED BY <1>1, <1>9, <1>10, <1>11, OpenedKeeps DEF Data

\* What a thread does not depend on the configuration for, when it is told.
LEMMA DisturbSame ==
    ASSUME NEW u \in Threads, NEW i
    PROVE  /\ Disturb(job, i)[u] = job[u] \/ Disturb(job, i)[u] = [job[u] EXCEPT !.calm = FALSE]
           /\ job[u].inst = i => Disturb(job, i)[u] = [job[u] EXCEPT !.calm = FALSE]
BY DEF Disturb

LEMMA SendKeeps == ASSUME IInv, NEW t \in Threads, Send(t) PROVE IInv'
<1>1. /\ UNCHANGED <<registered, snaps, taken, schedules, key, origin, quiet, safe>>
      /\ pc[t] = "send" /\ ThreadOK(job[t], pc[t]) /\ Data /\ TypeOK /\ DOMAIN job = Threads
      /\ pc' = [pc EXCEPT ![t] = "idle"]
  BY DEF Send, At, Go, ghosts, IInv, Data
<1>2. /\ job[t].inst \in Instances /\ job[t].op = "restore" /\ job[t].id \in 1..taken
  BY <1>1, BoundAssumption DEF ThreadOK, Typed, Placed, Carries, TypeOK
<1>3. job[t].raw \in Docs
  BY <1>1, <1>2 DEF ThreadOK, Carries, Data, Origins
<1>4. PICK i : i = job[t].inst
  OBVIOUS
<1>5. PICK cfg : cfg = job[t].raw.cfg
  OBVIOUS
<1>6. PICK S : /\ S \subseteq Selected(job[t].raw, job[t].comps)
               /\ config' = [config EXCEPT ![i] =
                                [d \in Domains |-> IF d \in S THEN cfg[d] ELSE config[i][d]]]
               /\ job' = [(IF S = {} THEN job ELSE Disturb(job, i)) EXCEPT ![t] = NoJob]
  <2>1. PICK S \in SUBSET (IF job[t].mode = "commit" THEN Selected(job[t].raw, job[t].comps)
                           ELSE {}) :
               /\ config' = [config EXCEPT ![i] =
                                [d \in Domains |-> IF d \in S THEN cfg[d] ELSE config[i][d]]]
               /\ job' = [(IF S = {} THEN job ELSE Disturb(job, i)) EXCEPT ![t] = NoJob]
    BY <1>1, <1>2, <1>4, <1>5 DEF Send, TypeOK
  <2> QED BY <2>1
<1>7. config \in [Instances -> Configs] /\ i \in Instances /\ \A d \in S : cfg[d] # None
  BY <1>1, <1>2, <1>4, <1>5, <1>6 DEF TypeOK, Selected
<1>8. cfg \in [Domains -> Vals \cup {None}]
  BY <1>3, <1>5 DEF Docs
<1>9. [d \in Domains |-> IF d \in S THEN cfg[d] ELSE config[i][d]] \in Configs
  <2>1. \A d \in Domains : config[i][d] \in Vals
    BY <1>7 DEF Configs
  <2>2. \A d \in Domains : d \in S => cfg[d] \in Vals
    BY <1>7, <1>8
  <2> QED BY <2>1, <2>2 DEF Configs
<1>10. config' \in [Instances -> Configs]
  BY <1>6, <1>7, <1>9
<1>11. pc' \in [Threads -> PCs] /\ pc'[t] = "idle" /\ \A u \in Threads \ {t} : pc'[u] = pc[u]
  BY <1>1 DEF TypeOK, PCs
<1>12. Data'
  <2>1. TypeOK'
    BY <1>1, <1>10, <1>11 DEF TypeOK
  <2> QED BY <1>1, <2>1 DEF Data, Origins, PinHonoured
<1>13. Grown /\ safe' \ safe = {}
  BY <1>1, BoundAssumption DEF Grown, TypeOK
<1>14. PICK jobs : /\ jobs = (IF S = {} THEN job ELSE Disturb(job, i))
                   /\ job' = [jobs EXCEPT ![t] = NoJob] /\ DOMAIN jobs = Threads
  <2>1. PICK jobs : jobs = (IF S = {} THEN job ELSE Disturb(job, i))
    OBVIOUS
  <2>2. DOMAIN jobs = Threads
    BY <1>1, <2>1 DEF Disturb
  <2>3. job' = [jobs EXCEPT ![t] = NoJob]
    BY <1>6, <2>1, Zenon
  <2> QED BY <2>1, <2>2, <2>3
<1>15. DOMAIN job' = Threads /\ job'[t] = NoJob /\ \A u \in Threads \ {t} : job'[u] = jobs[u]
  BY <1>14
<1>16. ThreadOK(job[t], pc[t])'
  <2>1. Typed(NoJob)'
    BY <1>1, <1>13, NoJobOK, TypedGrows
  <2> QED BY <1>11, <1>15, <2>1, NoJobFields
        DEF ThreadOK, Typed, Placed, Carries, Remembers, Respects
<1>17. ASSUME NEW u \in Threads \ {t} PROVE ThreadOK(job[u], pc[u])'
  <2>1. Same(u)
    <3>1. jobs[u] = job[u] \/ jobs[u] = [job[u] EXCEPT !.calm = FALSE]
      BY <1>14, DisturbSame
    <3> QED BY <1>11, <1>15, <3>1 DEF Same
  <2>2. job[u].inst \in Instances => config'[job[u].inst] = config[job[u].inst] \/ job'[u].calm = FALSE
    <3>1. CASE job[u].inst # i
      BY <1>6, <1>7, <3>1
    <3>2. CASE job[u].inst = i /\ S = {}
      <4>1. config'[i] = [d \in Domains |-> config[i][d]]
        BY <1>6, <1>7, <3>2
      <4>2. config[i] \in [Domains -> Vals]
        BY <1>7 DEF Configs
      <4> QED BY <3>2, <4>1, <4>2
    <3>3. CASE job[u].inst = i /\ S # {}
      <4>1. job'[u] = [job[u] EXCEPT !.calm = FALSE]
        BY <1>14, <1>15, <3>3, DisturbSame
      <4>2. DOMAIN job[u] = JobFields
        BY DEF IInv, ThreadOK, Typed
      <4> QED BY <4>1, <4>2 DEF JobFields
    <3> QED BY <3>1, <3>2, <3>3
  <2> QED BY <1>13, <2>1, <2>2, OthersKeep
<1> QED BY <1>12, <1>15, <1>16, <1>17 DEF IInv

LEMMA UpdateKeeps == ASSUME IInv, NEW t \in Threads, Update(t) PROVE IInv'
<1>1. /\ UNCHANGED <<registered, config, taken, schedules, key, origin>>
      /\ quiet' = FALSE /\ Finish(t)
      /\ pc[t] = "update" /\ ThreadOK(job[t], pc[t]) /\ Data /\ TypeOK
  BY DEF Update, At, IInv, Data
<1>2. PICK id : id = job[t].id
  OBVIOUS
<1>3. job[t].pinned \in BOOLEAN
  BY <1>1 DEF ThreadOK, Typed
<1>4. PICK pin \in BOOLEAN : pin = job[t].pinned
  BY <1>3, Zenon
<1>5. id \in Ids
  BY <1>1, <1>2, BoundAssumption DEF ThreadOK, Typed, Placed, TypeOK, Ids
<1>6. snaps' = [snaps EXCEPT ![id] = IF @ = None THEN None ELSE [@ EXCEPT !.pinned = pin]]
  BY <1>2, <1>4, Zenon DEF Update
<1>7. safe' = IF job[t].asked = FALSE THEN safe \ {id}
              ELSE IF job[t].asked = TRUE /\ snaps[id] # None /\ ~InFlight(t, id)
              THEN safe \cup {id} ELSE safe
  BY <1>2, Zenon DEF Update
<1>8. snaps \in [Ids -> Rows \cup {None}]
  BY <1>1 DEF TypeOK
<1>9. \A row \in Rows : /\ [row EXCEPT !.pinned = pin] \in Rows
                        /\ [row EXCEPT !.pinned = pin].sum = row.sum
                        /\ [row EXCEPT !.pinned = pin].inst = row.inst
                        /\ [row EXCEPT !.pinned = pin].pinned = pin
  BY DEF Rows
<1>10. /\ snaps' \in [Ids -> Rows \cup {None}]
       /\ \A i \in Ids : (snaps'[i] = None <=> snaps[i] = None)
  BY <1>6, <1>8, <1>9, NoneAssumption
<1>11. \A i \in Ids : snaps[i] # None =>
          snaps'[i].sum = snaps[i].sum /\ snaps'[i].inst = snaps[i].inst
  BY <1>6, <1>8, <1>9
<1>12. /\ snaps[id] # None => snaps'[id].pinned = pin
       /\ \A i \in Ids : i # id => snaps'[i] = snaps[i]
  BY <1>5, <1>6, <1>8, <1>9
<1>13. pc' \in [Threads -> PCs]
  BY <1>1, FinishMoves
<1>14. safe' \subseteq {i \in Ids : i <= taken}
  <2>1. snaps[id] # None => id <= taken
    BY <1>1, <1>5, StoredCounted, BoundAssumption DEF TypeOK
  <2> QED BY <1>1, <1>5, <1>7, <2>1 DEF TypeOK
<1>15. TypeOK'
  BY <1>1, <1>10, <1>13, <1>14 DEF TypeOK
<1>16. Origins'
  BY <1>1, <1>10, <1>11 DEF Data, Origins
<1>17. id \in safe' => snaps[id] # None /\ pin = TRUE
  <2>1. /\ job[t].asked = TRUE => pin = TRUE
        /\ id \in safe => pin = TRUE \/ job[t].asked = FALSE
    BY <1>1, <1>2, <1>4, Zenon DEF ThreadOK, Respects
  <2>2. id \in safe => snaps[id] # None
    BY <1>1 DEF Data, PinHonoured
  <2> QED BY <1>7, <2>1, <2>2
<1>18. \A i \in safe' : i # id => i \in safe /\ i \in Ids
  BY <1>1, <1>7 DEF TypeOK
<1>19. PinHonoured'
  <2> SUFFICES ASSUME NEW i \in safe' PROVE snaps'[i] # None /\ snaps'[i].pinned
    BY DEF PinHonoured
  <2>1. CASE i = id
    BY <1>5, <1>10, <1>12, <1>17, <2>1
  <2>2. CASE i # id
    BY <1>1, <1>12, <1>18, <2>2 DEF Data, PinHonoured
  <2> QED BY <2>1, <2>2
<1>20. Grown
  BY <1>1, BoundAssumption DEF Grown, TypeOK
<1>21. \A i \in safe' \ safe : ~ InFlight(t, i)
  BY <1>7
<1> QED BY <1>1, <1>15, <1>16, <1>19, <1>20, <1>21, LastStep DEF Data

\* A row goes that does not count as safely pinned.
LEMMA RemoveData ==
    ASSUME Data, NEW id, snaps' = [snaps EXCEPT ![id] = None], safe' \subseteq safe, id \notin safe',
           UNCHANGED <<registered, config, taken, schedules, key, origin>>,
           quiet' \in BOOLEAN, pc' \in [Threads -> PCs]
    PROVE  Data'
<1>1. /\ snaps \in [Ids -> Rows \cup {None}]
      /\ snaps' \in [Ids -> Rows \cup {None}]
      /\ \A i \in Ids : snaps'[i] = None \/ snaps'[i] = snaps[i]
      /\ \A i \in Ids : i # id => snaps'[i] = snaps[i]
  BY DEF Data, TypeOK
<1>2. TypeOK'
  BY <1>1 DEF Data, TypeOK
<1>3. Origins'
  BY <1>1 DEF Data, Origins
<1>4. PinHonoured'
  BY <1>1 DEF Data, TypeOK, PinHonoured
<1> QED BY <1>2, <1>3, <1>4 DEF Data

LEMMA DeleteKeeps == ASSUME IInv, NEW t \in Threads, Delete(t) PROVE IInv'
<1>1. /\ UNCHANGED <<registered, config, taken, schedules, key, origin>>
      /\ quiet' = FALSE /\ Finish(t) /\ snaps' = [snaps EXCEPT ![job[t].id] = None]
      /\ pc[t] = "delete" /\ ThreadOK(job[t], pc[t]) /\ Data /\ TypeOK
  BY DEF Delete, At, IInv, Data
<1>2. safe' \subseteq safe /\ job[t].id \notin safe'
  BY <1>1 DEF Delete, ThreadOK, Respects
<1>3. pc' \in [Threads -> PCs]
  BY <1>1, FinishMoves
<1>4. Data'
  BY <1>1, <1>2, <1>3, RemoveData
<1>5. Grown
  BY <1>1, BoundAssumption DEF Grown, TypeOK
<1> QED BY <1>1, <1>2, <1>4, <1>5, LastStep

LEMMA PutScheduleKeeps == ASSUME IInv, NEW t \in Threads, PutSchedule(t) PROVE IInv'
<1>1. /\ UNCHANGED <<registered, config, snaps, taken, key, origin, safe>>
      /\ quiet' = FALSE /\ Finish(t)
      /\ pc[t] = "putSchedule" /\ ThreadOK(job[t], pc[t]) /\ Data /\ TypeOK
  BY DEF PutSchedule, At, IInv, Data
<1>2. job[t].flag \in BOOLEAN /\ job[t].retain \in Nat
  BY <1>1 DEF ThreadOK, Typed
<1>3. PICK flag \in BOOLEAN : flag = job[t].flag
  BY <1>2, Zenon
<1>4. PICK retain \in Nat :
         retain = IF job[t].retain < 1 THEN DefaultRetain ELSE job[t].retain
  BY <1>2, RetainAssumption
<1>5. PICK i : i = job[t].inst
  OBVIOUS
<1>6. PICK ran \in BOOLEAN : i \in registered =>
         ran = IF schedules[i] = None THEN FALSE ELSE schedules[i].ran
  BY <1>1 DEF TypeOK, Schedules
<1>7. schedules \in [Instances -> Schedules \cup {None}] /\ registered \subseteq Instances
  BY <1>1 DEF TypeOK
<1>8. schedules' \in [Instances -> Schedules \cup {None}]
  <2>1. CASE i \notin registered
    BY <1>5, <1>7, <2>1 DEF PutSchedule
  <2>2. CASE i \in registered
    <3>1. schedules' = [schedules EXCEPT ![i] = [enabled |-> flag, retain |-> retain, ran |-> ran]]
      BY <1>3, <1>4, <1>5, <1>6, <1>7, <2>2 DEF PutSchedule
    <3>2. [enabled |-> flag, retain |-> retain, ran |-> ran] \in Schedules
      BY DEF Schedules
    <3> QED BY <1>7, <3>1, <3>2
  <2> QED BY <2>1, <2>2
<1>9. pc' \in [Threads -> PCs]
  BY <1>1, FinishMoves
<1>10. Data'
  <2>1. TypeOK'
    BY <1>1, <1>8, <1>9 DEF TypeOK
  <2> QED BY <1>1, <2>1 DEF Data, Origins, PinHonoured
<1>11. Grown /\ safe' \ safe = {}
  BY <1>1, BoundAssumption DEF Grown, TypeOK
<1> QED BY <1>1, <1>10, <1>11, LastStep

LEMMA FailKeeps == ASSUME IInv, NEW t \in Threads, Fail(t) PROVE IInv'
<1>1. /\ UNCHANGED <<registered, config, snaps, taken, schedules, key, origin, safe>>
      /\ quiet' \in BOOLEAN /\ Finish(t)
  BY DEF Fail, ghosts, IInv, Data, TypeOK
<1> QED BY <1>1, FinishStep

-----------------------------------------------------------------------------
(* The world around OAM *)

\* A step of nobody's: what it changes is either told to the threads or no
\* matter to them.
LEMMA WorldStep ==
    ASSUME IInv, Data', DOMAIN job' = Threads, UNCHANGED <<taken, origin>>, safe' \subseteq safe,
           \A u \in Threads : /\ Same(u)
                              /\ job[u].inst \in Instances =>
                                    config'[job[u].inst] = config[job[u].inst] \/ job'[u].calm = FALSE
    PROVE  IInv'
<1>1. Grown
  BY BoundAssumption DEF Grown, IInv, Data, TypeOK
<1>2. ASSUME NEW u \in Threads PROVE ThreadOK(job[u], pc[u])'
  BY <1>1, OthersKeep
<1> QED BY <1>2 DEF IInv

\* Only the bytes of a row that is tampered with change.
LEMMA TamperRow ==
    ASSUME IInv, NEW id \in Ids, Tamper(id)
    PROVE  \E new \in Rows :
              /\ snaps' = [snaps EXCEPT ![id] = new]
              /\ new.sum = snaps[id].sum /\ new.inst = snaps[id].inst
              /\ new.pinned = snaps[id].pinned /\ new.trigger = snaps[id].trigger
<1>1. snaps[id] # None /\ TypeOK
  BY DEF Tamper, IInv, Data
<1>2. snaps[id] \in Rows
  BY <1>1, StoredCounted
<1>3. PICK row \in Rows : row = snaps[id]
  BY <1>2
<1>4. (CHOOSE d \in Uploads : d # snaps[id].sum) \in Docs
  <2>1. \E d \in Uploads : d # snaps[id].sum
    BY UploadsAssumption
  <2> QED BY <2>1, UploadsAssumption
<1>5. PICK k \in {None, snaps[id].blob.key},
           doc \in {Damaged, snaps[id].sum, CHOOSE d \in Uploads : d # snaps[id].sum} :
             snaps' = [snaps EXCEPT ![id].blob = [key |-> k, doc |-> doc]]
  BY Zenon DEF Tamper
<1>6. k \in Keys \cup {None} /\ doc \in Docs \cup {Damaged}
  BY <1>2, <1>4, <1>5 DEF Rows
<1>7. PICK blob : blob = [key |-> k, doc |-> doc]
  OBVIOUS
<1>8. blob \in [key : Keys \cup {None}, doc : Docs \cup {Damaged}]
  BY <1>6, <1>7
<1>9. PICK new : new = [row EXCEPT !.blob = blob]
  OBVIOUS
<1>10. /\ new \in Rows /\ new.sum = row.sum /\ new.inst = row.inst
       /\ new.pinned = row.pinned /\ new.trigger = row.trigger
  BY <1>8, <1>9 DEF Rows
<1>11. snaps \in [Ids -> Rows \cup {None}]
  BY <1>1 DEF TypeOK
<1>12. snaps' = [snaps EXCEPT ![id] = new]
  BY <1>3, <1>5, <1>7, <1>9, <1>11
<1> QED BY <1>3, <1>10, <1>12

LEMMA TamperKeeps == ASSUME IInv, NEW id \in Ids, Tamper(id) PROVE IInv'
<1>1. /\ UNCHANGED <<registered, config, taken, schedules, key, pc, origin, quiet, safe>>
      /\ snaps[id] # None /\ Data /\ TypeOK /\ job' = Overtake(job, id)
  BY DEF Tamper, ghosts, IInv, Data
<1>2. PICK new \in Rows : /\ snaps' = [snaps EXCEPT ![id] = new]
                          /\ new.sum = snaps[id].sum /\ new.inst = snaps[id].inst
                          /\ new.pinned = snaps[id].pinned
  BY TamperRow
<1>3. snaps \in [Ids -> Rows \cup {None}]
  BY <1>1 DEF TypeOK
<1>4. /\ snaps' \in [Ids -> Rows \cup {None}] /\ snaps'[id] = new /\ new # None
      /\ \A i \in Ids : i # id => snaps'[i] = snaps[i]
  BY <1>2, <1>3, NoneAssumption
<1>5. TypeOK'
  <2>1. \A i \in Ids : (i > taken') => (snaps'[i] = None /\ origin'[i] = None)
    BY <1>1, <1>4 DEF TypeOK
  <2> QED BY <1>1, <1>4, <2>1 DEF TypeOK
<1>6. Origins'
  BY <1>1, <1>2, <1>4 DEF Data, Origins
<1>7. PinHonoured'
  BY <1>1, <1>2, <1>4 DEF Data, PinHonoured, TypeOK
<1>8. DOMAIN job' = Threads /\ \A u \in Threads : Same(u)
  BY <1>1 DEF Overtake, Same
<1> QED BY <1>1, <1>5, <1>6, <1>7, <1>8, WorldStep DEF Data

LEMMA ChangeConfigKeeps == ASSUME IInv, NEW i \in Instances, ChangeConfig(i) PROVE IInv'
<1>1. PICK d \in Domains, v \in Vals : config' = [config EXCEPT ![i][d] = v]
  BY DEF ChangeConfig
<1>2. /\ UNCHANGED <<registered, snaps, taken, schedules, key, pc, origin, quiet, safe>>
      /\ Data /\ TypeOK /\ job' = Disturb(job, i)
  BY DEF ChangeConfig, ghosts, IInv, Data
<1>3. config \in [Instances -> Configs]
  BY <1>2 DEF TypeOK
<1>4. config' \in [Instances -> Configs] /\ \A o \in Instances : o # i => config'[o] = config[o]
  <2>1. PICK new : new = [config[i] EXCEPT ![d] = v]
    OBVIOUS
  <2>2. new \in Configs
    BY <1>3, <2>1 DEF Configs
  <2>3. config' = [config EXCEPT ![i] = new]
    BY <1>1, <1>3, <2>1
  <2> QED BY <1>3, <2>2, <2>3
<1>5. Data'
  <2>1. TypeOK'
    BY <1>2, <1>4 DEF TypeOK
  <2> QED BY <1>2, <2>1 DEF Data, Origins, PinHonoured
<1>6. DOMAIN job' = Threads
  BY <1>2 DEF Disturb
<1>7. ASSUME NEW u \in Threads
      PROVE  /\ Same(u)
             /\ job[u].inst \in Instances =>
                   config'[job[u].inst] = config[job[u].inst] \/ job'[u].calm = FALSE
  <2>1. Same(u)
    BY <1>2, DisturbSame DEF Same
  <2>2. CASE job[u].inst # i
    BY <1>4, <2>1, <2>2
  <2>3. CASE job[u].inst = i
    <3>1. job'[u] = [job[u] EXCEPT !.calm = FALSE]
      BY <1>2, <2>3, DisturbSame
    <3>2. DOMAIN job[u] = JobFields
      BY DEF IInv, ThreadOK, Typed
    <3>3. job'[u].calm = FALSE
      BY <3>1, <3>2 DEF JobFields
    <3> QED BY <2>1, <3>3
  <2> QED BY <2>2, <2>3
<1> QED BY <1>2, <1>5, <1>6, <1>7, WorldStep

LEMMA DeleteInstanceKeeps == ASSUME IInv, NEW i \in Instances, DeleteInstance(i) PROVE IInv'
<1>1. /\ UNCHANGED <<config, taken, key, pc, job, origin>>
      /\ registered' = registered \ {i} /\ quiet' = FALSE /\ safe' = safe \ Of(i)
      /\ snaps' = [id \in Ids |-> IF id \in Of(i) THEN None ELSE snaps[id]]
      /\ schedules' = [schedules EXCEPT ![i] = None]
      /\ Data /\ TypeOK
  BY DEF DeleteInstance, IInv, Data
<1>2. /\ snaps' \in [Ids -> Rows \cup {None}]
      /\ \A id \in Ids : snaps'[id] = None \/ snaps'[id] = snaps[id]
      /\ \A id \in Ids : id \notin Of(i) => snaps'[id] = snaps[id]
  <2> HIDE DEF Of
  <2> QED BY <1>1 DEF TypeOK
<1>3. TypeOK'
  <2>1. schedules' \in [Instances -> Schedules \cup {None}]
    BY <1>1 DEF TypeOK
  <2> QED BY <1>1, <1>2, <2>1 DEF TypeOK
<1>4. Origins'
  BY <1>1, <1>2 DEF Data, Origins
<1>5. PinHonoured'
  BY <1>1, <1>2 DEF Data, PinHonoured, TypeOK
<1>6. DOMAIN job' = Threads /\ \A u \in Threads : Same(u)
  BY <1>1 DEF IInv, Same
<1> QED BY <1>1, <1>3, <1>4, <1>5, <1>6, WorldStep DEF Data

LEMMA RestartKeeps == ASSUME IInv, Restart PROVE IInv'
<1>1. /\ UNCHANGED <<registered, config, snaps, taken, schedules, origin, quiet, safe>>
      /\ key' \in Keys \cup {None} /\ pc' = [t \in Threads |-> "idle"]
      /\ job' = [t \in Threads |-> NoJob] /\ Data /\ TypeOK
  BY DEF Restart, ghosts, IInv, Data
<1>2. Data'
  <2>1. TypeOK'
    BY <1>1 DEF TypeOK, PCs
  <2> QED BY <1>1, <2>1 DEF Data, Origins, PinHonoured
<1>3. ASSUME NEW t \in Threads PROVE ThreadOK(job[t], pc[t])'
  <2>1. job'[t] = NoJob /\ pc'[t] = "idle"
    BY <1>1
  <2>2. Typed(NoJob)
    BY <1>1, NoJobOK
  <2> QED BY <1>1, <2>1, <2>2 DEF ThreadOK, Typed, Placed, Carries, Remembers, Respects
<1>4. DOMAIN job' = Threads
  BY <1>1
<1> QED BY <1>2, <1>3, <1>4 DEF IInv

-----------------------------------------------------------------------------
(* The scheduler *)

\* What the steps of the scheduler leave alone.
Quiet == UNCHANGED <<registered, config, snaps, taken, schedules, key, origin, safe>>

LEMMA SchedulerThread == Scheduler \in Threads
BY DEF Threads

\* A step with a new job to a place where only its types matter.
LEMMA RestStep ==
    ASSUME IInv, NEW t \in Threads, NEW j, NEW l \in Resting, Typed(j), Placed(j, l),
           job' = [job EXCEPT ![t] = j], Go(t, l), Quiet, quiet' \in BOOLEAN
    PROVE  IInv'
<1>1. ThreadOK(j, l) /\ l \in PCs
  BY RestingOK DEF Resting, PCs
<1> QED BY <1>1, LocalStep DEF Go, Quiet

\* The fields of a job that the scheduler changes.
LEMMA Working ==
    ASSUME NEW j, Typed(j), NEW i \in Instances \cup {None}, NEW trigger \in Triggers,
           NEW todo \in SUBSET Instances, NEW ids \in SUBSET (1..taken), NEW id \in 0..taken, NEW k,
           DOMAIN k = JobFields, k.id = id, k.inst = i, k.trigger = trigger, k.todo = todo, k.ids = ids,
           k.pre = j.pre, k.retain = j.retain, k.flag = j.flag, k.pinned = j.pinned
    PROVE  Typed(k)
<1>1. k.flag \in BOOLEAN /\ k.pinned \in BOOLEAN
  BY Zenon DEF Typed
<1> QED BY <1>1 DEF Typed

LEMMA TickKeeps == ASSUME IInv, NEW due \in SUBSET Instances, Tick(due) PROVE IInv'
<1> DEFINE j == [NoJob EXCEPT !.op = "scheduled", !.todo = due]
<1>1. /\ DOMAIN j = JobFields /\ j.op = "scheduled" /\ j.todo = due /\ j.id = 0 /\ j.inst = None
      /\ j.trigger = "manual" /\ j.ids = {} /\ j.pre = NoJob.pre /\ j.retain = NoJob.retain
      /\ j.flag = NoJob.flag /\ j.pinned = NoJob.pinned
  BY DEF NoJob, JobFields
<1>2. job' = [job EXCEPT ![Scheduler] = j] /\ Go(Scheduler, "due") /\ Quiet /\ quiet' \in BOOLEAN
  BY DEF Tick, Quiet, ghosts, IInv, Data, TypeOK
<1> HIDE DEF j
<1>3. Typed(NoJob) /\ 0 \in 0..taken
  BY NoJobOK, BoundAssumption DEF IInv, Data, TypeOK
<1>4. Typed(j)
  BY <1>1, <1>3, Working DEF Triggers
<1>5. Placed(j, "due")
  BY <1>1 DEF Placed
<1> QED BY <1>2, <1>4, <1>5, RestStep, SchedulerThread DEF Resting

LEMMA TickListedKeeps == ASSUME IInv, TickListed PROVE IInv'
<1>1. PICK passed : Tick({i \in Enabled : ScheduleDue(i, passed)})
  BY DEF TickListed
<1>2. {i \in Enabled : ScheduleDue(i, passed)} \in SUBSET Instances
  BY DEF Enabled
<1> QED BY <1>1, <1>2, TickKeeps

LEMMA RunDueKeeps == ASSUME IInv, RunDue PROVE IInv'
<1>1. /\ Quiet /\ quiet' \in BOOLEAN /\ pc[Scheduler] = "due" /\ Scheduler \in Threads
      /\ DOMAIN job = Threads /\ ThreadOK(job[Scheduler], "due")
  BY SchedulerThread DEF RunDue, At, Quiet, ghosts, IInv, Data, TypeOK
<1>2. Typed(job[Scheduler]) /\ job[Scheduler].op \notin {"upload", "restore"}
  BY <1>1 DEF ThreadOK, Placed
<1>3. CASE Go(Scheduler, "retains") /\ UNCHANGED job
  <2>1. ThreadOK(job[Scheduler], "retains")
    BY <1>2, RestingOK DEF Resting, Placed
  <2> QED BY <1>1, <1>3, <2>1, MoveStep DEF Go, PCs, Quiet
<1>4. CASE job[Scheduler].todo # {}
  <2>1. PICK i \in job[Scheduler].todo :
            /\ job' = [job EXCEPT ![Scheduler].todo = @ \ {i}, ![Scheduler].inst = i,
                                  ![Scheduler].trigger = "scheduled"]
            /\ Go(Scheduler, "instance")
    BY <1>4 DEF RunDue
  <2>2. PICK todo \in SUBSET Instances : todo = job[Scheduler].todo \ {i}
    BY <1>2 DEF Typed
  <2> DEFINE j == [job[Scheduler] EXCEPT !.todo = todo, !.inst = i, !.trigger = "scheduled"]
  <2>3. job' = [job EXCEPT ![Scheduler] = j]
    BY <1>1, <2>1, <2>2
  <2>4. /\ DOMAIN j = JobFields /\ j.op = job[Scheduler].op /\ j.todo = todo /\ j.id = job[Scheduler].id
        /\ j.inst = i /\ j.trigger = "scheduled" /\ j.ids = job[Scheduler].ids
        /\ j.pre = job[Scheduler].pre /\ j.retain = job[Scheduler].retain
        /\ j.flag = job[Scheduler].flag /\ j.pinned = job[Scheduler].pinned
    BY <1>2 DEF Typed, JobFields
  <2> HIDE DEF j
  <2>5. /\ i \in Instances /\ job[Scheduler].ids \in SUBSET (1..taken)
        /\ job[Scheduler].id \in 0..taken /\ "scheduled" \in Triggers
    BY <1>2, <2>1 DEF Typed, Triggers
  <2>6. Typed(j)
    BY <1>2, <2>4, <2>5, Working
  <2>7. ThreadOK(j, "instance")
    BY <1>2, <2>4, <2>5, <2>6 DEF ThreadOK, Placed, Carries, Remembers, Respects
  <2> QED BY <1>1, <2>1, <2>3, <2>7, LocalStep DEF Go, PCs, Quiet
<1> QED BY <1>3, <1>4 DEF RunDue

\* The record of a run, whether or not it is written.
LEMMA RunOver ==
    ASSUME IInv, NEW t \in Threads, pc[t] = "recordRun", Data',
           job' = [job EXCEPT ![t].inst = None], Go(t, "due"), UNCHANGED <<config, taken, origin, safe>>
    PROVE  IInv'
<1>1. DOMAIN job = Threads /\ Typed(job[t]) /\ Placed(job[t], "recordRun")
  BY DEF IInv, ThreadOK
<1> DEFINE j == [job[t] EXCEPT !.inst = None]
<1>2. job' = [job EXCEPT ![t] = j]
  BY <1>1
<1>3. /\ DOMAIN j = JobFields /\ j.op = job[t].op /\ j.todo = job[t].todo /\ j.id = job[t].id
      /\ j.inst = None /\ j.trigger = job[t].trigger /\ j.ids = job[t].ids
      /\ j.pre = job[t].pre /\ j.retain = job[t].retain
      /\ j.flag = job[t].flag /\ j.pinned = job[t].pinned
  BY <1>1 DEF Typed, JobFields
<1> HIDE DEF j
<1>4. /\ job[t].ids \in SUBSET (1..taken) /\ job[t].todo \in SUBSET Instances
      /\ job[t].id \in 0..taken /\ job[t].trigger \in Triggers
  BY <1>1 DEF Typed
<1>5. Typed(j)
  BY <1>1, <1>3, <1>4, Working
<1>6. Placed(j, "due")
  BY <1>1, <1>3 DEF Placed
<1>7. ThreadOK(j, "due")
  BY <1>5, <1>6, RestingOK DEF Resting
<1> QED BY <1>2, <1>7, WriteStep DEF Go, PCs

LEMMA RecordRunKeeps == ASSUME IInv, RecordRun PROVE IInv'
<1>1. /\ UNCHANGED <<registered, config, snaps, taken, key, origin, quiet, safe>>
      /\ pc[Scheduler] = "recordRun" /\ Scheduler \in Threads /\ Data /\ TypeOK
      /\ job' = [job EXCEPT ![Scheduler].inst = None] /\ Go(Scheduler, "due")
  BY SchedulerThread DEF RecordRun, At, ghosts, IInv, Data
<1>2. PICK i : i = job[Scheduler].inst
  OBVIOUS
<1>3. schedules' = [schedules EXCEPT ![i] = IF @ = None THEN None ELSE [@ EXCEPT !.ran = TRUE]]
  BY <1>2 DEF RecordRun
<1>4. schedules' \in [Instances -> Schedules \cup {None}]
  <2>1. \A s \in Schedules : [s EXCEPT !.ran = TRUE] \in Schedules
    BY DEF Schedules
  <2>2. schedules \in [Instances -> Schedules \cup {None}]
    BY <1>1 DEF TypeOK
  <2> QED BY <1>3, <2>1, <2>2
<1>5. pc' \in [Threads -> PCs]
  BY <1>1, GoMoves DEF PCs
<1>6. Data'
  <2>1. TypeOK'
    BY <1>1, <1>4, <1>5 DEF TypeOK
  <2> QED BY <1>1, <2>1 DEF Data, Origins, PinHonoured
<1> QED BY <1>1, <1>6, RunOver

LEMMA RetainKeeps ==
    ASSUME IInv, NEW retains, NEW found \in BOOLEAN, Retain(retains, found) PROVE IInv'
<1>1. /\ Quiet /\ quiet' \in BOOLEAN /\ Scheduler \in Threads
      /\ DOMAIN job = Threads /\ Typed(job[Scheduler])
      /\ job' = [job EXCEPT ![Scheduler].op = "retention", ![Scheduler].retains = retains]
      /\ Go(Scheduler, "listInstances")
  BY SchedulerThread DEF Retain, Quiet, IInv, ThreadOK
<1> DEFINE j == [job[Scheduler] EXCEPT !.op = "retention", !.retains = retains]
<1>2. job' = [job EXCEPT ![Scheduler] = j]
  BY <1>1
<1>3. /\ DOMAIN j = JobFields /\ j.todo = job[Scheduler].todo /\ j.id = job[Scheduler].id
      /\ j.inst = job[Scheduler].inst /\ j.trigger = job[Scheduler].trigger
      /\ j.ids = job[Scheduler].ids
      /\ j.pre = job[Scheduler].pre /\ j.retain = job[Scheduler].retain
      /\ j.flag = job[Scheduler].flag /\ j.pinned = job[Scheduler].pinned
  BY <1>1 DEF Typed, JobFields
<1> HIDE DEF j
<1>4. Typed(j)
  BY <1>1, <1>3, Zenon DEF Typed
<1>5. Placed(j, "listInstances")
  BY DEF Placed
<1> QED BY <1>1, <1>2, <1>4, <1>5, RestStep DEF Resting

\* The scheduler notes which instances are left.
LEMMA TodoStep ==
    ASSUME IInv, NEW t \in Threads, NEW todo \in SUBSET Instances,
           job' = [job EXCEPT ![t].todo = todo], Go(t, "candidates"), Quiet, quiet' \in BOOLEAN
    PROVE  IInv'
<1>1. DOMAIN job = Threads /\ Typed(job[t])
  BY DEF IInv, ThreadOK
<1> DEFINE j == [job[t] EXCEPT !.todo = todo]
<1>2. job' = [job EXCEPT ![t] = j]
  BY <1>1
<1>3. /\ DOMAIN j = JobFields /\ j.todo = todo /\ j.id = job[t].id
      /\ j.inst = job[t].inst /\ j.trigger = job[t].trigger /\ j.ids = job[t].ids
      /\ j.pre = job[t].pre /\ j.retain = job[t].retain
      /\ j.flag = job[t].flag /\ j.pinned = job[t].pinned
  BY <1>1 DEF Typed, JobFields
<1> HIDE DEF j
<1>4. Typed(j)
  BY <1>1, <1>3, Zenon DEF Typed
<1>5. Placed(j, "candidates")
  BY DEF Placed
<1> QED BY <1>2, <1>4, <1>5, RestStep DEF Resting

\* The scheduler notes which rows are left.
LEMMA IdsStep ==
    ASSUME IInv, NEW t \in Threads, NEW ids \in SUBSET (1..taken), NEW l \in {"prune", "verify"},
           l = "prune" => ids \cap safe = {},
           job' = [job EXCEPT ![t].ids = ids], Go(t, l),
           Data', UNCHANGED <<config, taken, origin, safe>>
    PROVE  IInv'
<1>1. DOMAIN job = Threads /\ Typed(job[t])
  BY DEF IInv, ThreadOK
<1> DEFINE j == [job[t] EXCEPT !.ids = ids]
<1>2. job' = [job EXCEPT ![t] = j]
  BY <1>1
<1>3. /\ DOMAIN j = JobFields /\ j.todo = job[t].todo /\ j.id = job[t].id
      /\ j.inst = job[t].inst /\ j.trigger = job[t].trigger /\ j.ids = ids
      /\ j.pre = job[t].pre /\ j.retain = job[t].retain
      /\ j.flag = job[t].flag /\ j.pinned = job[t].pinned
  BY <1>1 DEF Typed, JobFields
<1> HIDE DEF j
<1>4. Typed(j)
  BY <1>1, <1>3, Zenon DEF Typed
<1>5. ThreadOK(j, l)
  BY <1>3, <1>4 DEF ThreadOK, Placed, Carries, Remembers, Respects
<1>6. l \in PCs /\ pc' = [pc EXCEPT ![t] = l]
  BY DEF PCs, Go
<1> QED BY <1>2, <1>5, <1>6, WriteStep

LEMMA QuietData == ASSUME IInv, Quiet, quiet' \in BOOLEAN, pc' \in [Threads -> PCs] PROVE Data'
BY DEF Quiet, IInv, Data, TypeOK, Origins, PinHonoured

LEMMA ListInstancesKeeps == ASSUME IInv, ListInstances PROVE IInv'
<1>1. /\ Quiet /\ quiet' \in BOOLEAN /\ Scheduler \in Threads /\ Go(Scheduler, "candidates")
  BY SchedulerThread DEF ListInstances, Quiet, ghosts, IInv, Data, TypeOK
<1>2. PICK todo \in SUBSET Instances : todo = {i \in Instances : Of(i) # {}}
  OBVIOUS
<1>3. job' = [job EXCEPT ![Scheduler].todo = todo]
  BY <1>2 DEF ListInstances
<1> QED BY <1>1, <1>3, TodoStep

\* What is to be deleted is counted and does not count as safely pinned.
LEMMA VictimsFree ==
    ASSUME Data, NEW i, NEW retain
    PROVE  /\ RetentionVictims(Candidates(i), retain) \subseteq 1..taken
           /\ RetentionVictims(Candidates(i), retain) \cap safe = {}
<1>1. RetentionVictims(Candidates(i), retain) \subseteq Candidates(i)
  BY DEF RetentionVictims
<1>2. ASSUME NEW id \in Candidates(i) PROVE id \in 1..taken /\ id \notin safe
  <2>1. id \in Ids /\ snaps[id] # None /\ ~ snaps[id].pinned
    BY DEF Candidates, Of
  <2>2. id \in 1..taken
    BY <2>1, StoredCounted DEF Data
  <2>3. id \notin safe
    BY <2>1 DEF Data, PinHonoured
  <2> QED BY <2>2, <2>3
<1> QED BY <1>1, <1>2

LEMMA ListCandidatesKeeps == ASSUME IInv, ListCandidates PROVE IInv'
<1>1. /\ Quiet /\ quiet' \in BOOLEAN /\ Scheduler \in Threads /\ Go(Scheduler, "prune")
      /\ DOMAIN job = Threads /\ Typed(job[Scheduler]) /\ Data /\ TypeOK
  BY SchedulerThread DEF ListCandidates, Quiet, ghosts, IInv, Data, TypeOK, ThreadOK
<1>2. PICK i \in job[Scheduler].todo :
           job' = [job EXCEPT ![Scheduler].todo = @ \ {i},
                      ![Scheduler].ids = RetentionVictims(Candidates(i), job[Scheduler].retains[i])]
  BY DEF ListCandidates
<1>3. PICK ids : ids = RetentionVictims(Candidates(i), job[Scheduler].retains[i])
  OBVIOUS
<1>4. ids \subseteq 1..taken /\ ids \cap safe = {}
  BY <1>1, <1>3, VictimsFree
<1>5. PICK todo \in SUBSET Instances : todo = job[Scheduler].todo \ {i}
  BY <1>1 DEF Typed
<1> DEFINE j == [job[Scheduler] EXCEPT !.todo = todo, !.ids = ids]
<1>6. job' = [job EXCEPT ![Scheduler] = j]
  BY <1>1, <1>2, <1>3, <1>5
<1>7. /\ DOMAIN j = JobFields /\ j.todo = todo /\ j.id = job[Scheduler].id
      /\ j.inst = job[Scheduler].inst /\ j.trigger = job[Scheduler].trigger /\ j.ids = ids
      /\ j.pre = job[Scheduler].pre /\ j.retain = job[Scheduler].retain
      /\ j.flag = job[Scheduler].flag /\ j.pinned = job[Scheduler].pinned
  BY <1>1 DEF Typed, JobFields
<1> HIDE DEF j
<1>8. Typed(j)
  BY <1>1, <1>4, <1>7, Zenon DEF Typed
<1>9. ThreadOK(j, "prune")
  BY <1>4, <1>7, <1>8 DEF ThreadOK, Placed, Carries, Remembers, Respects
<1> QED BY <1>1, <1>6, <1>9, LocalStep DEF Go, PCs, Quiet

LEMMA RetainedKeeps == ASSUME IInv, NEW sweep \in BOOLEAN, Retained(sweep) PROVE IInv'
<1>1. /\ Quiet /\ quiet' \in BOOLEAN /\ Scheduler \in Threads /\ TypeOK
  BY SchedulerThread DEF Retained, Quiet, IInv, Data
<1>2. CASE sweep
  <2> DEFINE j == [NoJob EXCEPT !.op = "sweep"]
  <2>1. job' = [job EXCEPT ![Scheduler] = j] /\ Go(Scheduler, "sweep")
    BY <1>2 DEF Retained
  <2>2. /\ DOMAIN j = JobFields /\ j.todo = NoJob.todo /\ j.id = NoJob.id
        /\ j.inst = NoJob.inst /\ j.trigger = NoJob.trigger /\ j.ids = NoJob.ids
        /\ j.pre = NoJob.pre /\ j.retain = NoJob.retain
        /\ j.flag = NoJob.flag /\ j.pinned = NoJob.pinned
    BY DEF NoJob, JobFields
  <2> HIDE DEF j
  <2>3. Typed(j)
    BY <1>1, <2>2, NoJobOK, Zenon DEF Typed
  <2>4. Placed(j, "sweep")
    BY DEF Placed
  <2> QED BY <1>1, <2>1, <2>3, <2>4, RestStep DEF Resting
<1>3. CASE ~ sweep
  <2>1. job' = [job EXCEPT ![Scheduler] = NoJob] /\ Go(Scheduler, "idle")
    BY <1>3 DEF Retained
  <2>2. Typed(NoJob) /\ Placed(NoJob, "idle")
    BY <1>1, NoJobOK DEF Placed
  <2> QED BY <1>1, <2>1, <2>2, RestStep DEF Resting
<1> QED BY <1>2, <1>3

\* The newest of the ids of a job.
LEMMA NewestOf ==
    ASSUME IInv, NEW t \in Threads, job[t].ids # {}
    PROVE  Newest(job[t].ids) \in job[t].ids /\ job[t].ids \subseteq 1..taken
<1>1. job[t].ids \subseteq 1..taken /\ 1..taken \subseteq Ids
  BY BoundAssumption DEF IInv, ThreadOK, Typed, Data, TypeOK, Ids
<1> QED BY <1>1, NewestIn

LEMMA PruneKeeps == ASSUME IInv, Prune PROVE IInv'
<1>1. /\ UNCHANGED <<registered, config, taken, schedules, key, origin, quiet, safe>>
      /\ pc[Scheduler] = "prune" /\ Scheduler \in Threads /\ Data /\ TypeOK
      /\ ThreadOK(job[Scheduler], "prune")
  BY SchedulerThread DEF Prune, At, ghosts, IInv, Data
<1>2. CASE Go(Scheduler, "candidates") /\ UNCHANGED <<job, snaps>>
  <2>1. ThreadOK(job[Scheduler], "candidates")
    BY <1>1, RestingOK DEF ThreadOK, Resting, Placed
  <2> QED BY <1>1, <1>2, <2>1, MoveStep DEF Go, PCs, TypeOK
<1>3. CASE job[Scheduler].ids # {}
  <2>1. PICK id : id = Newest(job[Scheduler].ids)
    OBVIOUS
  <2>2. id \in job[Scheduler].ids /\ job[Scheduler].ids \subseteq 1..taken
    BY <1>1, <1>3, <2>1, NewestOf
  <2>3. PICK ids \in SUBSET (1..taken) : ids = job[Scheduler].ids \ {id}
    BY <2>2
  <2>4. snaps' = [snaps EXCEPT ![id] = None] /\ job' = [job EXCEPT ![Scheduler].ids = ids] /\ pc' = pc
    BY <1>3, <2>1, <2>3 DEF Prune
  <2>5. id \notin safe /\ ids \cap safe = {}
    BY <1>1, <2>2, <2>3 DEF ThreadOK, Respects
  <2>6. pc' \in [Threads -> PCs] /\ Go(Scheduler, "prune")
    BY <1>1, <2>4 DEF TypeOK, Go
  <2>7. Data'
    BY <1>1, <2>4, <2>5, <2>6, RemoveData DEF TypeOK
  <2> QED BY <1>1, <2>4, <2>5, <2>6, <2>7, IdsStep
<1> QED BY <1>2, <1>3 DEF Prune

LEMMA SweepKeeps == ASSUME IInv, Sweep PROVE IInv'
<1>1. /\ Quiet /\ quiet' \in BOOLEAN /\ Scheduler \in Threads /\ Go(Scheduler, "verify") /\ TypeOK
  BY SchedulerThread DEF Sweep, Quiet, ghosts, IInv, Data, TypeOK
<1>2. PICK ids : ids = {id \in Ids : snaps[id] # None}
  OBVIOUS
<1>3. ids \in SUBSET (1..taken)
  BY <1>1, <1>2, StoredCounted
<1>4. job' = [job EXCEPT ![Scheduler].ids = ids]
  BY <1>2 DEF Sweep
<1>5. Data'
  BY <1>1, GoMoves, QuietData DEF PCs
<1> QED BY <1>1, <1>3, <1>4, <1>5, IdsStep DEF Quiet

LEMMA VerifyKeeps == ASSUME IInv, Verify PROVE IInv'
<1>1. /\ Quiet /\ quiet' \in BOOLEAN /\ Scheduler \in Threads /\ TypeOK
      /\ DOMAIN job = Threads /\ Typed(job[Scheduler])
  BY SchedulerThread DEF Verify, Quiet, ghosts, IInv, Data, TypeOK, ThreadOK
<1>2. CASE Go(Scheduler, "idle") /\ job' = [job EXCEPT ![Scheduler] = NoJob]
  <2>1. Typed(NoJob) /\ Placed(NoJob, "idle")
    BY <1>1, NoJobOK DEF Placed
  <2> QED BY <1>1, <1>2, <2>1, RestStep DEF Resting
<1>3. CASE job[Scheduler].ids # {}
  <2>1. PICK id : id = Newest(job[Scheduler].ids)
    OBVIOUS
  <2>2. id \in job[Scheduler].ids /\ job[Scheduler].ids \subseteq 1..taken
    BY <1>1, <1>3, <2>1, NewestOf
  <2>3. PICK ids \in SUBSET (1..taken) : ids = job[Scheduler].ids \ {id}
    BY <2>2
  <2>4. id \in 0..taken /\ id # 0
    BY <1>1, <2>2, BoundAssumption DEF TypeOK
  <2> DEFINE j == [job[Scheduler] EXCEPT !.ids = ids, !.id = id]
  <2>5. job' = [job EXCEPT ![Scheduler] = j] /\ Go(Scheduler, "open")
    BY <1>1, <1>3, <2>1, <2>3 DEF Verify
  <2>6. /\ DOMAIN j = JobFields /\ j.todo = job[Scheduler].todo /\ j.id = id
        /\ j.inst = job[Scheduler].inst /\ j.trigger = job[Scheduler].trigger /\ j.ids = ids
        /\ j.pre = job[Scheduler].pre /\ j.retain = job[Scheduler].retain
        /\ j.flag = job[Scheduler].flag /\ j.pinned = job[Scheduler].pinned
    BY <1>1 DEF Typed, JobFields
  <2> HIDE DEF j
  <2>7. Typed(j)
    BY <1>1, <2>4, <2>6, Zenon DEF Typed
  <2>8. ThreadOK(j, "open")
    BY <2>4, <2>6, <2>7 DEF ThreadOK, Placed, Carries, Remembers, Respects
  <2> QED BY <1>1, <2>5, <2>8, LocalStep DEF Go, PCs, Quiet
<1> QED BY <1>2, <1>3 DEF Verify

LEMMA LoggedKeeps == ASSUME IInv, NEW t \in Threads, Logged(t) PROVE IInv'
<1>1. /\ Quiet /\ quiet' \in BOOLEAN /\ TypeOK
      /\ DOMAIN job = Threads /\ Typed(job[t]) /\ ThreadOK(job[t], pc[t])
  BY DEF Logged, Quiet, ghosts, IInv, Data, TypeOK, ThreadOK
<1>2. CASE At(t, "mark") /\ Opened(t, job[t])
  <2>1. Data'
    BY <1>1, <1>2, OpenedMoves, QuietData
  <2> QED BY <1>1, <1>2, <2>1, OpenedKeeps DEF At, Quiet
<1>3. CASE At(t, "recordRun") /\ Go(t, "due") /\ job' = [job EXCEPT ![t].inst = None]
  <2>1. Data'
    BY <1>1, <1>3, GoMoves, QuietData DEF PCs
  <2> QED BY <1>1, <1>3, <2>1, RunOver DEF At, Quiet
<1>4. CASE At(t, "listInstances") /\ Go(t, "candidates") /\ UNCHANGED job
  <2>1. ThreadOK(job[t], "candidates")
    BY <1>1, RestingOK DEF Resting, Placed
  <2> QED BY <1>1, <1>4, <2>1, MoveStep DEF Go, PCs, Quiet
<1>5. CASE At(t, "candidates") /\ UNCHANGED pc
           /\ \E i \in job[t].todo : job' = [job EXCEPT ![t].todo = @ \ {i}]
  <2>1. PICK i \in job[t].todo : job' = [job EXCEPT ![t].todo = @ \ {i}]
    BY <1>5
  <2>2. PICK todo \in SUBSET Instances : todo = job[t].todo \ {i}
    BY <1>1 DEF Typed
  <2>3. job' = [job EXCEPT ![t].todo = todo]
    BY <2>1, <2>2
  <2>4. Go(t, "candidates")
    BY <1>1, <1>5 DEF Go, At, TypeOK
  <2> QED BY <1>1, <2>3, <2>4, TodoStep
<1>6. CASE At(t, "prune") /\ job[t].ids # {} /\ UNCHANGED pc
           /\ job' = [job EXCEPT ![t].ids = @ \ {Newest(@)}]
  <2>1. PICK ids \in SUBSET (1..taken) : ids = job[t].ids \ {Newest(job[t].ids)}
    BY <1>1 DEF Typed
  <2>2. job' = [job EXCEPT ![t].ids = ids]
    BY <1>6, <2>1
  <2>3. ids \cap safe = {}
    BY <1>1, <1>6, <2>1 DEF ThreadOK, Respects, At
  <2>4. Go(t, "prune") /\ pc' \in [Threads -> PCs]
    BY <1>1, <1>6 DEF Go, At, TypeOK
  <2>5. Data'
    BY <1>1, <2>4, QuietData
  <2> QED BY <1>1, <2>2, <2>3, <2>4, <2>5, IdsStep DEF Quiet
<1>7. CASE At(t, "sweep") /\ Go(t, "idle") /\ job' = [job EXCEPT ![t] = NoJob]
  <2>1. Typed(NoJob) /\ Placed(NoJob, "idle")
    BY <1>1, NoJobOK DEF Placed
  <2> QED BY <1>1, <1>7, <2>1, RestStep DEF Resting
<1> QED BY <1>2, <1>3, <1>4, <1>5, <1>6, <1>7 DEF Logged

-----------------------------------------------------------------------------
(* The theorems *)

LEMMA InitIInv == Init => IInv
<1> SUFFICES ASSUME Init PROVE IInv
  OBVIOUS
<1>1. PICK n \in 0..MaxIds :
        Stored \in [1..n -> [inst : Instances, doc : Docs, trigger : Triggers,
                             pinned : BOOLEAN, ok : BOOLEAN]]
  BY StoredAssumption
<1>2. n \in Nat /\ n <= MaxIds /\ MaxIds \in Nat /\ DOMAIN Stored = 1..n
  BY <1>1, BoundAssumption
<1>3. taken = n
  <2>1. Cardinality(1..n) = n
    BY <1>2, FS_Interval
  <2> QED BY <1>2, <2>1 DEF Init
<1>4. 1..n \subseteq Ids
  BY <1>2 DEF Ids
<1>5. \A i \in 1..n : /\ Stored[i].inst \in Instances /\ Stored[i].doc \in Docs
                      /\ Stored[i].trigger \in Triggers /\ Stored[i].ok \in BOOLEAN
                      /\ Stored[i].pinned \in BOOLEAN
  BY <1>1
<1>6. key \in Keys
  BY DEF Init
<1>7. ASSUME NEW i \in 1..n
      PROVE  /\ snaps[i] \in Rows /\ snaps[i] # None
             /\ snaps[i].sum = Stored[i].doc /\ snaps[i].inst = Stored[i].inst
             /\ snaps[i].pinned = Stored[i].pinned
  <2>1. PICK row : row = Row(Stored[i].inst, Stored[i].doc, Stored[i].trigger)
    OBVIOUS
  <2>2. row \in Rows /\ row.sum = Stored[i].doc /\ row.inst = Stored[i].inst
    BY <1>5, <1>6, <2>1 DEF Row, Rows
  <2>3. snaps[i] = [row EXCEPT !.ok = Stored[i].ok, !.pinned = Stored[i].pinned]
    BY <1>2, <1>4, <2>1 DEF Init
  <2>4. /\ snaps[i] \in Rows /\ snaps[i].sum = Stored[i].doc /\ snaps[i].inst = Stored[i].inst
        /\ snaps[i].pinned = Stored[i].pinned
    BY <1>5, <2>2, <2>3 DEF Rows
  <2> QED BY <2>4, NoneAssumption
<1>8. \A i \in Ids \ (1..n) : snaps[i] = None /\ origin[i] = None
  BY <1>2 DEF Init
<1>9. \A i \in 1..n : origin[i].inst = Stored[i].inst /\ origin[i].doc = Stored[i].doc
  <2> TAKE i \in 1..n
  <2>1. origin[i] = [inst |-> Stored[i].inst, doc |-> Stored[i].doc]
    BY <1>2, <1>4 DEF Init
  <2> QED BY <2>1
<1>10. TypeOK
  <2>1. registered \subseteq Instances /\ quiet \in BOOLEAN
    BY DEF Init
  <2>2. config \in [Instances -> Configs]
    BY FirstAssumption DEF Init
  <2>3. snaps \in [Ids -> Rows \cup {None}]
    <3>1. DOMAIN snaps = Ids /\ snaps = [i \in Ids |-> snaps[i]]
      BY DEF Init
    <3>2. \A i \in Ids : snaps[i] \in Rows \cup {None}
      BY <1>7, <1>8
    <3> QED BY <3>1, <3>2
  <2>4. schedules \in [Instances -> Schedules \cup {None}]
    <3>1. PICK first : first = [enabled |-> TRUE, retain |-> 1, ran |-> FALSE]
      OBVIOUS
    <3>2. first \in Schedules
      BY <3>1 DEF Schedules
    <3>3. schedules = [i \in Instances |-> IF i \in Scheduled THEN first ELSE None]
      BY <3>1 DEF Init
    <3> QED BY <3>2, <3>3
  <2>5. pc \in [Threads -> PCs]
    BY DEF Init, PCs
  <2>6. \A i \in Ids : (i > taken) => (snaps[i] = None /\ origin[i] = None)
    BY <1>2, <1>3, <1>8 DEF Ids
  <2>7. safe \subseteq {i \in Ids : i <= taken}
    <3>1. safe \subseteq 1..n
      BY <1>2 DEF Init
    <3> QED BY <1>2, <1>3, <1>4, <3>1
  <2> QED BY <1>2, <1>3, <1>6, <2>1, <2>2, <2>3, <2>4, <2>5, <2>6, <2>7 DEF TypeOK
<1>11. Origins
  <2>1. DOMAIN origin = Ids
    BY DEF Init
  <2>2. \A i \in Ids : snaps[i] # None => i \in 1..n
    BY <1>8
  <2> QED BY <1>3, <1>5, <1>7, <1>9, <2>1, <2>2 DEF Origins
<1>12. PinHonoured
  <2>1. \A i \in safe : i \in 1..n /\ Stored[i].pinned
    BY <1>2 DEF Init
  <2> QED BY <1>7, <2>1 DEF PinHonoured
<1>13. ASSUME NEW t \in Threads PROVE ThreadOK(job[t], pc[t])
  <2>1. job[t] = NoJob /\ pc[t] = "idle"
    BY DEF Init
  <2>2. Typed(NoJob) /\ Placed(NoJob, "idle")
    BY <1>10, NoJobOK DEF Placed
  <2> QED BY <2>1, <2>2, RestingOK DEF Resting
<1>14. DOMAIN job = Threads
  BY DEF Init
<1> QED BY <1>10, <1>11, <1>12, <1>13, <1>14 DEF IInv, Data

LEMMA NextIInv == IInv /\ [Next]_vars => IInv'
<1> SUFFICES ASSUME IInv, [Next]_vars PROVE IInv'
  OBVIOUS
<1>1. CASE UNCHANGED vars
  <2>1. UNCHANGED <<registered, config, snaps, taken, schedules, key, pc, job, origin, quiet, safe>>
    BY <1>1 DEF vars
  <2>2. Data'
    BY <2>1 DEF IInv, Data, TypeOK, Origins, PinHonoured
  <2>3. DOMAIN job' = Threads /\ \A u \in Threads : Same(u)
    BY <2>1 DEF IInv, Same
  <2> QED BY <2>1, <2>2, <2>3, WorldStep
<1>2. ASSUME NEW u \in Users, Begin(u) PROVE IInv'
  BY <1>2, BeginTakeKeeps, BeginUploadKeeps, BeginRestoreKeeps, BeginDownloadKeeps,
     BeginUpdateKeeps, BeginDeleteKeeps, BeginPutScheduleKeeps DEF Begin
<1>3. ASSUME NEW t \in Threads, Step(t) PROVE IInv'
  BY <1>3, FetchKeeps, ReadKeeps, StoreKeeps, ReadBackKeeps, OpenKeeps, MarkKeeps, TargetKeeps,
     SendKeeps, UpdateKeeps, DeleteKeeps, PutScheduleKeeps DEF Step
<1>4. ASSUME NEW t \in Threads, Fail(t) \/ Logged(t) PROVE IInv'
  BY <1>4, FailKeeps, LoggedKeeps
<1>5. CASE ListRetains
  <2>1. Retain(EnabledRetains, TRUE) /\ TRUE \in BOOLEAN
    BY <1>5 DEF ListRetains
  <2> QED BY <2>1, RetainKeeps
<1>6. CASE Pass
  BY <1>5, <1>6, TickListedKeeps, RunDueKeeps, RecordRunKeeps, ListInstancesKeeps,
     ListCandidatesKeeps, RetainedKeeps, PruneKeeps, SweepKeeps, VerifyKeeps DEF Pass
<1>7. CASE Unlisted
  <2>1. CASE Tick({})
    BY <2>1, TickKeeps
  <2>2. CASE Retain([i \in Instances |-> DefaultRetain], FALSE)
    <3>1. FALSE \in BOOLEAN
      OBVIOUS
    <3> QED BY <2>2, <3>1, RetainKeeps
  <2> QED BY <1>7, <2>1, <2>2 DEF Unlisted
<1>8. CASE Environment
  BY <1>8, TamperKeeps, ChangeConfigKeeps, DeleteInstanceKeeps, RestartKeeps DEF Environment
<1> QED BY <1>1, <1>2, <1>3, <1>4, <1>6, <1>7, <1>8 DEF Next

\* The inductive invariant of the snapshots: Spec never leaves it.
THEOREM SnapshotsInvariant == Spec => []IInv
BY InitIInv, NextIInv, PTL DEF Spec

\* The rows, the schedules and the configurations keep their shape in
\* snapshot_service.go and snapshot_scheduler.go, and no id is used before it
\* is given out.
THEOREM SnapshotsTyped == Spec => []TypeOK
<1>1. IInv => TypeOK
  BY DEF IInv, Data
<1> QED BY <1>1, SnapshotsInvariant, PTL

\* RestoreSnapshot sends a gateway the document that was stored, whatever was
\* done to the row or to the key in between.
THEOREM RestoresIntact == Spec => []IntactOnly
<1>1. IInv => IntactOnly
  BY DEF IInv, ThreadOK, Placed, Carries, IntactOnly, At, Threads
<1> QED BY <1>1, SnapshotsInvariant, PTL

\* A commit restore is sent only after the target's configuration was stored
\* by the pre_restore snapshot.
THEOREM RestoresHaveSafetyNet == Spec => []SafetyNet
<1>1. IInv => SafetyNet
  BY DEF IInv, ThreadOK, Placed, Remembers, SafetyNet, At, Threads
<1> QED BY <1>1, SnapshotsInvariant, PTL

\* No patch, deletion or retention pass takes a snapshot that was pinned while
\* nobody was about to act on an earlier state of its row.
THEOREM PinsHonoured == Spec => []PinHonoured
<1>1. IInv => PinHonoured
  BY DEF IInv, Data
<1> QED BY <1>1, SnapshotsInvariant, PTL

-----------------------------------------------------------------------------
(***************************************************************************)
(* The action properties.  Three more invariants: a selection that names   *)
(* nothing is never restored (Chosen); what a reader is about to write to  *)
(* a row's flag is true of the row, unless it was told that the row has    *)
(* changed (Concluded); and a retention pass nobody interferes with knows  *)
(* the retain counts (Knows) and spares as many candidates (Spares).       *)
(***************************************************************************)

Chosen == \A t \in Threads : job[t].comps = {} => Omitted = {}

Concluded == \A t \in Threads :
    pc[t] = "mark" /\ job[t].calm /\ snaps[job[t].id] # None =>
        (job[t].flag <=> Verdict(snaps[job[t].id]) = "ok")

Retaining == {"listInstances", "candidates", "prune"}

Knows == pc[Scheduler] \in Retaining /\ quiet => job[Scheduler].retains = EnabledRetains

Spares == pc[Scheduler] = "prune" /\ quiet /\ job[Scheduler].ids # {} =>
    \E i \in Instances :
        /\ job[Scheduler].ids \subseteq Candidates(i)
        /\ Cardinality(Candidates(i) \ job[Scheduler].ids) >= EnabledRetains[i]

ActInv == events \in Nat /\ Chosen /\ Concluded /\ Knows /\ Spares

\* What is read of a row does not change.
Kept(id) == snaps'[id] # None =>
    snaps[id] # None /\ snaps'[id].blob = snaps[id].blob /\ snaps'[id].sum = snaps[id].sum

\* A thread that does nothing; what it has concluded from a row still holds,
\* or it is told.
Waits(u) == Same(u) /\ (pc[u] = "mark" /\ job'[u].calm => Kept(job[u].id))

\* The selection stays, is dropped, or was found to be valid.
Chooses(t) == job'[t].comps \in {job[t].comps, Omitted} \/ ValidComponents(job'[t].comps)

\* A step of the thread t.
Turn(t) ==
    /\ key' = key
    /\ \A u \in Threads \ {t} : Waits(u)
    /\ Chooses(t)
    /\ pc'[t] = "mark" => Open(t)
    /\ pc[t] \in {"open", "mark"} => Open(t) \/ Mark(t) \/ Event

\* Nothing that a retention pass counts on is taken away.
Undisturbed == quiet' =>
    /\ quiet /\ EnabledRetains' = EnabledRetains
    /\ \A i \in Instances : Candidates(i) \subseteq Candidates(i)'

\* The step has nothing to do with a retention pass.
Elsewhere(t) == t = Scheduler => pc[t] # "prune" /\ pc'[t] \notin Retaining

\* A step of the retention pass.
RetentionStep ==
    \/ ListRetains \/ ListInstances \/ ListCandidates \/ Prune
    \/ Retain([i \in Instances |-> DefaultRetain], FALSE)
    \/ pc[Scheduler] \in Retaining /\ Logged(Scheduler)

\* A step of the world around OAM, but for a restart.
WorldTurn == key' = key /\ Undisturbed /\ \A u \in Threads : Waits(u)

\* t and only t takes a step.
Acts(t) == \A u \in Threads \ {t} : job'[u] = job[u] /\ pc'[u] = pc[u]

\* No row and no schedule changes.
LEMMA RowsSame ==
    ASSUME TypeOK, UNCHANGED <<snaps, schedules>>, quiet' => quiet
    PROVE  Undisturbed /\ \A id \in 1..taken : Kept(id)
<1>1. EnabledRetains' = EnabledRetains
  BY DEF EnabledRetains
<1>2. \A i \in Instances : Candidates(i)' = Candidates(i)
  BY DEF Candidates, Of
<1> QED BY <1>1, <1>2 DEF Undisturbed, Kept

\* A row that is about to be marked was stored.
LEMMA MarkedId ==
    ASSUME IInv, NEW u \in Threads, pc[u] = "mark"
    PROVE  job[u].id \in Ids /\ job[u].id \in 1..taken
<1>1. job[u].id \in 0..taken /\ job[u].id # 0
  BY DEF IInv, ThreadOK, Typed, Placed
<1>2. taken \in 0..MaxIds
  BY DEF IInv, Data, TypeOK
<1> QED BY <1>1, <1>2, BoundAssumption DEF Ids

\* What a step of one thread asks to be shown.
LEMMA TurnOf ==
    ASSUME IInv, NEW t \in Threads, Acts(t), key' = key, \A id \in 1..taken : Kept(id),
           Chooses(t), pc'[t] # "mark", pc[t] \in {"open", "mark"} => Open(t) \/ Mark(t) \/ Event
    PROVE  Turn(t)
<1>1. ASSUME NEW u \in Threads \ {t} PROVE Waits(u)
  <2>1. Same(u)
    BY DEF Acts, Same
  <2>2. pc[u] = "mark" => job[u].id \in 1..taken
    BY MarkedId
  <2> QED BY <2>1, <2>2 DEF Waits
<1> QED BY <1>1 DEF Turn

\* The operation of t returns.
LEMMA FinishActs ==
    ASSUME IInv, NEW t \in Threads, Finish(t)
    PROVE  /\ Acts(t) /\ Chooses(t)
           /\ pc'[t] \in {"recordRun", "verify", "idle"} /\ pc'[t] \notin Retaining
<1>1. DOMAIN job = Threads /\ pc \in [Threads -> PCs]
  BY DEF IInv, Data, TypeOK
<1>2. Acts(t) /\ pc'[t] \in {"recordRun", "verify", "idle"}
  BY <1>1 DEF Finish, Go, Acts
<1>3. job'[t].comps = Omitted
  BY <1>1 DEF Finish, NoJob
<1> QED BY <1>2, <1>3 DEF Chooses, Retaining

LEMMA FinishTurn ==
    ASSUME IInv, NEW t \in Threads, Finish(t), key' = key, \A id \in 1..taken : Kept(id),
           pc[t] # "prune", pc[t] \in {"open", "mark"} => Open(t) \/ Mark(t) \/ Event
    PROVE  Turn(t) /\ Elsewhere(t)
<1>1. /\ Acts(t) /\ Chooses(t)
      /\ pc'[t] # "mark" /\ pc'[t] \notin Retaining
  BY FinishActs
<1>2. Turn(t)
  BY <1>1, TurnOf
<1> QED BY <1>1, <1>2 DEF Elsewhere

\* A request comes in.
LEMMA RequestTurn ==
    ASSUME IInv, NEW u \in Users, NEW j, NEW where \in PCs, Request(u, j, where), where # "mark",
           j.comps = Omitted \/ ValidComponents(j.comps)
    PROVE  Turn(u) /\ Undisturbed /\ Elsewhere(u)
<1>1. /\ u \in Threads /\ u # Scheduler /\ DOMAIN job = Threads /\ TypeOK /\ pc[u] = "idle"
      /\ key' = key /\ UNCHANGED <<snaps, schedules, quiet>>
      /\ job' = [job EXCEPT ![u] = j] /\ pc' = [pc EXCEPT ![u] = where]
  BY ThreadsAssumption DEF Threads, IInv, Data, Request, At, Go, ghosts
<1>2. Acts(u) /\ job'[u] = j /\ pc'[u] = where
  BY <1>1 DEF Acts, TypeOK
<1>3. Chooses(u)
  BY <1>2 DEF Chooses
<1> QED BY <1>1, <1>2, <1>3, RowsSame, TurnOf DEF Elsewhere

LEMMA BeginTurn ==
    ASSUME IInv, NEW u \in Users, Begin(u)
    PROVE  Turn(u) /\ Undisturbed /\ Elsewhere(u)
<1>1. CASE BeginTake(u)
  <2>1. PICK i, trigger :
            Request(u, [NoJob EXCEPT !.op = "take", !.inst = i, !.trigger = trigger], "instance")
    BY <1>1 DEF BeginTake
  <2>2. [NoJob EXCEPT !.op = "take", !.inst = i, !.trigger = trigger].comps = Omitted
    BY DEF NoJob
  <2> QED BY <2>1, <2>2, RequestTurn DEF PCs
<1>2. CASE BeginUpload(u)
  <2>1. PICK i, doc :
            Request(u, [NoJob EXCEPT !.op = "upload", !.inst = i, !.fetched = doc], "instance")
    BY <1>2 DEF BeginUpload
  <2>2. [NoJob EXCEPT !.op = "upload", !.inst = i, !.fetched = doc].comps = Omitted
    BY DEF NoJob
  <2> QED BY <2>1, <2>2, RequestTurn DEF PCs
<1>3. CASE BeginRestore(u)
  <2>1. PICK id, mode, comps, target :
            /\ ValidComponents(comps)
            /\ Request(u, [NoJob EXCEPT !.op = "restore", !.id = id, !.mode = mode,
                                        !.comps = comps, !.inst = target], "open")
    BY <1>3 DEF BeginRestore
  <2>2. [NoJob EXCEPT !.op = "restore", !.id = id, !.mode = mode,
                      !.comps = comps, !.inst = target].comps = comps
    BY DEF NoJob
  <2> QED BY <2>1, <2>2, RequestTurn DEF PCs
<1>4. CASE BeginDownload(u)
  <2>1. PICK id : Request(u, [NoJob EXCEPT !.op = "download", !.id = id], "open")
    BY <1>4 DEF BeginDownload
  <2>2. [NoJob EXCEPT !.op = "download", !.id = id].comps = Omitted
    BY DEF NoJob
  <2> QED BY <2>1, <2>2, RequestTurn DEF PCs
<1>5. CASE BeginUpdate(u)
  <2>1. PICK id, asked :
            Request(u, [NoJob EXCEPT !.op = "update", !.id = id, !.asked = asked,
                                     !.pinned = Patched(snaps[id].pinned, asked)], "update")
    BY <1>5 DEF BeginUpdate
  <2>2. [NoJob EXCEPT !.op = "update", !.id = id, !.asked = asked,
                      !.pinned = Patched(snaps[id].pinned, asked)].comps = Omitted
    BY DEF NoJob
  <2> QED BY <2>1, <2>2, RequestTurn DEF PCs
<1>6. CASE BeginDelete(u)
  <2>1. PICK id, force :
            Request(u, [NoJob EXCEPT !.op = "delete", !.id = id, !.flag = force], "delete")
    BY <1>6 DEF BeginDelete
  <2>2. [NoJob EXCEPT !.op = "delete", !.id = id, !.flag = force].comps = Omitted
    BY DEF NoJob
  <2> QED BY <2>1, <2>2, RequestTurn DEF PCs
<1>7. CASE BeginPutSchedule(u)
  <2>1. PICK i, enabled, retain :
            Request(u, [NoJob EXCEPT !.op = "putSchedule", !.inst = i, !.flag = enabled,
                                     !.retain = retain], "putSchedule")
    BY <1>7 DEF BeginPutSchedule
  <2>2. [NoJob EXCEPT !.op = "putSchedule", !.inst = i, !.flag = enabled,
                      !.retain = retain].comps = Omitted
    BY DEF NoJob
  <2> QED BY <2>1, <2>2, RequestTurn DEF PCs
<1> QED BY <1>1, <1>2, <1>3, <1>4, <1>5, <1>6, <1>7 DEF Begin

\* What a thread that is at work has.
LEMMA AtWork ==
    ASSUME IInv, NEW t \in Threads
    PROVE  /\ DOMAIN job = Threads /\ DOMAIN job[t] = JobFields /\ pc \in [Threads -> PCs] /\ TypeOK
           /\ key \in Keys \cup {None} /\ quiet \in BOOLEAN /\ taken \in Nat
BY BoundAssumption DEF IInv, ThreadOK, Typed, Data, TypeOK

\* Steps that write nothing to the database.
LEMMA PlainTurn ==
    ASSUME IInv, NEW t \in Threads,
           FetchInstance(t) \/ Read(t) \/ ReadBack(t) \/ Target(t)
    PROVE  Turn(t) /\ Undisturbed /\ Elsewhere(t)
<1>1. /\ UNCHANGED <<snaps, schedules, key, quiet>>
      /\ pc[t] \in {"instance", "read", "readBack", "target"}
  BY DEF FetchInstance, Read, ReadBack, Target, At, ghosts
<1>2. Undisturbed /\ \A id \in 1..taken : Kept(id)
  BY <1>1, AtWork, RowsSame
<1>3. CASE Finish(t)
  BY <1>1, <1>2, <1>3, FinishTurn
<1>4. CASE ~ Finish(t)
  <2>1. PICK l \in {"read", "store", "send", "instance"} : Go(t, l)
    BY <1>4 DEF FetchInstance, Read, ReadBack, Target
  <2>2. Acts(t) /\ pc'[t] = l
    BY <1>4, <2>1, AtWork DEF Acts, Go, FetchInstance, Read, ReadBack, Target
  <2>3. job'[t].comps = job[t].comps
    BY <1>4, AtWork DEF FetchInstance, Read, ReadBack, Target, JobFields
  <2> QED BY <1>1, <1>2, <2>2, <2>3, TurnOf DEF Chooses, Elsewhere, Retaining
<1> QED BY <1>3, <1>4

\* A new row is none that was there before.
LEMMA StoreTurn ==
    ASSUME IInv, NEW t \in Threads, Store(t)
    PROVE  Turn(t) /\ Undisturbed /\ Elsewhere(t)
<1>1. UNCHANGED <<schedules, key, quiet>> /\ pc[t] = "store"
  BY DEF Store, At
<1>2. CASE Finish(t) /\ UNCHANGED <<taken, snaps, origin>>
  BY <1>1, <1>2, AtWork, RowsSame, FinishTurn
<1>3. CASE job[t].inst \in registered /\ taken < MaxIds
  <2>1. PICK id, row : id = taken + 1 /\ row = Row(job[t].inst, job[t].fetched, job[t].trigger)
    OBVIOUS
  <2>2. /\ snaps' = [snaps EXCEPT ![id] = row] /\ Go(t, "readBack")
        /\ job' = [job EXCEPT ![t].pre = id, ![t].fetched = None]
    BY <1>3, <2>1 DEF Store
  <2>3. \A k \in 1..taken : snaps'[k] = snaps[k]
    BY <2>1, <2>2, AtWork DEF TypeOK
  <2>4. \A k \in Ids : snaps[k] # None => snaps'[k] = snaps[k]
    BY <2>3, AtWork, StoredCounted
  <2>5. Acts(t) /\ pc'[t] = "readBack" /\ job'[t].comps = job[t].comps
    BY <2>2, AtWork DEF Acts, Go, JobFields
  <2>6. Undisturbed
    <3>1. EnabledRetains' = EnabledRetains
      BY <1>1 DEF EnabledRetains
    <3>2. ASSUME NEW i \in Instances, NEW k \in Candidates(i) PROVE k \in Candidates(i)'
      <4>1. k \in Ids /\ snaps[k] # None /\ snaps'[k] = snaps[k]
        BY <2>4 DEF Candidates, Of
      <4> QED BY <4>1 DEF Candidates, Of
    <3> QED BY <1>1, <3>1, <3>2 DEF Undisturbed
  <2> QED BY <1>1, <2>3, <2>5, <2>6, TurnOf DEF Chooses, Elsewhere, Retaining, Kept
<1> QED BY <1>2, <1>3 DEF Store

\* A document has been looked at, or the row must be marked first.
LEMMA OpenedActs ==
    ASSUME IInv, NEW t \in Threads, NEW j, Opened(t, j), j.comps = job[t].comps
    PROVE  Acts(t) /\ Chooses(t) /\ pc'[t] \notin Retaining \cup {"mark"}
<1>1. CASE Finish(t)
  BY <1>1, FinishActs
<1>2. CASE job' = [job EXCEPT ![t] = j] /\ Go(t, "target")
  BY <1>2, AtWork DEF Acts, Chooses, Go, Retaining
<1> QED BY <1>1, <1>2 DEF Opened

\* What Open concludes.
LEMMA OpenActs ==
    ASSUME IInv, NEW t \in Threads, Open(t)
    PROVE  /\ Acts(t) /\ Chooses(t) /\ pc[t] = "open" /\ pc'[t] \notin Retaining
           /\ UNCHANGED <<snaps, schedules, key, quiet>>
           /\ pc'[t] = "mark" => /\ job'[t].id = job[t].id
                                 /\ job'[t].flag <=> Verdict(snaps[job[t].id]) = "ok"
           /\ pc'[t] # "mark" /\ snaps[job[t].id] # None =>
                 \/ Verdict(snaps[job[t].id]) = "nokey"
                 \/ Verdict(snaps[job[t].id]) = "ok" /\ snaps[job[t].id].ok
<1>1. UNCHANGED <<snaps, schedules, key, quiet>> /\ pc[t] = "open"
  BY DEF Open, At, ghosts
<1>2. PICK row : row = snaps[job[t].id]
  OBVIOUS
<1>3. PICK ok \in BOOLEAN : ok <=> Verdict(row) = "ok"
  OBVIOUS
<1>4. PICK j : j = [job[t] EXCEPT !.flag = Verdict(row) = "ok", !.calm = TRUE,
                                  !.inst = IF @ = None THEN row.inst ELSE @,
                                  !.raw = IF Verdict(row) = "ok" THEN row.blob.doc ELSE None]
  OBVIOUS
<1>5. j.comps = job[t].comps /\ j.id = job[t].id /\ (j.flag <=> Verdict(row) = "ok")
  BY <1>4, AtWork DEF JobFields
<1>6. \/ (row = None \/ Verdict(row) = "nokey") /\ Finish(t)
      \/ Verdict(row) = "ok" /\ row.ok /\ Opened(t, j)
      \/ job' = [job EXCEPT ![t] = j] /\ Go(t, "mark")
  BY <1>2, <1>4, Zenon DEF Open
<1>7. CASE (row = None \/ Verdict(row) = "nokey") /\ Finish(t)
  <2>1. Acts(t) /\ Chooses(t) /\ pc'[t] # "mark" /\ pc'[t] \notin Retaining
    BY <1>7, FinishActs
  <2> QED BY <1>1, <1>2, <1>7, <2>1
<1>8. CASE Verdict(row) = "ok" /\ row.ok /\ Opened(t, j)
  <2>1. Acts(t) /\ Chooses(t) /\ pc'[t] \notin Retaining \cup {"mark"}
    BY <1>5, <1>8, OpenedActs
  <2> QED BY <1>1, <1>2, <1>8, <2>1
<1>9. CASE job' = [job EXCEPT ![t] = j] /\ Go(t, "mark")
  <2>1. Acts(t) /\ job'[t] = j /\ pc'[t] = "mark"
    BY <1>9, AtWork DEF Acts, Go
  <2> QED BY <1>1, <1>2, <1>5, <2>1 DEF Chooses, Retaining
<1> QED BY <1>6, <1>7, <1>8, <1>9

LEMMA OpenTurn ==
    ASSUME IInv, NEW t \in Threads, Open(t)
    PROVE  Turn(t) /\ Undisturbed /\ Elsewhere(t)
<1>1. /\ Acts(t) /\ Chooses(t) /\ pc[t] = "open" /\ pc'[t] \notin Retaining
      /\ UNCHANGED <<snaps, schedules, key, quiet>>
  BY OpenActs
<1>2. Undisturbed /\ \A id \in 1..taken : Kept(id)
  BY <1>1, AtWork, RowsSame
<1>3. ASSUME NEW u \in Threads \ {t} PROVE Waits(u)
  <2>1. pc[u] = "mark" => job[u].id \in 1..taken
    BY MarkedId
  <2> QED BY <1>1, <1>2, <2>1 DEF Waits, Acts, Same
<1> QED BY <1>1, <1>2, <1>3 DEF Turn, Elsewhere

\* A row of which only one field is written, the flag.
LEMMA MarkActs ==
    ASSUME IInv, NEW t \in Threads, Mark(t)
    PROVE  /\ pc[t] = "mark" /\ UNCHANGED <<schedules, key, quiet>> /\ Opened(t, job[t])
           /\ \A id \in Ids : /\ snaps[id] = None => snaps'[id] = None
                              /\ snaps[id] # None =>
                                    /\ snaps'[id] # None /\ snaps'[id].blob = snaps[id].blob
                                    /\ snaps'[id].sum = snaps[id].sum /\ snaps'[id].inst = snaps[id].inst
                                    /\ snaps'[id].pinned = snaps[id].pinned
                                    /\ snaps'[id].trigger = snaps[id].trigger
           /\ snaps[job[t].id] # None => (snaps'[job[t].id].ok <=> job[t].flag)
<1>1. pc[t] = "mark" /\ UNCHANGED <<schedules, key, quiet>> /\ Opened(t, job[t])
  BY DEF Mark, At, ghosts
<1>2. PICK ok \in BOOLEAN : ok = job[t].flag
  BY Zenon DEF IInv, ThreadOK, Typed
<1>3. PICK k \in Ids : k = job[t].id
  BY <1>1, MarkedId
<1>4. snaps' = [snaps EXCEPT ![k] = IF @ = None THEN None ELSE [@ EXCEPT !.ok = ok]]
  BY <1>2, <1>3, Zenon DEF Mark
<1>5. snaps \in [Ids -> Rows \cup {None}]
  BY AtWork DEF TypeOK
<1>6. \A row \in Rows :
         /\ [row EXCEPT !.ok = ok] \in Rows /\ ([row EXCEPT !.ok = ok].ok <=> ok)
         /\ [row EXCEPT !.ok = ok].blob = row.blob
         /\ [row EXCEPT !.ok = ok].sum = row.sum /\ [row EXCEPT !.ok = ok].inst = row.inst
         /\ [row EXCEPT !.ok = ok].pinned = row.pinned
         /\ [row EXCEPT !.ok = ok].trigger = row.trigger
  BY DEF Rows
<1>7. ASSUME NEW id \in Ids
      PROVE  /\ snaps[id] = None => snaps'[id] = None
             /\ snaps[id] # None =>
                   /\ snaps'[id] # None /\ snaps'[id].blob = snaps[id].blob
                   /\ snaps'[id].sum = snaps[id].sum /\ snaps'[id].inst = snaps[id].inst
                   /\ snaps'[id].pinned = snaps[id].pinned
                   /\ snaps'[id].trigger = snaps[id].trigger
  BY <1>4, <1>5, <1>6, NoneAssumption
<1>8. snaps[k] # None => (snaps'[k].ok <=> ok)
  BY <1>4, <1>5, <1>6
<1> QED BY <1>1, <1>2, <1>3, <1>7, <1>8, Zenon

LEMMA MarkTurn ==
    ASSUME IInv, NEW t \in Threads, Mark(t)
    PROVE  Turn(t) /\ Undisturbed /\ Elsewhere(t)
<1>1. /\ pc[t] = "mark" /\ UNCHANGED <<schedules, key, quiet>> /\ Opened(t, job[t])
      /\ \A id \in Ids : /\ snaps[id] = None => snaps'[id] = None
                         /\ snaps[id] # None =>
                               /\ snaps'[id] # None /\ snaps'[id].blob = snaps[id].blob
                               /\ snaps'[id].sum = snaps[id].sum /\ snaps'[id].inst = snaps[id].inst
                               /\ snaps'[id].pinned = snaps[id].pinned
                               /\ snaps'[id].trigger = snaps[id].trigger
  BY MarkActs
<1>2. Acts(t) /\ Chooses(t) /\ pc'[t] \notin Retaining \cup {"mark"}
  BY <1>1, OpenedActs
<1>3. \A id \in 1..taken : Kept(id)
  BY <1>1, AtWork, BoundAssumption DEF Kept, TypeOK, Ids
<1>4. Undisturbed
  <2>1. EnabledRetains' = EnabledRetains
    BY <1>1 DEF EnabledRetains
  <2>2. \A i \in Instances : Candidates(i) \subseteq Candidates(i)'
    BY <1>1 DEF Candidates, Of
  <2> QED BY <1>1, <2>1, <2>2 DEF Undisturbed
<1> QED BY <1>1, <1>2, <1>3, <1>4, TurnOf DEF Elsewhere

\* A restore is sent; others are told that the configuration is another.
LEMMA SendTurn ==
    ASSUME IInv, NEW t \in Threads, Send(t)
    PROVE  Turn(t) /\ Undisturbed /\ Elsewhere(t)
<1>1. UNCHANGED <<snaps, schedules, key, quiet>> /\ pc[t] = "send" /\ Go(t, "idle")
  BY DEF Send, At, ghosts
<1>2. Undisturbed /\ \A id \in 1..taken : Kept(id)
  BY <1>1, AtWork, RowsSame
<1>3. PICK jobs : /\ jobs = job \/ jobs = Disturb(job, job[t].inst)
                  /\ job' = [jobs EXCEPT ![t] = NoJob]
  BY Zenon DEF Send
<1>4. DOMAIN jobs = Threads
  BY <1>3, AtWork DEF Disturb
<1>5. job'[t] = NoJob /\ pc'[t] = "idle" /\ \A u \in Threads \ {t} : job'[u] = jobs[u] /\ pc'[u] = pc[u]
  BY <1>1, <1>3, <1>4, AtWork DEF Go
<1>6. ASSUME NEW u \in Threads \ {t} PROVE Waits(u)
  <2>1. jobs[u] = job[u] \/ jobs[u] = [job[u] EXCEPT !.calm = FALSE]
    BY <1>3, DisturbSame
  <2>2. pc[u] = "mark" => job[u].id \in 1..taken
    BY MarkedId
  <2> QED BY <1>2, <1>5, <2>1, <2>2 DEF Waits, Same
<1> QED BY <1>1, <1>2, <1>5, <1>6, NoJobFields DEF Turn, Chooses, Elsewhere, Retaining

\* A row is written or deleted, or a schedule: no retention pass is quiet then.
LEMMA WriteTurn ==
    ASSUME IInv, NEW t \in Threads, Update(t) \/ Delete(t) \/ PutSchedule(t)
    PROVE  Turn(t) /\ Undisturbed /\ Elsewhere(t)
<1>1. /\ key' = key /\ quiet' = FALSE /\ Finish(t) /\ pc[t] \in {"update", "delete", "putSchedule"}
  BY DEF Update, Delete, PutSchedule, At
<1>2. Undisturbed
  BY <1>1 DEF Undisturbed
<1>3. ASSUME NEW id \in 1..taken PROVE Kept(id)
  <2>1. snaps \in [Ids -> Rows \cup {None}] /\ id \in Ids
    BY AtWork, BoundAssumption DEF TypeOK, Ids
  <2>2. CASE Update(t)
    <3>1. PICK k, p : snaps' = [snaps EXCEPT ![k] =
                                   IF @ = None THEN None ELSE [@ EXCEPT !.pinned = p]]
      BY <2>2 DEF Update
    <3>2. \A row \in Rows : /\ [row EXCEPT !.pinned = p].blob = row.blob
                            /\ [row EXCEPT !.pinned = p].sum = row.sum
      BY DEF Rows
    <3> QED BY <2>1, <3>1, <3>2 DEF Kept
  <2>3. CASE Delete(t)
    BY <2>1, <2>3 DEF Delete, Kept
  <2>4. CASE PutSchedule(t)
    BY <2>4 DEF PutSchedule, Kept
  <2> QED BY <2>2, <2>3, <2>4
<1> QED BY <1>1, <1>2, <1>3, FinishTurn

\* What fails is an event.
LEMMA FailTurn ==
    ASSUME IInv, NEW t \in Threads, Fail(t)
    PROVE  Turn(t) /\ Undisturbed /\ Elsewhere(t)
<1>1. UNCHANGED <<snaps, schedules, key, quiet>> /\ Finish(t) /\ Event /\ pc[t] # "prune"
  BY DEF Fail, ghosts
<1> QED BY <1>1, AtWork, RowsSame, FinishTurn

\* A step of t that rewrites no row and no schedule.
LEMMA QuietTurn ==
    ASSUME IInv, NEW t \in Threads, UNCHANGED <<snaps, schedules, key>>, quiet' => quiet,
           Acts(t), Chooses(t), pc'[t] \notin Retaining \cup {"mark"}, pc[t] # "prune",
           pc[t] \in {"open", "mark"} => Open(t) \/ Mark(t) \/ Event
    PROVE  Turn(t) /\ Undisturbed /\ Elsewhere(t)
BY AtWork, RowsSame, TurnOf DEF Elsewhere

\* What fails and is only logged, but for the retention pass.
LEMMA LoggedTurn ==
    ASSUME IInv, NEW t \in Threads, Logged(t), ~ (t = Scheduler /\ pc[t] \in Retaining)
    PROVE  Turn(t) /\ Undisturbed /\ Elsewhere(t)
<1>1. UNCHANGED <<snaps, schedules, key, quiet>> /\ Event
  BY DEF Logged, ghosts
<1>2. CASE At(t, "mark") /\ Opened(t, job[t])
  <2>1. Acts(t) /\ Chooses(t) /\ pc'[t] \notin Retaining \cup {"mark"}
    BY <1>2, OpenedActs
  <2> QED BY <1>1, <1>2, <2>1, QuietTurn DEF At
<1>3. CASE At(t, "recordRun") /\ Go(t, "due") /\ job' = [job EXCEPT ![t].inst = None]
  <2>1. Acts(t) /\ job'[t].comps = job[t].comps /\ pc'[t] = "due"
    BY <1>3, AtWork DEF Acts, Go, JobFields
  <2> QED BY <1>1, <1>3, <2>1, QuietTurn DEF At, Chooses, Retaining
<1>4. CASE At(t, "sweep") /\ Go(t, "idle") /\ job' = [job EXCEPT ![t] = NoJob]
  <2>1. Acts(t) /\ job'[t].comps = Omitted /\ pc'[t] = "idle"
    BY <1>4, AtWork, NoJobFields DEF Acts, Go
  <2> QED BY <1>1, <1>4, <2>1, QuietTurn DEF At, Chooses, Retaining
<1>5. CASE t # Scheduler /\ pc[t] \in Retaining
  <2>1. Undisturbed /\ \A id \in 1..taken : Kept(id)
    BY <1>1, AtWork, RowsSame
  <2>2. Acts(t) /\ job'[t].comps = job[t].comps /\ pc'[t] \in Retaining
    BY <1>5, AtWork DEF Acts, Logged, At, Go, Retaining, JobFields
  <2> QED BY <1>1, <1>5, <2>1, <2>2, TurnOf DEF Chooses, Elsewhere, Retaining
<1> QED BY <1>2, <1>3, <1>4, <1>5 DEF Logged, At, Retaining

\* The passes of the scheduler, but for retention.
LEMMA PassTurn ==
    ASSUME IInv,
           \/ TickListed \/ Tick({}) \/ RunDue \/ RecordRun \/ Sweep \/ Verify
           \/ \E sweep \in BOOLEAN : Retained(sweep)
    PROVE  Turn(Scheduler) /\ Undisturbed /\ Elsewhere(Scheduler)
<1>0. Scheduler \in Threads
  BY SchedulerThread
<1>1. ASSUME NEW due, Tick(due) PROVE Turn(Scheduler) /\ Undisturbed /\ Elsewhere(Scheduler)
  <2>1. UNCHANGED <<snaps, schedules, key, quiet>> /\ pc[Scheduler] = "idle"
    BY <1>1 DEF Tick, At, ghosts
  <2>2. Acts(Scheduler) /\ pc'[Scheduler] = "due" /\ job'[Scheduler].comps = Omitted
    BY <1>0, <1>1, AtWork DEF Tick, Acts, Go, NoJob
  <2> QED BY <1>0, <2>1, <2>2, QuietTurn DEF Chooses, Retaining
<1>2. CASE RunDue
  <2>1. UNCHANGED <<snaps, schedules, key, quiet>> /\ pc[Scheduler] = "due"
    BY <1>2 DEF RunDue, At, ghosts
  <2>2. Acts(Scheduler) /\ pc'[Scheduler] \in {"retains", "instance"}
    BY <1>0, <1>2, AtWork DEF RunDue, Acts, Go
  <2>3. job'[Scheduler].comps = job[Scheduler].comps
    <3>1. CASE job' = job
      BY <3>1
    <3>2. CASE job' # job
      <4>1. PICK i : job' = [job EXCEPT ![Scheduler].todo = @ \ {i}, ![Scheduler].inst = i,
                                        ![Scheduler].trigger = "scheduled"]
        BY <1>2, <3>2 DEF RunDue
      <4> QED BY <1>0, <4>1, AtWork DEF JobFields
    <3> QED BY <3>1, <3>2
  <2> QED BY <1>0, <2>1, <2>2, <2>3, QuietTurn DEF Chooses, Retaining
<1>3. CASE RecordRun
  <2>1. UNCHANGED <<snaps, key, quiet>> /\ pc[Scheduler] = "recordRun" /\ TypeOK
    BY <1>0, <1>3, AtWork DEF RecordRun, At, ghosts
  <2>2. /\ Acts(Scheduler) /\ pc'[Scheduler] = "due"
        /\ job'[Scheduler].comps = job[Scheduler].comps
    BY <1>0, <1>3, AtWork DEF RecordRun, Acts, Go, JobFields
  <2>3. EnabledRetains' = EnabledRetains
    <3>1. PICK k : schedules' = [schedules EXCEPT ![k] =
                                    IF @ = None THEN None ELSE [@ EXCEPT !.ran = TRUE]]
      BY <1>3 DEF RecordRun
    <3>2. \A s \in Schedules : /\ [s EXCEPT !.ran = TRUE] \in Schedules
                               /\ [s EXCEPT !.ran = TRUE].enabled = s.enabled
                               /\ [s EXCEPT !.ran = TRUE].retain = s.retain
      BY DEF Schedules
    <3>3. schedules \in [Instances -> Schedules \cup {None}]
      BY <2>1 DEF TypeOK
    <3>4. ASSUME NEW i \in Instances PROVE EnabledRetains'[i] = EnabledRetains[i]
      <4>1. /\ schedules'[i] = None <=> schedules[i] = None
            /\ schedules[i] # None => /\ schedules'[i].enabled = schedules[i].enabled
                                      /\ schedules'[i].retain = schedules[i].retain
        BY <3>1, <3>2, <3>3, NoneAssumption
      <4> QED BY <4>1 DEF EnabledRetains
    <3> QED BY <3>4 DEF EnabledRetains
  <2>4. \A i \in Instances : Candidates(i)' = Candidates(i)
    BY <2>1 DEF Candidates, Of
  <2> QED BY <1>0, <2>1, <2>2, <2>3, <2>4, TurnOf
        DEF Chooses, Retaining, Undisturbed, Elsewhere, Kept
<1>4. CASE Sweep
  <2>1. UNCHANGED <<snaps, schedules, key, quiet>> /\ pc[Scheduler] = "sweep"
    BY <1>4 DEF Sweep, At, ghosts
  <2>2. /\ Acts(Scheduler) /\ pc'[Scheduler] = "verify"
        /\ job'[Scheduler].comps = job[Scheduler].comps
    BY <1>0, <1>4, AtWork DEF Sweep, Acts, Go, JobFields
  <2> QED BY <1>0, <2>1, <2>2, QuietTurn DEF Chooses, Retaining
<1>5. CASE Verify
  <2>1. UNCHANGED <<snaps, schedules, key, quiet>> /\ pc[Scheduler] = "verify"
    BY <1>5 DEF Verify, At, ghosts
  <2>2. Acts(Scheduler) /\ pc'[Scheduler] \in {"idle", "open"}
    BY <1>0, <1>5, AtWork DEF Verify, Acts, Go
  <2>3. job'[Scheduler].comps \in {job[Scheduler].comps, Omitted}
    BY <1>0, <1>5, AtWork DEF Verify, JobFields, NoJob
  <2> QED BY <1>0, <2>1, <2>2, <2>3, QuietTurn DEF Chooses, Retaining
<1>6. ASSUME NEW sweep \in BOOLEAN, Retained(sweep)
      PROVE  Turn(Scheduler) /\ Undisturbed /\ Elsewhere(Scheduler)
  <2>1. UNCHANGED <<snaps, schedules, key>> /\ quiet' = FALSE /\ pc[Scheduler] = "candidates"
    BY <1>6 DEF Retained, At
  <2>2. Acts(Scheduler) /\ pc'[Scheduler] \in {"idle", "sweep"}
    BY <1>0, <1>6, AtWork DEF Retained, Acts, Go
  <2>3. job'[Scheduler].comps = Omitted
    BY <1>0, <1>6, AtWork DEF Retained, NoJob
  <2> QED BY <1>0, <2>1, <2>2, <2>3, QuietTurn DEF Chooses, Retaining
<1> QED BY <1>1, <1>2, <1>3, <1>4, <1>5, <1>6 DEF TickListed

\* The retention pass itself.
LEMMA RetentionTurn ==
    ASSUME IInv, RetentionStep
    PROVE  Turn(Scheduler)
<1>0. Scheduler \in Threads /\ snaps \in [Ids -> Rows \cup {None}] /\ 1..taken \subseteq Ids
  BY SchedulerThread, AtWork, BoundAssumption DEF TypeOK, Ids
<1>1. key' = key /\ pc[Scheduler] \in Retaining \cup {"retains"}
  BY DEF RetentionStep, ListRetains, ListInstances, ListCandidates, Prune, Retain, Logged, At, Retaining
<1>2. Acts(Scheduler) /\ pc'[Scheduler] \in Retaining
  BY <1>0, AtWork
     DEF RetentionStep, ListRetains, ListInstances, ListCandidates, Prune, Retain, Logged, At, Go,
         Acts, Retaining
<1>3. job'[Scheduler].comps = job[Scheduler].comps
  BY <1>0, AtWork
     DEF RetentionStep, ListRetains, ListInstances, ListCandidates, Prune, Retain, Logged, At,
         Retaining, JobFields
<1>4. \A id \in 1..taken : Kept(id)
  <2>1. UNCHANGED snaps \/ \E k : snaps' = [snaps EXCEPT ![k] = None]
    BY DEF RetentionStep, ListRetains, ListInstances, ListCandidates, Prune, Retain, Logged
  <2> QED BY <1>0, <2>1 DEF Kept
<1> QED BY <1>0, <1>1, <1>2, <1>3, <1>4, TurnOf DEF Chooses, Retaining

-----------------------------------------------------------------------------
(* What happens around OAM *)

\* Who was about to mark the row that is tampered with is told.
LEMMA TamperTurn == ASSUME IInv, NEW id \in Ids, Tamper(id) PROVE WorldTurn
<1>1. /\ UNCHANGED <<schedules, key, pc, quiet>> /\ snaps[id] # None
      /\ job' = Overtake(job, id) /\ TypeOK
  BY DEF Tamper, ghosts, IInv, Data
<1>2. PICK new \in Rows : /\ snaps' = [snaps EXCEPT ![id] = new]
                          /\ new.inst = snaps[id].inst /\ new.pinned = snaps[id].pinned
                          /\ new.trigger = snaps[id].trigger
  BY TamperRow
<1>3. snaps \in [Ids -> Rows \cup {None}]
  BY <1>1 DEF TypeOK
<1>4. snaps'[id] = new /\ new # None /\ \A k \in Ids : k # id => snaps'[k] = snaps[k]
  BY <1>2, <1>3, NoneAssumption
<1>5. Undisturbed
  <2>1. EnabledRetains' = EnabledRetains
    BY <1>1 DEF EnabledRetains
  <2>2. ASSUME NEW i \in Instances, NEW k \in Candidates(i) PROVE k \in Candidates(i)'
    <3>1. /\ k \in Ids /\ snaps[k] # None /\ snaps[k].inst = i /\ ~ snaps[k].pinned
          /\ snaps[k].trigger # "pre_upgrade"
      BY DEF Candidates, Of
    <3>2. /\ snaps'[k] # None /\ snaps'[k].inst = i /\ ~ snaps'[k].pinned
          /\ snaps'[k].trigger # "pre_upgrade"
      BY <1>2, <1>4, <3>1
    <3> QED BY <3>1, <3>2 DEF Candidates, Of
  <2> QED BY <1>1, <2>1, <2>2 DEF Undisturbed
<1>6. ASSUME NEW u \in Threads PROVE Waits(u)
  <2>1. Same(u)
    BY <1>1 DEF Overtake, Same
  <2>2. ASSUME pc[u] = "mark", job'[u].calm PROVE Kept(job[u].id)
    <3>1. job[u].id # id
      <4>1. SUFFICES ASSUME job[u].id = id PROVE job'[u].calm = FALSE
        BY <2>2
      <4>2. job'[u] = [job[u] EXCEPT !.calm = FALSE]
        BY <1>1, <2>2, <4>1 DEF Overtake, At
      <4> QED BY <4>2, AtWork DEF JobFields
    <3>2. job[u].id \in Ids
      BY <2>2, MarkedId
    <3> QED BY <1>4, <3>1, <3>2 DEF Kept
  <2> QED BY <2>1, <2>2 DEF Waits
<1> QED BY <1>1, <1>5, <1>6 DEF WorldTurn

LEMMA ChangeConfigTurn == ASSUME IInv, NEW i \in Instances, ChangeConfig(i) PROVE WorldTurn
<1>1. UNCHANGED <<snaps, schedules, key, pc, quiet>> /\ job' = Disturb(job, i) /\ TypeOK
  BY DEF ChangeConfig, ghosts, IInv, Data
<1>2. Undisturbed /\ \A id \in 1..taken : Kept(id)
  BY <1>1, RowsSame
<1>3. ASSUME NEW u \in Threads PROVE Waits(u)
  <2>1. Same(u)
    BY <1>1, DisturbSame DEF Same
  <2>2. pc[u] = "mark" => Kept(job[u].id)
    BY <1>1 DEF Kept
  <2> QED BY <2>1, <2>2 DEF Waits
<1> QED BY <1>1, <1>2, <1>3 DEF WorldTurn

LEMMA DeleteInstanceTurn == ASSUME IInv, NEW i \in Instances, DeleteInstance(i) PROVE WorldTurn
<1>1. UNCHANGED <<key, pc, job>> /\ quiet' = FALSE
  BY DEF DeleteInstance
<1>2. \A id \in Ids : snaps'[id] = None \/ snaps'[id] = snaps[id]
  <2> HIDE DEF Of
  <2> QED BY DEF DeleteInstance
<1>3. ASSUME NEW u \in Threads PROVE Waits(u)
  <2>1. pc[u] = "mark" => job[u].id \in Ids
    BY MarkedId
  <2> QED BY <1>1, <1>2, <2>1 DEF Waits, Same, Kept
<1> QED BY <1>1, <1>3 DEF WorldTurn, Undisturbed

\* Every step is one of a thread, of the retention pass or of the world, or a
\* restart.
LEMMA NextTurn ==
    ASSUME IInv, Next
    PROVE  \/ \E t \in Threads : Turn(t) /\ Undisturbed /\ Elsewhere(t)
           \/ Turn(Scheduler) /\ RetentionStep
           \/ WorldTurn
           \/ Restart
<1>0. Scheduler \in Threads
  BY SchedulerThread
<1>1. ASSUME NEW u \in Users, Begin(u)
      PROVE  \E t \in Threads : Turn(t) /\ Undisturbed /\ Elsewhere(t)
  <2>1. Turn(u) /\ Undisturbed /\ Elsewhere(u) /\ u \in Threads
    BY <1>1, BeginTurn DEF Threads
  <2> QED BY <2>1
<1>2. ASSUME NEW t \in Threads, Step(t) PROVE Turn(t) /\ Undisturbed /\ Elsewhere(t)
  BY <1>2, PlainTurn, StoreTurn, OpenTurn, MarkTurn, SendTurn, WriteTurn DEF Step
<1>3. ASSUME NEW t \in Threads, Fail(t) PROVE Turn(t) /\ Undisturbed /\ Elsewhere(t)
  BY <1>3, FailTurn
<1>4. ASSUME NEW t \in Threads, Logged(t)
      PROVE  (Turn(t) /\ Undisturbed /\ Elsewhere(t)) \/ RetentionStep
  <2>1. CASE t = Scheduler /\ pc[t] \in Retaining
    BY <1>4, <2>1 DEF RetentionStep
  <2>2. CASE ~ (t = Scheduler /\ pc[t] \in Retaining)
    BY <1>4, <2>2, LoggedTurn
  <2> QED BY <2>1, <2>2
<1>5. ASSUME Pass \/ Unlisted
      PROVE  (Turn(Scheduler) /\ Undisturbed /\ Elsewhere(Scheduler)) \/ RetentionStep
  <2>1. CASE ListRetains \/ ListInstances \/ ListCandidates \/ Prune
             \/ Retain([i \in Instances |-> DefaultRetain], FALSE)
    BY <2>1 DEF RetentionStep
  <2>2. CASE \/ TickListed \/ Tick({}) \/ RunDue \/ RecordRun \/ Sweep \/ Verify
             \/ \E sweep \in BOOLEAN : Retained(sweep)
    BY <2>2, PassTurn
  <2> QED BY <1>5, <2>1, <2>2 DEF Pass, Unlisted
<1>6. CASE Environment
  BY <1>6, TamperTurn, ChangeConfigTurn, DeleteInstanceTurn DEF Environment
<1>7. RetentionStep => Turn(Scheduler)
  BY RetentionTurn
<1> QED BY <1>0, <1>1, <1>2, <1>3, <1>4, <1>5, <1>6, <1>7 DEF Next

-----------------------------------------------------------------------------
(* The three invariants are kept *)

\* A selection that names nothing is never restored.
LEMMA ChosenKept ==
    ASSUME IInv, Chosen, Next
    PROVE  Chosen'
<1>1. ASSUME NEW u \in Threads, Waits(u) PROVE job'[u].comps = job[u].comps
  <2>1. Same(u) /\ Typed(job[u])
    BY <1>1 DEF Waits, IInv, ThreadOK
  <2> QED BY <2>1, SameFields
<1>2. ASSUME NEW t \in Threads, Turn(t) PROVE Chosen'
  <2>1. ASSUME NEW u \in Threads, job'[u].comps = {} PROVE Omitted = {}
    <3>1. CASE u # t
      BY <1>1, <1>2, <2>1, <3>1 DEF Turn, Chosen
    <3>2. CASE u = t
      BY <1>2, <2>1, <3>2 DEF Turn, Chooses, ValidComponents, Chosen
    <3> QED BY <3>1, <3>2
  <2> QED BY <2>1 DEF Chosen
<1>3. CASE WorldTurn
  BY <1>1, <1>3 DEF WorldTurn, Chosen
<1>4. CASE Restart
  <2>1. \A u \in Threads : job'[u].comps = Omitted
    BY <1>4, NoJobFields DEF Restart
  <2> QED BY <2>1 DEF Chosen
<1> QED BY <1>2, <1>3, <1>4, NextTurn, SchedulerThread

\* What was concluded is still true for who waits.
LEMMA ConcludedWaits ==
    ASSUME IInv, Concluded, key' = key, NEW u \in Threads, Waits(u),
           pc'[u] = "mark", job'[u].calm, snaps'[job'[u].id] # None
    PROVE  job'[u].flag <=> Verdict(snaps[job[u].id])' = "ok"
<1>1. Same(u) /\ Typed(job[u])
  BY DEF Waits, IInv, ThreadOK
<1>2. job'[u].id = job[u].id /\ job'[u].flag = job[u].flag /\ job[u].calm /\ pc[u] = "mark"
  BY <1>1, SameFields DEF Same
<1>3. Kept(job[u].id)
  BY <1>2 DEF Waits
<1>4. /\ snaps[job[u].id] # None /\ snaps'[job'[u].id].blob = snaps[job[u].id].blob
      /\ snaps'[job'[u].id].sum = snaps[job[u].id].sum
  BY <1>2, <1>3 DEF Kept
<1>5. Verdict(snaps[job[u].id])' = Verdict(snaps[job[u].id])
  BY <1>4 DEF Verdict
<1>6. job[u].flag <=> Verdict(snaps[job[u].id]) = "ok"
  BY <1>2, <1>4 DEF Concluded
<1> QED BY <1>2, <1>5, <1>6, Zenon

\* What is written to a flag is true, or the reader was told.
LEMMA ConcludedKept ==
    ASSUME IInv, Concluded, Next
    PROVE  Concluded'
<1>1. ASSUME NEW t \in Threads, Turn(t) PROVE Concluded'
  <2>1. ASSUME NEW u \in Threads, pc'[u] = "mark", job'[u].calm, snaps'[job'[u].id] # None
        PROVE  job'[u].flag <=> Verdict(snaps[job[u].id])' = "ok"
    <3>1. CASE u # t
      BY <1>1, <2>1, <3>1, ConcludedWaits DEF Turn
    <3>2. CASE u = t
      <4>1. Open(t) /\ key' = key
        BY <1>1, <2>1, <3>2 DEF Turn
      <4>2. /\ snaps' = snaps /\ job'[u].id = job[u].id
            /\ job'[u].flag <=> Verdict(snaps[job[u].id]) = "ok"
        BY <2>1, <3>2, <4>1, OpenActs
      <4>3. Verdict(snaps[job[u].id])' = Verdict(snaps[job[u].id])
        BY <4>1, <4>2 DEF Verdict
      <4> QED BY <4>2, <4>3, Zenon
    <3> QED BY <3>1, <3>2
  <2> QED BY <2>1, Zenon DEF Concluded
<1>2. CASE WorldTurn
  <2>1. ASSUME NEW u \in Threads, pc'[u] = "mark", job'[u].calm, snaps'[job'[u].id] # None
        PROVE  job'[u].flag <=> Verdict(snaps[job[u].id])' = "ok"
    BY <1>2, <2>1, ConcludedWaits DEF WorldTurn
  <2> QED BY <2>1, Zenon DEF Concluded
<1>3. CASE Restart
  <2>1. \A u \in Threads : pc'[u] # "mark"
    BY <1>3 DEF Restart
  <2> QED BY <2>1, Zenon DEF Concluded
<1> QED BY <1>1, <1>2, <1>3, NextTurn, SchedulerThread

\* A set of ids is finite.
LEMMA IdsFinite == \A S \in SUBSET Ids : IsFiniteSet(S) /\ Cardinality(S) \in Nat
<1>1. IsFiniteSet(Ids)
  BY BoundAssumption, FS_Interval DEF Ids
<1> QED BY <1>1, FS_Subset, FS_CardinalityType

\* Candidates are stored snapshots.
LEMMA CandidatesIds == \A i \in Instances : Candidates(i) \subseteq Ids
BY DEF Candidates, Of

\* The retain counts are numbers.
LEMMA RetainNat == ASSUME TypeOK, NEW i \in Instances PROVE EnabledRetains[i] \in Nat
<1>1. schedules[i] \in Schedules \cup {None}
  BY DEF TypeOK
<1>2. schedules[i] # None => schedules[i].retain \in Nat
  BY <1>1 DEF Schedules
<1> QED BY <1>2, RetainAssumption DEF EnabledRetains

\* More ids, not fewer.
LEMMA MoreIds ==
    ASSUME NEW S \in SUBSET Ids, NEW T \in SUBSET S, NEW n \in Nat, Cardinality(T) >= n
    PROVE  Cardinality(S) >= n
<1>1. IsFiniteSet(S) /\ Cardinality(S) \in Nat /\ Cardinality(T) \in Nat
  BY IdsFinite
<1>2. Cardinality(T) <= Cardinality(S)
  BY <1>1, FS_Subset
<1> QED BY <1>1, <1>2

\* RetentionVictims leaves as many as are retained, if it takes any.
LEMMA VictimsSpare ==
    ASSUME NEW C \in SUBSET Ids, NEW retain \in Nat, RetentionVictims(C, retain) # {}
    PROVE  Cardinality(C \ RetentionVictims(C, retain)) >= retain
<1>1. PICK n \in Nat : n >= retain /\ n = IF retain < 1 THEN 1 ELSE retain
  OBVIOUS
<1>2. PICK V : V = RetentionVictims(C, retain)
  OBVIOUS
<1>3. V = {id \in C : Cardinality({o \in C : o > id}) >= n}
  BY <1>1, <1>2 DEF RetentionVictims
<1>4. PICK v : v = Newest(V)
  OBVIOUS
<1>5. v \in V /\ \A o \in V : o <= v
  BY <1>2, <1>3, <1>4, NewestIn
<1>6. PICK W : W = {o \in C : o > v}
  OBVIOUS
<1>7. Cardinality(W) >= n
  BY <1>3, <1>5, <1>6
<1>8. W \subseteq C \ V
  <2>1. \A o \in C : o \in Nat
    BY BoundAssumption DEF Ids
  <2>2. ASSUME NEW o \in W PROVE o \in C /\ o \notin V
    <3>1. o \in Nat /\ v \in Nat /\ o > v /\ o \in C
      BY <1>3, <1>5, <1>6, <2>1, <2>2
    <3>2. ~ (o <= v)
      BY <3>1
    <3> QED BY <1>5, <3>1, <3>2, Zenon
  <2> QED BY <2>2
<1>9. Cardinality(C \ V) >= n
  BY <1>7, <1>8, MoreIds
<1>10. Cardinality(C \ V) \in Nat
  BY IdsFinite
<1> QED BY <1>1, <1>2, <1>9, <1>10

\* The rows of the victims of a retention pass do not change in its other steps.
LEMMA SameCandidates ==
    ASSUME UNCHANGED <<snaps, schedules>>
    PROVE  EnabledRetains' = EnabledRetains /\ \A i \in Instances : Candidates(i)' = Candidates(i)
BY DEF EnabledRetains, Candidates, Of

\* A row that is deleted is no candidate any more, the others stay what they are.
LEMMA PrunedCandidates ==
    ASSUME snaps \in [Ids -> Rows \cup {None}], NEW id, snaps' = [snaps EXCEPT ![id] = None],
           NEW i \in Instances
    PROVE  Candidates(i)' = Candidates(i) \ {id}
<1>1. \A k \in Ids : snaps'[k] = IF k = id THEN None ELSE snaps[k]
  OBVIOUS
<1>2. ASSUME NEW k PROVE k \in Candidates(i)' <=> k \in Candidates(i) \ {id}
  BY <1>1 DEF Candidates, Of
<1> QED BY <1>2

\* A pass that nobody interferes with is left alone.
LEMMA LeftAlone ==
    ASSUME IInv, Knows, Spares, Undisturbed, Same(Scheduler)
    PROVE  Knows' /\ Spares'
<1>1. /\ pc'[Scheduler] = pc[Scheduler] /\ job'[Scheduler].ids = job[Scheduler].ids
      /\ job'[Scheduler].retains = job[Scheduler].retains
  BY SchedulerThread, SameFields DEF IInv, ThreadOK, Same
<1>2. Knows'
  BY <1>1 DEF Knows, Undisturbed
<1>3. Spares'
  <2>1. SUFFICES ASSUME pc[Scheduler] = "prune", quiet', job[Scheduler].ids # {}
                 PROVE  \E i \in Instances :
                           /\ job[Scheduler].ids \subseteq Candidates(i)'
                           /\ Cardinality(Candidates(i)' \ job[Scheduler].ids) >= EnabledRetains[i]
    BY <1>1 DEF Spares, Undisturbed
  <2>2. quiet
    BY <2>1 DEF Undisturbed
  <2>3. PICK i \in Instances :
            /\ job[Scheduler].ids \subseteq Candidates(i)
            /\ Cardinality(Candidates(i) \ job[Scheduler].ids) >= EnabledRetains[i]
    BY <2>1, <2>2 DEF Spares
  <2>4. Candidates(i) \subseteq Candidates(i)'
    BY <2>1 DEF Undisturbed
  <2>5. Candidates(i)' \subseteq Ids
    BY DEF Candidates, Of
  <2>6. EnabledRetains[i] \in Nat
    BY RetainNat DEF IInv, Data
  <2>7. Cardinality(Candidates(i)' \ job[Scheduler].ids) >= EnabledRetains[i]
    <3>1. PICK S \in SUBSET Ids : S = Candidates(i)' \ job[Scheduler].ids
      BY <2>5
    <3>2. PICK T \in SUBSET S : T = Candidates(i) \ job[Scheduler].ids
      BY <2>4, <3>1
    <3> QED BY <2>3, <2>6, <3>1, <3>2, MoreIds
  <2> QED BY <2>3, <2>4, <2>7
<1> QED BY <1>2, <1>3

\* The retention pass keeps what it relies on.
LEMMA RetentionKeeps ==
    ASSUME IInv, Knows, Spares, RetentionStep
    PROVE  Knows' /\ Spares'
<1>0. /\ Scheduler \in Threads /\ DOMAIN job = Threads /\ DOMAIN job[Scheduler] = JobFields
      /\ pc \in [Threads -> PCs] /\ TypeOK
  BY SchedulerThread, AtWork
<1>1. CASE ListRetains
  <2>1. /\ pc'[Scheduler] = "listInstances" /\ UNCHANGED <<snaps, schedules>>
        /\ job' = [job EXCEPT ![Scheduler].op = "retention", ![Scheduler].retains = EnabledRetains]
    BY <1>0, <1>1 DEF ListRetains, Retain, Go
  <2>2. job'[Scheduler].retains = EnabledRetains
    BY <1>0, <2>1 DEF JobFields
  <2>3. EnabledRetains' = EnabledRetains
    BY <2>1, SameCandidates
  <2> QED BY <2>1, <2>2, <2>3 DEF Knows, Spares
<1>2. CASE Retain([i \in Instances |-> DefaultRetain], FALSE)
  BY <1>2 DEF Retain, Knows, Spares
<1>3. CASE ListInstances
  <2>1. /\ pc[Scheduler] \in Retaining /\ pc'[Scheduler] = "candidates"
        /\ UNCHANGED <<snaps, schedules, quiet>>
    BY <1>0, <1>3 DEF ListInstances, Go, At, Retaining, ghosts
  <2>2. job'[Scheduler].retains = job[Scheduler].retains
    BY <1>0, <1>3 DEF ListInstances, JobFields
  <2> QED BY <2>1, <2>2, SameCandidates DEF Knows, Spares
<1>4. CASE ListCandidates
  <2>1. /\ pc[Scheduler] = "candidates" /\ pc'[Scheduler] = "prune"
        /\ UNCHANGED <<snaps, schedules, quiet>>
    BY <1>0, <1>4 DEF ListCandidates, Go, At, ghosts
  <2>2. PICK i \in job[Scheduler].todo :
            job' = [job EXCEPT ![Scheduler].todo = @ \ {i},
                       ![Scheduler].ids = RetentionVictims(Candidates(i), job[Scheduler].retains[i])]
    BY <1>4 DEF ListCandidates
  <2>3. i \in Instances
    BY <1>0, <2>2 DEF IInv, ThreadOK, Typed
  <2>4. PICK V : V = RetentionVictims(Candidates(i), job[Scheduler].retains[i])
    OBVIOUS
  <2>5. job'[Scheduler].ids = V /\ job'[Scheduler].retains = job[Scheduler].retains
    BY <1>0, <2>2, <2>4 DEF JobFields
  <2>6. EnabledRetains' = EnabledRetains /\ Candidates(i)' = Candidates(i)
    BY <2>1, <2>3, SameCandidates
  <2>7. Knows'
    BY <2>1, <2>5, <2>6 DEF Knows, Retaining
  <2>8. ASSUME quiet, V # {}
        PROVE  V \subseteq Candidates(i) /\ Cardinality(Candidates(i) \ V) >= EnabledRetains[i]
    <3>1. V = RetentionVictims(Candidates(i), EnabledRetains[i])
      BY <2>1, <2>4, <2>8 DEF Knows, Retaining
    <3>2. V \subseteq Candidates(i)
      BY <3>1 DEF RetentionVictims
    <3>3. Candidates(i) \in SUBSET Ids /\ EnabledRetains[i] \in Nat
      BY <1>0, <2>3, RetainNat, CandidatesIds
    <3> QED BY <2>8, <3>1, <3>2, <3>3, VictimsSpare
  <2>9. Spares'
    BY <2>1, <2>3, <2>5, <2>6, <2>8 DEF Spares
  <2> QED BY <2>7, <2>9
<1>5. CASE Prune
  <2>1. pc[Scheduler] = "prune" /\ UNCHANGED <<schedules, quiet>>
    BY <1>5 DEF Prune, At, ghosts
  <2>2. EnabledRetains' = EnabledRetains
    BY <2>1 DEF EnabledRetains
  <2>3. CASE job[Scheduler].ids = {}
    <3>1. pc'[Scheduler] = "candidates" /\ job' = job
      BY <1>0, <1>5, <2>3 DEF Prune, Go
    <3> QED BY <2>1, <2>2, <3>1 DEF Knows, Spares, Retaining
  <2>4. CASE job[Scheduler].ids # {}
    <3>1. PICK id : id = Newest(job[Scheduler].ids)
      OBVIOUS
    <3>2. id \in job[Scheduler].ids
      BY <1>0, <2>4, <3>1, NewestOf
    <3>3. /\ snaps' = [snaps EXCEPT ![id] = None] /\ pc' = pc
          /\ job' = [job EXCEPT ![Scheduler].ids = @ \ {id}]
      BY <1>5, <2>4, <3>1 DEF Prune
    <3>4. /\ job'[Scheduler].ids = job[Scheduler].ids \ {id}
          /\ job'[Scheduler].retains = job[Scheduler].retains
      BY <1>0, <3>3 DEF JobFields
    <3>5. Knows'
      BY <2>1, <2>2, <3>3, <3>4 DEF Knows
    <3>6. ASSUME quiet
          PROVE  \E i \in Instances :
                    /\ job'[Scheduler].ids \subseteq Candidates(i)'
                    /\ Cardinality(Candidates(i)' \ job'[Scheduler].ids) >= EnabledRetains[i]
      <4>1. PICK i \in Instances :
                /\ job[Scheduler].ids \subseteq Candidates(i)
                /\ Cardinality(Candidates(i) \ job[Scheduler].ids) >= EnabledRetains[i]
        BY <2>1, <2>4, <3>6 DEF Spares
      <4>2. Candidates(i)' = Candidates(i) \ {id}
        BY <1>0, <3>3, PrunedCandidates DEF TypeOK
      <4>3. Candidates(i)' \ job'[Scheduler].ids = Candidates(i) \ job[Scheduler].ids
        BY <3>2, <3>4, <4>2
      <4> QED BY <3>4, <4>1, <4>2, <4>3
    <3>7. Spares'
      BY <2>1, <2>2, <3>6 DEF Spares
    <3> QED BY <3>5, <3>7
  <2> QED BY <2>3, <2>4
<1>6. CASE pc[Scheduler] \in Retaining /\ Logged(Scheduler)
  <2>1. UNCHANGED <<snaps, schedules, quiet>>
    BY <1>6 DEF Logged, ghosts
  <2>2. /\ job'[Scheduler].retains = job[Scheduler].retains
        /\ pc'[Scheduler] = "prune" =>
              /\ pc[Scheduler] = "prune" /\ job[Scheduler].ids # {}
              /\ job'[Scheduler].ids \subseteq job[Scheduler].ids
    BY <1>0, <1>6 DEF Logged, At, Go, Retaining, JobFields
  <2>3. EnabledRetains' = EnabledRetains /\ \A i \in Instances : Candidates(i)' = Candidates(i)
    BY <2>1, SameCandidates
  <2>4. Knows'
    BY <1>6, <2>1, <2>2, <2>3 DEF Knows
  <2>5. ASSUME quiet, pc'[Scheduler] = "prune"
        PROVE  \E i \in Instances :
                  /\ job'[Scheduler].ids \subseteq Candidates(i)
                  /\ Cardinality(Candidates(i) \ job'[Scheduler].ids) >= EnabledRetains[i]
    <3>1. PICK i \in Instances :
              /\ job[Scheduler].ids \subseteq Candidates(i)
              /\ Cardinality(Candidates(i) \ job[Scheduler].ids) >= EnabledRetains[i]
      BY <2>2, <2>5 DEF Spares
    <3>2. EnabledRetains[i] \in Nat /\ Candidates(i) \subseteq Ids
      BY <1>0, RetainNat, CandidatesIds
    <3>3. PICK S \in SUBSET Ids : S = Candidates(i) \ job'[Scheduler].ids
      BY <3>2
    <3>4. PICK T \in SUBSET S : T = Candidates(i) \ job[Scheduler].ids
      BY <2>2, <2>5, <3>3
    <3>5. Cardinality(S) >= EnabledRetains[i]
      BY <3>1, <3>2, <3>3, <3>4, MoreIds
    <3> QED BY <2>2, <2>5, <3>1, <3>3, <3>5
  <2>6. Spares'
    BY <2>1, <2>3, <2>5 DEF Spares
  <2> QED BY <2>4, <2>6
<1> QED BY <1>1, <1>2, <1>3, <1>4, <1>5, <1>6 DEF RetentionStep

\* A pass nobody interferes with knows the retain counts and spares as many.
LEMMA RetentionKept ==
    ASSUME IInv, Knows, Spares, Next
    PROVE  Knows' /\ Spares'
<1>1. ASSUME NEW t \in Threads, Turn(t), Undisturbed, Elsewhere(t) PROVE Knows' /\ Spares'
  <2>1. CASE t = Scheduler
    BY <1>1, <2>1 DEF Elsewhere, Knows, Spares, Retaining
  <2>2. CASE t # Scheduler
    BY <1>1, <2>2, SchedulerThread, LeftAlone DEF Turn, Waits
  <2> QED BY <2>1, <2>2
<1>2. CASE RetentionStep
  BY <1>2, RetentionKeeps
<1>3. CASE WorldTurn
  BY <1>3, SchedulerThread, LeftAlone DEF WorldTurn, Waits
<1>4. CASE Restart
  <2>1. pc'[Scheduler] = "idle"
    BY <1>4, SchedulerThread DEF Restart
  <2> QED BY <2>1 DEF Knows, Spares, Retaining
<1> QED BY <1>1, <1>2, <1>3, <1>4, NextTurn

\* Events are counted.
LEMMA EventsCounted == ASSUME events \in Nat, Next PROVE events' \in Nat
<1>1. Event => events' \in Nat
  BY DEF Event
<1>2. ASSUME NEW u \in Users, Begin(u) PROVE Event
  BY <1>2 DEF Begin, BeginTake, BeginUpload, BeginRestore, BeginDownload, BeginUpdate, BeginDelete,
              BeginPutSchedule, Request
<1>3. ASSUME NEW t \in Threads, Step(t) PROVE events' = events
  BY <1>3 DEF Step, FetchInstance, Read, Store, ReadBack, Open, Mark, Target, Send, Update, Delete,
              PutSchedule
<1>4. ASSUME NEW t \in Threads, Fail(t) \/ Logged(t) PROVE Event
  BY <1>4 DEF Fail, Logged
<1>5. CASE Pass
  BY <1>5 DEF Pass, TickListed, RunDue, RecordRun, ListRetains, ListInstances, ListCandidates,
              Retained, Prune, Sweep, Verify
<1>6. CASE Unlisted
  BY <1>1, <1>6 DEF Unlisted
<1>7. CASE Environment
  BY <1>1, <1>7 DEF Environment, Tamper, ChangeConfig, DeleteInstance, Restart
<1> QED BY <1>1, <1>2, <1>3, <1>4, <1>5, <1>6, <1>7 DEF Next

LEMMA InitActInv == Init => ActInv
<1> SUFFICES ASSUME Init PROVE ActInv
  OBVIOUS
<1>1. \A t \in Threads : pc[t] = "idle" /\ job[t].comps = Omitted
  BY NoJobFields DEF Init
<1>2. events \in Nat
  BY DEF Init
<1> QED BY <1>1, <1>2, SchedulerThread DEF ActInv, Chosen, Concluded, Knows, Spares, Retaining

LEMMA NextActInv == IInv /\ ActInv /\ [Next]_vars => ActInv'
<1> SUFFICES ASSUME IInv, ActInv, [Next]_vars PROVE ActInv'
  OBVIOUS
<1>1. CASE UNCHANGED vars
  BY <1>1
     DEF vars, ActInv, Chosen, Concluded, Verdict, Knows, Spares, EnabledRetains, Candidates, Of
<1>2. CASE Next
  BY <1>2, ChosenKept, ConcludedKept, RetentionKept, EventsCounted DEF ActInv
<1> QED BY <1>1, <1>2

\* The configuration of a gateway changes in two ways: a restore is sent, or
\* somebody else configures it.
LEMMA ConfigChanges ==
    ASSUME Next, config' # config
    PROVE  (\E t \in Threads : Send(t)) \/ pc' = pc
<1>1. ASSUME NEW u \in Users, Begin(u) PROVE config' = config
  BY <1>1 DEF Begin, BeginTake, BeginUpload, BeginRestore, BeginDownload, BeginUpdate, BeginDelete,
              BeginPutSchedule, Request
<1>2. ASSUME NEW t \in Threads, Step(t) PROVE config' = config \/ Send(t)
  BY <1>2 DEF Step, FetchInstance, Read, Store, ReadBack, Open, Mark, Target, Update, Delete,
              PutSchedule
<1>3. ASSUME NEW t \in Threads, Fail(t) \/ Logged(t) PROVE config' = config
  BY <1>3 DEF Fail, Logged
<1>4. CASE Pass \/ Unlisted
  BY <1>4 DEF Pass, Unlisted, TickListed, Tick, RunDue, RecordRun, ListRetains, Retain,
              ListInstances, ListCandidates, Retained, Prune, Sweep, Verify
<1>5. CASE Environment
  BY <1>5 DEF Environment, Tamper, ChangeConfig, DeleteInstance, Restart
<1> QED BY <1>1, <1>2, <1>3, <1>4, <1>5 DEF Next

\* The invariants on which the action properties rest.
THEOREM ActionInvariant == Spec => [](IInv /\ ActInv)
BY InitIInv, NextIInv, InitActInv, NextActInv, PTL DEF Spec

\* The one step that prunes.
LEMMA SpareStep ==
    ASSUME IInv, ActInv, Next, pc[Scheduler] = "prune", quiet,
           job'[Scheduler].ids # job[Scheduler].ids,
           NEW i \in Instances, Candidates(i)' # Candidates(i)
    PROVE  Cardinality(Candidates(i)') >= EnabledRetains[i]
<1>0. Scheduler \in Threads /\ TypeOK
  BY SchedulerThread DEF IInv, Data
<1>1. ~ Waits(Scheduler)
  <2>1. Typed(job[Scheduler])
    BY <1>0 DEF IInv, ThreadOK
  <2> QED BY <1>0, <2>1, SameFields DEF Waits
<1>2. RetentionStep \/ Restart
  BY <1>0, <1>1, NextTurn DEF Turn, Elsewhere, WorldTurn
<1>3. snaps' # snaps
  BY DEF Candidates, Of
<1>4. Prune /\ job[Scheduler].ids # {}
  BY <1>2, <1>3
     DEF RetentionStep, ListRetains, Retain, ListInstances, ListCandidates, Prune, Logged, Restart, At
<1>5. PICK id : id = Newest(job[Scheduler].ids)
  OBVIOUS
<1>6. id \in job[Scheduler].ids /\ snaps' = [snaps EXCEPT ![id] = None]
  BY <1>0, <1>4, <1>5, NewestOf DEF Prune
<1>7. \A o \in Instances : Candidates(o)' = Candidates(o) \ {id}
  BY <1>0, <1>6, PrunedCandidates DEF TypeOK
<1>8. PICK o \in Instances :
          /\ job[Scheduler].ids \subseteq Candidates(o)
          /\ Cardinality(Candidates(o) \ job[Scheduler].ids) >= EnabledRetains[o]
  BY <1>4 DEF ActInv, Spares
<1>9. o = i
  <2>1. id \in Candidates(i) /\ id \in Candidates(o)
    BY <1>6, <1>7, <1>8
  <2> QED BY <2>1 DEF Candidates, Of
<1>10. PICK S \in SUBSET Ids : S = Candidates(i) \ {id}
  BY CandidatesIds
<1>11. PICK T \in SUBSET S : T = Candidates(i) \ job[Scheduler].ids
  BY <1>6, <1>10
<1>12. EnabledRetains[i] \in Nat
  BY <1>0, RetainNat
<1> QED BY <1>7, <1>8, <1>9, <1>10, <1>11, <1>12, MoreIds

\* A retention pass of runRetention that nobody interferes with leaves every
\* instance it takes a snapshot from with as many as its schedule retains.
THEOREM RetentionsSpare == Spec => RetentionSpares
<1>1. ASSUME IInv, ActInv, [Next]_vars
      PROVE  [(At(Scheduler, "prune") /\ quiet /\ job'[Scheduler].ids # job[Scheduler].ids) =>
                 \A i \in Instances : Candidates(i)' # Candidates(i) =>
                     Cardinality(Candidates(i)') >= EnabledRetains[i]]_vars
  BY <1>1, SpareStep DEF At
<1> QED BY <1>1, ActionInvariant, PTL DEF Spec, RetentionSpares

\* The one step that restores.
LEMMA SelectionStep ==
    ASSUME IInv, ActInv, Next, NEW u \in Users, pc[u] = "send", pc'[u] # "send", config' # config
    PROVE  /\ job[u].mode = "commit"
           /\ \A i \in Instances, d \in Domains : config'[i][d] # config[i][d] =>
                 /\ i = job[u].inst
                 /\ job[u].comps # Omitted => d \in job[u].comps
<1>1. u \in Threads /\ TypeOK
  BY DEF Threads, IInv, Data
<1>2. PICK t \in Threads : Send(t)
  BY ConfigChanges
<1>3. t = u
  BY <1>1, <1>2 DEF Send, Go, TypeOK
<1>4. PICK k : k = job[u].inst
  OBVIOUS
<1>5. PICK S \in SUBSET (IF job[u].mode = "commit" THEN Selected(job[u].raw, job[u].comps) ELSE {}) :
          config' = [config EXCEPT ![k] =
                        [d \in Domains |-> IF d \in S THEN job[u].raw.cfg[d] ELSE @[d]]]
  <2>1. Send(u)
    BY <1>2, <1>3
  <2>2. \E S \in SUBSET (IF job[u].mode = "commit" THEN Selected(job[u].raw, job[u].comps) ELSE {}) :
           config' = [config EXCEPT ![job[u].inst] =
                         [d \in Domains |-> IF d \in S THEN job[u].raw.cfg[d] ELSE @[d]]]
    BY <2>1, Zenon DEF Send
  <2> QED BY <1>4, <2>2, Zenon
<1>6. config \in [Instances -> Configs] /\ k \in Instances
  BY <1>1, <1>4 DEF TypeOK, IInv, ThreadOK, Placed
<1>7. PICK new : new = [d \in Domains |-> IF d \in S THEN job[u].raw.cfg[d] ELSE config[k][d]]
  OBVIOUS
<1>8. config' = [config EXCEPT ![k] = new]
  BY <1>5, <1>6, <1>7
<1>9. ASSUME NEW i \in Instances, NEW d \in Domains, config'[i][d] # config[i][d]
      PROVE  i = k /\ d \in S
  BY <1>6, <1>7, <1>8, <1>9
<1>10. S # {}
  <2>1. SUFFICES ASSUME S = {} PROVE config' = config
    OBVIOUS
  <2>2. new = config[k]
    BY <1>6, <1>7, <2>1 DEF Configs
  <2> QED BY <1>6, <1>8, <2>2
<1>11. job[u].mode = "commit" /\ S \subseteq Selected(job[u].raw, job[u].comps)
  BY <1>5, <1>10
<1>12. job[u].comps # Omitted => job[u].comps # {}
  BY <1>1 DEF ActInv, Chosen
<1>13. job[u].comps # Omitted => S \subseteq job[u].comps
  BY <1>11, <1>12 DEF Selected
<1> QED BY <1>4, <1>9, <1>11, <1>13

\* RestoreSnapshot changes no instance but its target, no domain that is not
\* selected, and in a dry run nothing.
THEOREM SelectionsKept == Spec => SelectionKept
<1>1. ASSUME IInv, ActInv, [Next]_vars
      PROVE  [\A u \in Users : (At(u, "send") /\ pc'[u] # "send" /\ config' # config) =>
                 /\ job[u].mode = "commit"
                 /\ \A i \in Instances, d \in Domains : config'[i][d] # config[i][d] =>
                       /\ i = job[u].inst
                       /\ job[u].comps # Omitted => d \in job[u].comps]_vars
  BY <1>1, SelectionStep DEF At
<1> QED BY <1>1, ActionInvariant, PTL DEF Spec, SelectionKept

\* The two steps after which a row has been looked at.
LEMMA FlagStep ==
    ASSUME IInv, ActInv, Next, NEW t \in Threads, NEW row, row = snaps'[job[t].id],
           pc[t] \in {"open", "mark"}, pc'[t] \notin {"open", "mark"}, events' = events,
           pc[t] = "mark" => job[t].calm, row # None, Verdict(row) # "nokey"
    PROVE  row.ok <=> Verdict(row) = "ok"
<1>1. ~ Event
  BY DEF ActInv, Event
<1>2. ~ Waits(t)
  BY DEF Waits, Same
<1>3. Turn(t)
  BY <1>1, <1>2, NextTurn, SchedulerThread DEF Turn, WorldTurn, Restart
<1>4. Open(t) \/ Mark(t)
  BY <1>1, <1>3 DEF Turn
<1>5. CASE Open(t)
  <2>1. snaps' = snaps /\ pc'[t] # "mark"
    BY <1>5, OpenActs
  <2>2. Verdict(row) = "ok" /\ row.ok
    BY <1>5, <2>1, OpenActs
  <2> QED BY <2>2
<1>6. CASE Mark(t)
  <2>1. pc[t] = "mark" /\ job[t].id \in Ids
    BY <1>6, MarkActs, MarkedId
  <2>2. PICK old : old = snaps[job[t].id]
    OBVIOUS
  <2>3. old # None /\ row.blob = old.blob /\ row.sum = old.sum /\ (row.ok <=> job[t].flag)
    BY <1>6, <2>1, <2>2, MarkActs
  <2>4. job[t].flag <=> Verdict(old) = "ok"
    BY <2>1, <2>2, <2>3 DEF ActInv, Concluded
  <2>5. Verdict(row) = Verdict(old)
    BY <2>3 DEF Verdict
  <2> QED BY <2>3, <2>4, <2>5, Zenon
<1> QED BY <1>4, <1>5, <1>6

\* When GetSnapshotDocument has looked at a row, the row's flag says whether
\* the document verifies, unless the row was changed under the reader's hands.
THEOREM FlagsTruthful == Spec => FlagTruthful
<1>1. ASSUME IInv, ActInv, [Next]_vars
      PROVE  [\A t \in Threads :
                 LET row == snaps'[job[t].id] IN
                 (/\ pc[t] \in {"open", "mark"} /\ pc'[t] \notin {"open", "mark"}
                  /\ events' = events
                  /\ (pc[t] = "mark" => job[t].calm)
                  /\ row # None) =>
                     (Verdict(row) # "nokey" => (row.ok <=> Verdict(row) = "ok"))]_vars
  BY <1>1, FlagStep
<1> QED BY <1>1, ActionInvariant, PTL DEF Spec, FlagTruthful
=============================================================================
