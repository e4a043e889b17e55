--------------------------- MODULE InstancesProofs ---------------------------
(***************************************************************************)
(* Proofs about Instances, for any number of writers, callers, rows, hosts *)
(* and process starts.                                                     *)
(*                                                                         *)
(* Types: where a request is says what it works on (JobOK, CallOK).        *)
(*                                                                         *)
(* Names: while no two writers overlap one is at work (OneAtWork), so that *)
(* what it found before, a name that is free or a row to update, still     *)
(* holds when it writes (NotStale).                                        *)
(*                                                                         *)
(* Connections: a writer that ended a process has its host among those it  *)
(* touched until it invalidates the pool (Untouched, Covered), so that a   *)
(* connection to a process that is gone, idle or in use, is either one the *)
(* invalidation is still due for or one it went over (Fresh).  The proof   *)
(* is on the few shapes a step can have (Rest, WriterStep), not on the     *)
(* twenty actions.                                                         *)
(***************************************************************************)
EXTENDS Instances, TLAPS

-----------------------------------------------------------------------------
(* Types: where a request is says what it works on                         *)

\* What a writer may have been asked for.
Operations == {"none", "create", "update", "delete", "firmware", "startOnly", "stopOnly"}

\* The part of a row that a firmware request names.
Asked == [image : AnyImages, version : AnyVersions \cup {None}]

\* What a writer holds.
Job == [op : Operations, id : Ids \cup {0}, fields : Fields \cup Asked \cup {None}]

\* What a writer works on follows from where it is.
JobOK(w) ==
    /\ pc[w] \in {"checkName", "checkEndpoint"} =>
          /\ job[w].fields \in Fields
          /\ \/ job[w].op = "create" /\ job[w].id = 0
             \/ job[w].op = "update" /\ job[w].id \in Ids
    /\ pc[w] = "insert" =>
          job[w].op = "create" /\ job[w].id = 0 /\ job[w].fields \in Fields
    /\ pc[w] \in {"exists", "write"} =>
          job[w].op \in {"update", "firmware"} /\ job[w].id \in Ids /\ job[w].fields \in Fields
    /\ pc[w] = "delete" => job[w].op = "delete" /\ job[w].id \in Ids
    /\ pc[w] = "fetch" =>
          /\ job[w].op \in {"firmware", "startOnly", "stopOnly"}
          /\ job[w].id \in Ids /\ job[w].fields \in Asked
    /\ pc[w] \in {"stop", "remove", "pull", "run", "start"} =>
          /\ job[w].op \in {"firmware", "startOnly", "stopOnly"}
          /\ job[w].id \in Ids /\ job[w].fields \in Fields
    /\ pc[w] \in {"remove", "run"} => job[w].op = "firmware"

\* So does the host or the connection of a proxied request.
CallOK(c) ==
    /\ pc[c] = "connect" => target[c] \in Hosts
    /\ pc[c] \in {"sent", "answered"} => conn[c] \in Conn

\* The containers of the hosts.
DockerOK ==
    /\ box \in [Hosts -> Box \cup {None}]
    /\ starts \in [Hosts -> 0..MaxStarts]
    /\ touched \in [Writers -> SUBSET Hosts]

\* The connections of the proxy.
PoolOK ==
    /\ conn \in [Callers -> Conn \cup {None}]
    /\ target \in [Callers -> Hosts \cup {None}]
    /\ pool \subseteq Conn
    /\ closeIdle \in BOOLEAN

\* The requests.
RequestsOK ==
    /\ pc \in [Writers \cup Callers -> WriterPCs \cup CallerPCs]
    /\ job \in [Writers -> Job]
    /\ \A w \in Writers : pc[w] \in WriterPCs /\ JobOK(w)
    /\ \A c \in Callers : pc[c] \in CallerPCs /\ CallOK(c)

\* The inductive invariant of the types.
Typed ==
    /\ rows \in [Ids -> Fields \cup {None}]
    /\ DockerOK /\ PoolOK /\ RequestsOK
    /\ writes \in 0..MaxWrites /\ overlapped \in BOOLEAN

\* It is more than TypeOK says.
LEMMA TypedIsType == Typed => TypeOK
BY DEF Typed, TypeOK, DockerOK, PoolOK, RequestsOK, Job

\* The first state.
LEMMA InitTyped == Init => Typed
<1> SUFFICES ASSUME Init PROVE Typed
  OBVIOUS
<1>1. DockerOK
  <2>1. box \in [Hosts -> Box \cup {None}]
    BY FoundAssumption, AnyAssumption DEF Init, Box
  <2>2. starts \in [Hosts -> 0..MaxStarts]
    BY BoundsAssumption DEF Init
  <2>3. QED
    BY <2>1, <2>2 DEF Init, DockerOK
<1>2. RequestsOK
  <2>1. NoJob \in Job
    BY DEF NoJob, Job, Operations
  <2>2. /\ pc = [r \in Writers \cup Callers |-> "idle"] /\ "idle" \in WriterPCs
        /\ "idle" \in CallerPCs /\ job = [w \in Writers |-> NoJob]
    BY DEF Init, WriterPCs, CallerPCs
  <2>3. \A r \in Writers \cup Callers : pc[r] = "idle"
    BY <2>2
  <2>4. /\ \A w \in Writers : JobOK(w)
        /\ \A c \in Callers : CallOK(c)
    BY <2>3 DEF JobOK, CallOK
  <2>5. QED
    BY <2>1, <2>2, <2>3, <2>4 DEF RequestsOK
<1>3. PoolOK
  BY DEF Init, PoolOK
<1>4. rows \in [Ids -> Fields \cup {None}] /\ overlapped \in BOOLEAN
  BY DEF Init
<1>5. writes \in 0..MaxWrites
  BY BoundsAssumption DEF Init
<1>6. QED
  BY <1>1, <1>2, <1>3, <1>4, <1>5 DEF Typed

-----------------------------------------------------------------------------
\* A writer goes on, and no other request does.
LEMMA WriterMoves ==
    ASSUME RequestsOK, NEW w \in Writers, NEW l \in WriterPCs, Goto(w, l),
           job' \in [Writers -> Job], \A v \in Writers \ {w} : job'[v] = job[v],
           JobOK(w)',
           \A c \in Callers : target'[c] = target[c] /\ (conn[c] \in Conn => conn'[c] \in Conn)
    PROVE  RequestsOK'
<1>1. /\ pc' \in [Writers \cup Callers -> WriterPCs \cup CallerPCs]
      /\ pc'[w] = l /\ \A r \in (Writers \cup Callers) \ {w} : pc'[r] = pc[r]
  BY DEF RequestsOK, Goto
<1>2. \A v \in Writers : pc'[v] \in WriterPCs
  BY <1>1 DEF RequestsOK
<1>3. \A v \in Writers \ {w} : JobOK(v)'
  BY <1>1 DEF RequestsOK, JobOK
<1>4. \A c \in Callers : pc'[c] \in CallerPCs /\ CallOK(c)'
  BY <1>1, RequestsAssumption DEF RequestsOK, CallOK
<1>5. QED
  BY <1>1, <1>2, <1>3, <1>4 DEF RequestsOK

\* A writer that is done, or on its way to invalidate the pool, works on nothing.
LEMMA DoneTyped ==
    ASSUME Typed, NEW w \in Writers, Done(w), UNCHANGED <<conn, target>>
    PROVE  RequestsOK'
<1>1. NoJob \in Job
  BY DEF NoJob, Job, Operations
<1>2. job' \in [Writers -> Job] /\ \A v \in Writers \ {w} : job'[v] = job[v]
  BY <1>1 DEF Typed, RequestsOK, Done
<1>3. pc'[w] = "idle"
  BY DEF Typed, RequestsOK, Done, Goto
<1>4. QED
  BY <1>2, <1>3, WriterMoves DEF Typed, Done, JobOK, WriterPCs

\* A writer that leaves the pool to be invalidated.
LEMMA LeaveTyped ==
    ASSUME Typed, NEW w \in Writers, Leave(w), UNCHANGED <<conn, target>>
    PROVE  RequestsOK'
<1>1. pc'[w] = "invalidate"
  BY DEF Typed, RequestsOK, Leave, Goto
<1>2. job' \in [Writers -> Job] /\ \A v \in Writers \ {w} : job'[v] = job[v]
  BY DEF Typed, RequestsOK, Leave
<1>3. QED
  BY <1>1, <1>2, WriterMoves DEF Typed, Leave, JobOK, WriterPCs

\* A writer goes on with what it works on.
LEMMA GoesOnTyped ==
    ASSUME Typed, NEW w \in Writers, NEW l \in WriterPCs, Goto(w, l), UNCHANGED job,
           UNCHANGED <<conn, target>>,
           pc'[w] = l => JobOK(w)'
    PROVE  RequestsOK'
<1>1. pc'[w] = l
  BY DEF Typed, RequestsOK, Goto
<1>2. job' \in [Writers -> Job] /\ \A v \in Writers \ {w} : job'[v] = job[v]
  BY DEF Typed, RequestsOK
<1>3. QED
  BY <1>1, <1>2, WriterMoves DEF Typed

\* A writer takes up its work: the bounds and the marks of the properties.
LEMMA BeginTyped ==
    ASSUME Typed, NEW w \in Writers, NEW l \in WriterPCs, NEW j \in Job, Begin(w, l, j),
           UNCHANGED <<conn, target>>,
           pc'[w] = l /\ job'[w] = j => JobOK(w)'
    PROVE  RequestsOK' /\ writes' \in 0..MaxWrites /\ overlapped' \in BOOLEAN
<1>1. writes' \in 0..MaxWrites
  BY BoundsAssumption DEF Typed, Begin
<1>2. overlapped' \in BOOLEAN
  BY DEF Begin
<1>3. pc'[w] = l /\ job'[w] = j /\ Goto(w, l)
  BY DEF Typed, RequestsOK, Begin, Goto
<1>4. job' \in [Writers -> Job] /\ \A v \in Writers \ {w} : job'[v] = job[v]
  BY DEF Typed, RequestsOK, Begin
<1>5. RequestsOK'
  BY <1>3, <1>4, WriterMoves DEF Typed
<1>6. QED
  BY <1>1, <1>2, <1>5

\* The parts of the state a step leaves alone keep their types.
LEMMA TypedFromParts ==
    ASSUME Typed, RequestsOK', rows' \in [Ids -> Fields \cup {None}],
           UNCHANGED dockervars \/ DockerOK', UNCHANGED poolvars \/ PoolOK',
           UNCHANGED <<writes, overlapped>> \/ (writes' \in 0..MaxWrites /\ overlapped' \in BOOLEAN)
    PROVE  Typed'
<1>1. DockerOK'
  BY DEF Typed, DockerOK, dockervars
<1>2. PoolOK'
  BY DEF Typed, PoolOK, poolvars
<1>3. QED
  BY <1>1, <1>2 DEF Typed

\* What passes validation can be stored.
LEMMA ValidFields ==
    ASSUME NEW f \in Inputs, Valid(Normalize(f))
    PROVE  Normalize(f) \in Fields
<1>1. /\ Normalize(f).name \in Names /\ Normalize(f).host \in Hosts
      /\ Normalize(f).version \in AnyVersions /\ Normalize(f).image \in AnyImages
  BY AnyAssumption DEF Valid, ValidAddress
<1>2. \E x, y, z, u : f = [name |-> x, host |-> y, version |-> z, image |-> u]
  BY DEF Inputs
<1>3. PICK x, y, z, u : f = [name |-> x, host |-> y, version |-> z, image |-> u]
  BY <1>2
<1>4. \E v : Normalize(f) = [name |-> x, host |-> y, version |-> v, image |-> u]
  <2>1. PICK v : v = IF f.version \in {None, ""} THEN "v1" ELSE f.version
    OBVIOUS
  <2>2. Normalize(f) = [f EXCEPT !.version = v]
    BY <2>1, Zenon DEF Normalize
  <2> QED BY <1>3, <2>2
<1>5. QED
  BY <1>1, <1>4 DEF Fields

\* The steps that read and write rows.
LEMMA RowsTyped ==
    ASSUME Typed, NEW w \in Writers
    PROVE  /\ (Submit(w) \/ Refuse(w) \/ CheckName(w) \/ CheckEndpoint(w)) => Typed'
           /\ (Insert(w) \/ Exists(w) \/ Write(w)) => Typed'
           /\ (BeginDelete(w) \/ Delete(w) \/ DbFails(w) \/ Invalidate(w)) => Typed'
<1>0. /\ rows \in [Ids -> Fields \cup {None}] /\ pc[w] \in WriterPCs /\ JobOK(w) /\ RequestsOK
      /\ pc \in [Writers \cup Callers -> WriterPCs \cup CallerPCs]
  BY DEF Typed, RequestsOK
<1>1. ASSUME Submit(w) PROVE Typed'
  <2>1. PICK f \in Inputs, id \in Ids \cup {0} :
          /\ Valid(Normalize(f))
          /\ Begin(w, "checkName", [op |-> IF id = 0 THEN "create" ELSE "update",
                                    id |-> id, fields |-> Normalize(f)])
    BY <1>1 DEF Submit
  <2>2. PICK j : j = [op |-> IF id = 0 THEN "create" ELSE "update", id |-> id,
                      fields |-> Normalize(f)]
    OBVIOUS
  <2>3. Normalize(f) \in Fields
    BY <2>1, ValidFields
  <2>4. j \in Job /\ j.fields \in Fields /\ \/ j.op = "create" /\ j.id = 0
                                            \/ j.op = "update" /\ j.id \in Ids
    BY <2>2, <2>3 DEF Job, Operations
  <2>5. Begin(w, "checkName", j) /\ UNCHANGED <<rows, conn, target>>
    BY <1>1, <2>1, <2>2 DEF Submit, dbvars, poolvars
  <2>6. pc'[w] = "checkName" /\ job'[w] = j => JobOK(w)'
    BY <2>4 DEF JobOK
  <2>7. RequestsOK' /\ writes' \in 0..MaxWrites /\ overlapped' \in BOOLEAN
    BY <2>4, <2>5, <2>6, BeginTyped DEF WriterPCs
  <2>8. QED
    BY <1>0, <1>1, <2>5, <2>7, TypedFromParts DEF Submit
<1>2. ASSUME Refuse(w) PROVE Typed'
  BY <1>0, <1>2, TypedFromParts DEF Refuse, vars, dockervars, poolvars, RequestsOK, JobOK, CallOK
<1>3. ASSUME CheckName(w) PROVE Typed'
  <2>1. /\ UNCHANGED <<rows, conn, target, writes, overlapped>>
        /\ UNCHANGED dockervars /\ UNCHANGED poolvars
    BY <1>3 DEF CheckName, dbvars, poolvars
  <2>2. ASSUME Goto(w, "checkEndpoint"), UNCHANGED job PROVE RequestsOK'
    BY <1>0, <1>3, <2>1, <2>2, GoesOnTyped DEF CheckName, JobOK, WriterPCs
  <2>3. RequestsOK'
    BY <1>3, <2>1, <2>2, DoneTyped DEF CheckName
  <2>4. QED
    BY <1>0, <2>1, <2>3, TypedFromParts
<1>4. ASSUME CheckEndpoint(w) PROVE Typed'
  <2>1. /\ UNCHANGED <<rows, conn, target, writes, overlapped>>
        /\ UNCHANGED dockervars /\ UNCHANGED poolvars
    BY <1>4 DEF CheckEndpoint, dbvars, poolvars
  <2>2. ASSUME UNCHANGED job, job[w].op = "create", Goto(w, "insert") PROVE RequestsOK'
    BY <1>0, <1>4, <2>1, <2>2, GoesOnTyped DEF CheckEndpoint, JobOK, WriterPCs
  <2>3. ASSUME UNCHANGED job, job[w].op # "create", Goto(w, "exists") PROVE RequestsOK'
    BY <1>0, <1>4, <2>1, <2>3, GoesOnTyped DEF CheckEndpoint, JobOK, WriterPCs
  <2>4. RequestsOK'
    BY <1>4, <2>1, <2>2, <2>3, DoneTyped DEF CheckEndpoint
  <2>5. QED
    BY <1>0, <2>1, <2>4, TypedFromParts
<1>5. ASSUME Insert(w) PROVE Typed'
  <2>1. /\ UNCHANGED <<conn, target, writes, overlapped>>
        /\ UNCHANGED dockervars /\ UNCHANGED poolvars
    BY <1>5 DEF Insert, poolvars
  <2>2. rows' \in [Ids -> Fields \cup {None}]
    BY <1>0, <1>5 DEF Insert, JobOK
  <2>3. RequestsOK'
    BY <1>5, <2>1, DoneTyped DEF Insert
  <2>4. QED
    BY <2>1, <2>2, <2>3, TypedFromParts
<1>6. ASSUME Exists(w) PROVE Typed'
  <2>1. /\ UNCHANGED <<rows, conn, target, writes, overlapped>>
        /\ UNCHANGED dockervars /\ UNCHANGED poolvars
    BY <1>6 DEF Exists, dbvars, poolvars
  <2>2. ASSUME UNCHANGED job, Goto(w, "write") PROVE RequestsOK'
    BY <1>0, <1>6, <2>1, <2>2, GoesOnTyped DEF Exists, JobOK, WriterPCs
  <2>3. RequestsOK'
    BY <1>6, <2>1, <2>2, DoneTyped, LeaveTyped DEF Exists, Leave
  <2>4. QED
    BY <1>0, <2>1, <2>3, TypedFromParts
<1>7. ASSUME Write(w) PROVE Typed'
  <2>1. /\ UNCHANGED <<conn, target, writes, overlapped>>
        /\ UNCHANGED dockervars /\ UNCHANGED poolvars
    BY <1>7 DEF Write, poolvars
  <2>2. rows' \in [Ids -> Fields \cup {None}]
    BY <1>0, <1>7 DEF Write, JobOK
  <2>3. RequestsOK'
    BY <1>7, <2>1, DoneTyped, LeaveTyped DEF Write, Leave
  <2>4. QED
    BY <2>1, <2>2, <2>3, TypedFromParts
<1>8. ASSUME BeginDelete(w) PROVE Typed'
  <2>1. PICK id \in Ids : Begin(w, "delete", [op |-> "delete", id |-> id, fields |-> None])
    BY <1>8 DEF BeginDelete
  <2>2. PICK j : j = [op |-> "delete", id |-> id, fields |-> None]
    OBVIOUS
  <2>3. j \in Job /\ j.op = "delete" /\ j.id \in Ids
    BY <2>2 DEF Job, Operations
  <2>4. Begin(w, "delete", j) /\ UNCHANGED <<rows, conn, target>>
    BY <1>8, <2>1, <2>2 DEF BeginDelete, dbvars, poolvars
  <2>5. pc'[w] = "delete" /\ job'[w] = j => JobOK(w)'
    BY <2>3 DEF JobOK
  <2>6. RequestsOK' /\ writes' \in 0..MaxWrites /\ overlapped' \in BOOLEAN
    BY <2>3, <2>4, <2>5, BeginTyped DEF WriterPCs
  <2>7. QED
    BY <1>0, <1>8, <2>4, <2>6, TypedFromParts DEF BeginDelete
<1>9. ASSUME Delete(w) PROVE Typed'
  <2>1. /\ UNCHANGED <<conn, target, writes, overlapped>>
        /\ UNCHANGED dockervars /\ UNCHANGED poolvars
    BY <1>9 DEF Delete, poolvars
  <2>2. rows' \in [Ids -> Fields \cup {None}]
    BY <1>0, <1>9 DEF Delete
  <2>3. RequestsOK'
    BY <1>9, <2>1, LeaveTyped DEF Delete, Leave
  <2>4. QED
    BY <2>1, <2>2, <2>3, TypedFromParts
<1>10. ASSUME DbFails(w) PROVE Typed'
  <2>1. /\ UNCHANGED <<rows, conn, target, writes, overlapped>>
        /\ UNCHANGED dockervars /\ UNCHANGED poolvars
    BY <1>10 DEF DbFails, dbvars, poolvars
  <2>2. RequestsOK'
    BY <1>10, <2>1, DoneTyped, LeaveTyped DEF DbFails
  <2>3. QED
    BY <1>0, <2>1, <2>2, TypedFromParts
<1>11. ASSUME Invalidate(w) PROVE Typed'
  <2>1. UNCHANGED <<rows, box, starts, target, writes, overlapped>> /\ Done(w)
    BY <1>11 DEF Invalidate, dbvars
  <2>2. \A k \in Conn : [k EXCEPT !.spanned = TRUE] \in Conn
    BY DEF Conn
  <2>3. \A c \in Callers : conn[c] \in Conn => conn'[c] \in Conn
    BY <1>11, <2>2 DEF Invalidate
  <2>4. PoolOK'
    BY <1>11, <2>1, <2>2 DEF Invalidate, Typed, PoolOK
  <2>5. DockerOK'
    BY <1>11, <2>1 DEF Invalidate, Typed, DockerOK
  <2>6. RequestsOK'
    <3>1. NoJob \in Job
      BY DEF NoJob, Job, Operations
    <3>2. job' \in [Writers -> Job] /\ \A v \in Writers \ {w} : job'[v] = job[v]
      BY <1>0, <2>1, <3>1 DEF RequestsOK, Done
    <3>3. Goto(w, "idle") /\ pc'[w] = "idle"
      BY <1>0, <2>1 DEF Done, Goto
    <3>4. JobOK(w)'
      BY <3>3 DEF JobOK
    <3>5. QED
      BY <1>0, <2>1, <2>3, <3>2, <3>3, <3>4, WriterMoves DEF WriterPCs
  <2>7. QED
    BY <1>0, <2>1, <2>4, <2>5, <2>6, TypedFromParts
<1>12. QED
  BY <1>1, <1>2, <1>3, <1>4, <1>5, <1>6, <1>7, <1>8, <1>9, <1>10, <1>11

\* A call to Docker moves the writer on or makes it leave; its effect, if any,
\* is on the host of the row.
LEMMA DockerTyped ==
    ASSUME Typed, NEW w \in Writers, NEW l \in WriterPCs,
           \/ Goto(w, l) /\ UNCHANGED job
           \/ Leave(w),
           UNCHANGED <<rows, writes, overlapped>>, UNCHANGED poolvars, UNCHANGED dockervars \/ DockerOK',
           pc'[w] = l /\ UNCHANGED job => JobOK(w)'
    PROVE  Typed'
<1>1. rows' \in [Ids -> Fields \cup {None}] /\ UNCHANGED <<conn, target>>
  BY DEF Typed, poolvars
<1>2. RequestsOK'
  BY <1>1, GoesOnTyped, LeaveTyped
<1>3. QED
  BY <1>1, <1>2, TypedFromParts

\* A container that is stopped or started is the same container.
LEMMA BoxSwitched ==
    ASSUME DockerOK, NEW h \in Hosts, NEW b \in BOOLEAN, box[h] # None,
           box' = [box EXCEPT ![h].up = b]
    PROVE  box' \in [Hosts -> Box \cup {None}]
<1>1. box[h] \in Box
  BY DEF DockerOK
<1>2. PICK new : new = [box[h] EXCEPT !.up = b]
  OBVIOUS
<1>3. new \in Box
  BY <1>1, <1>2 DEF Box
<1>4. box' = [box EXCEPT ![h] = new]
  BY <1>2
<1>5. QED
  BY <1>3, <1>4 DEF DockerOK

\* The steps of a firmware update.
LEMMA FirmwareTyped ==
    ASSUME Typed, NEW w \in Writers
    PROVE  /\ (BeginFirmware(w) \/ Fetch(w) \/ StopContainer(w) \/ RemoveContainer(w)) => Typed'
           /\ (PullImage(w) \/ RunContainer(w) \/ StartContainer(w)) => Typed'
<1>0. /\ rows \in [Ids -> Fields \cup {None}] /\ pc[w] \in WriterPCs /\ JobOK(w) /\ RequestsOK
      /\ pc \in [Writers \cup Callers -> WriterPCs \cup CallerPCs] /\ DockerOK
      /\ job \in [Writers -> Job]
  BY DEF Typed, RequestsOK
<1>1. ASSUME BeginFirmware(w) PROVE Typed'
  <2>1. PICK id \in Ids, op \in {"firmware", "startOnly", "stopOnly"}, image \in AnyImages,
             v \in AnyVersions \cup {None} :
          Begin(w, "fetch", [op |-> op, id |-> id, fields |-> [image |-> image, version |-> v]])
    BY <1>1 DEF BeginFirmware
  <2>2. PICK j : j = [op |-> op, id |-> id, fields |-> [image |-> image, version |-> v]]
    OBVIOUS
  <2>3. j \in Job /\ j.op = op /\ j.id \in Ids /\ j.fields \in Asked
    BY <2>2 DEF Job, Operations, Asked
  <2>4. Begin(w, "fetch", j) /\ UNCHANGED <<rows, conn, target>>
    BY <1>1, <2>1, <2>2 DEF BeginFirmware, dbvars, poolvars
  <2>5. pc'[w] = "fetch" /\ job'[w] = j => JobOK(w)'
    BY <2>3 DEF JobOK
  <2>6. RequestsOK' /\ writes' \in 0..MaxWrites /\ overlapped' \in BOOLEAN
    BY <2>3, <2>4, <2>5, BeginTyped DEF WriterPCs
  <2>7. QED
    BY <1>0, <1>1, <2>4, <2>6, TypedFromParts DEF BeginFirmware
<1>2. ASSUME Fetch(w) PROVE Typed'
  <2>1. /\ UNCHANGED <<rows, conn, target, writes, overlapped>>
        /\ UNCHANGED dockervars /\ UNCHANGED poolvars
    BY <1>2 DEF Fetch, dbvars, poolvars
  <2>2. ASSUME rows[job[w].id] # None PROVE RequestsOK'
    <3>1. PICK row \in Fields : row = rows[job[w].id]
      BY <1>0, <1>2, <2>2 DEF Fetch, JobOK
    <3>2. PICK asked \in Asked : asked = job[w].fields
      BY <1>0, <1>2 DEF Fetch, JobOK
    <3>3. PICK new : new = IF job[w].op = "firmware"
                           THEN [row EXCEPT !.image = asked.image,
                                    !.version = IF asked.version = None THEN @ ELSE asked.version]
                           ELSE row
      OBVIOUS
    <3>4. new \in Fields
      BY <3>1, <3>2, <3>3 DEF Fields, Asked
    <3>5. job' = [job EXCEPT ![w].fields = new] /\ Goto(w, FirstCall(job[w].op))
      BY <1>2, <2>2, <3>1, <3>2, <3>3 DEF Fetch
    <3>6. /\ job' \in [Writers -> Job] /\ \A v \in Writers \ {w} : job'[v] = job[v]
          /\ job'[w].fields = new /\ job'[w].op = job[w].op /\ job'[w].id = job[w].id
      BY <1>0, <3>4, <3>5 DEF Job
    <3>7. FirstCall(job[w].op) \in {"stop", "pull"}
      BY DEF FirstCall
    <3>8. pc'[w] \in {"stop", "pull"}
      BY <1>0, <3>5, <3>7 DEF Goto
    <3>9. JobOK(w)'
      BY <1>0, <1>2, <3>4, <3>6, <3>8 DEF Fetch, JobOK
    <3>10. QED
      BY <1>0, <2>1, <3>5, <3>6, <3>7, <3>9, WriterMoves DEF WriterPCs
  <2>3. RequestsOK'
    BY <1>2, <2>1, <2>2, DoneTyped DEF Fetch
  <2>4. QED
    BY <1>0, <2>1, <2>3, TypedFromParts
<1>3. ASSUME pc[w] \in {"stop", "remove", "run", "start"}
      PROVE  /\ Host(w) \in Hosts /\ job[w].fields \in Fields
             /\ job[w].op \in {"firmware", "startOnly", "stopOnly"} /\ job[w].id \in Ids
  BY <1>0, <1>3 DEF JobOK, Host, Fields
<1>4. ASSUME StopContainer(w) PROVE Typed'
  <2>1. PICK l : l = IF job[w].op = "firmware" THEN "remove" ELSE "invalidate"
    OBVIOUS
  <2>2. /\ \/ Goto(w, l) /\ UNCHANGED job
           \/ Leave(w)
        /\ \/ UNCHANGED dockervars
           \/ /\ Named(w) /\ box' = [box EXCEPT ![Host(w)].up = FALSE]
              /\ Touch(w) /\ UNCHANGED starts
        /\ UNCHANGED <<rows, writes, overlapped>> /\ UNCHANGED poolvars
    BY <1>4, <2>1 DEF StopContainer, Docker, dbvars
  <2>3. UNCHANGED dockervars \/ DockerOK'
    <3>1. ASSUME ~ UNCHANGED dockervars PROVE box' \in [Hosts -> Box \cup {None}]
      BY <1>0, <1>3, <1>4, <2>2, <3>1, BoxSwitched DEF StopContainer, Named
    <3>2. QED
      BY <1>0, <1>3, <1>4, <2>2, <3>1 DEF StopContainer, DockerOK, Touch
  <2>4. pc'[w] = l /\ UNCHANGED job => JobOK(w)'
    BY <1>3, <1>4, <2>1 DEF StopContainer, JobOK
  <2>5. l \in WriterPCs
    BY <2>1 DEF WriterPCs
  <2>6. QED
    BY <2>2, <2>3, <2>4, <2>5, DockerTyped
<1>5. ASSUME RemoveContainer(w) PROVE Typed'
  <2>1. /\ \/ Goto(w, "pull") /\ UNCHANGED job
           \/ Leave(w)
        /\ \/ UNCHANGED dockervars
           \/ /\ box' = [box EXCEPT ![Host(w)] = None]
              /\ Touch(w) /\ UNCHANGED starts
        /\ UNCHANGED <<rows, writes, overlapped>> /\ UNCHANGED poolvars
    BY <1>5 DEF RemoveContainer, Docker, dbvars
  <2>2. UNCHANGED dockervars \/ DockerOK'
    BY <1>0, <1>3, <1>5, <2>1 DEF RemoveContainer, DockerOK, Touch
  <2>3. pc'[w] = "pull" /\ UNCHANGED job => JobOK(w)'
    BY <1>0, <1>3, <1>5 DEF RemoveContainer, JobOK
  <2>4. QED
    BY <2>1, <2>2, <2>3, DockerTyped DEF WriterPCs
<1>6. ASSUME PullImage(w) PROVE Typed'
  <2>1. PICK l : l = IF job[w].op = "firmware" THEN "run" ELSE "start"
    OBVIOUS
  <2>2. /\ \/ Goto(w, l) /\ UNCHANGED job
           \/ Leave(w)
        /\ UNCHANGED <<rows, writes, overlapped>> /\ UNCHANGED poolvars /\ UNCHANGED dockervars
    BY <1>6, <2>1 DEF PullImage, dbvars
  <2>3. pc'[w] = l /\ UNCHANGED job => JobOK(w)'
    BY <1>0, <1>6, <2>1 DEF PullImage, JobOK
  <2>4. l \in WriterPCs
    BY <2>1 DEF WriterPCs
  <2>5. QED
    BY <2>2, <2>3, <2>4, DockerTyped
<1>7. ASSUME RunContainer(w) PROVE Typed'
  <2>1. /\ \/ Goto(w, "exists") /\ UNCHANGED job
           \/ Leave(w)
        /\ \/ UNCHANGED dockervars
           \/ /\ starts[Host(w)] < MaxStarts
              /\ box' = [box EXCEPT ![Host(w)] =
                            [name |-> job[w].fields.name, image |-> job[w].fields.image, up |-> TRUE]]
              /\ starts' = [starts EXCEPT ![Host(w)] = @ + 1]
              /\ Touch(w)
        /\ UNCHANGED <<rows, writes, overlapped>> /\ UNCHANGED poolvars
    BY <1>7 DEF RunContainer, Docker, dbvars
  <2>2. ASSUME ~ UNCHANGED dockervars PROVE DockerOK'
    <3>1. [name |-> job[w].fields.name, image |-> job[w].fields.image, up |-> TRUE] \in Box
      BY <1>3, <1>7 DEF RunContainer, Fields, Box
    <3>2. box' \in [Hosts -> Box \cup {None}]
      BY <1>0, <2>1, <2>2, <3>1 DEF DockerOK
    <3>3. starts' \in [Hosts -> 0..MaxStarts]
      BY <1>0, <1>3, <1>7, <2>1, <2>2, BoundsAssumption DEF RunContainer, DockerOK
    <3>4. QED
      BY <1>0, <1>3, <1>7, <2>1, <2>2, <3>2, <3>3 DEF RunContainer, DockerOK, Touch
  <2>3. pc'[w] = "exists" /\ UNCHANGED job => JobOK(w)'
    BY <1>0, <1>3, <1>7 DEF RunContainer, JobOK
  <2>4. QED
    BY <2>1, <2>2, <2>3, DockerTyped DEF WriterPCs
<1>8. ASSUME StartContainer(w) PROVE Typed'
  <2>1. /\ \/ Goto(w, "invalidate") /\ UNCHANGED job
           \/ Leave(w)
        /\ \/ UNCHANGED dockervars
           \/ /\ Named(w) /\ starts[Host(w)] < MaxStarts
              /\ box' = [box EXCEPT ![Host(w)].up = TRUE]
              /\ starts' = [starts EXCEPT ![Host(w)] = @ + 1]
              /\ Touch(w)
        /\ UNCHANGED <<rows, writes, overlapped>> /\ UNCHANGED poolvars
    BY <1>8 DEF StartContainer, Docker, dbvars
  <2>2. ASSUME ~ UNCHANGED dockervars PROVE DockerOK'
    <3>1. box' \in [Hosts -> Box \cup {None}]
      BY <1>0, <1>3, <1>8, <2>1, <2>2, BoxSwitched DEF StartContainer, Named
    <3>2. starts' \in [Hosts -> 0..MaxStarts]
      BY <1>0, <1>3, <1>8, <2>1, <2>2, BoundsAssumption DEF StartContainer, DockerOK
    <3>3. QED
      BY <1>0, <1>3, <1>8, <2>1, <2>2, <3>1, <3>2 DEF StartContainer, DockerOK, Touch
  <2>3. pc'[w] = "invalidate" /\ UNCHANGED job => JobOK(w)'
    BY DEF JobOK
  <2>4. QED
    BY <2>1, <2>2, <2>3, DockerTyped DEF WriterPCs
<1>9. QED
  BY <1>1, <1>2, <1>4, <1>5, <1>6, <1>7, <1>8

\* A proxied request goes on, and no other request does.
LEMMA CallerMoves ==
    ASSUME Typed, NEW c \in Callers, NEW l \in CallerPCs, Goto(c, l), UNCHANGED job,
           PoolOK', \A d \in Callers \ {c} : target'[d] = target[d] /\ conn'[d] = conn[d],
           pc'[c] = l => CallOK(c)',
           UNCHANGED <<rows, writes, overlapped>>, UNCHANGED dockervars
    PROVE  Typed'
<1>1. /\ pc' \in [Writers \cup Callers -> WriterPCs \cup CallerPCs]
      /\ pc'[c] = l /\ \A r \in (Writers \cup Callers) \ {c} : pc'[r] = pc[r]
  BY DEF Typed, RequestsOK, Goto
<1>2. \A w \in Writers : pc'[w] \in WriterPCs /\ JobOK(w)'
  BY <1>1, RequestsAssumption DEF Typed, RequestsOK, JobOK
<1>3. \A d \in Callers \ {c} : pc'[d] \in CallerPCs /\ CallOK(d)'
  BY <1>1 DEF Typed, RequestsOK, CallOK
<1>4. RequestsOK'
  BY <1>1, <1>2, <1>3 DEF Typed, RequestsOK
<1>5. QED
  BY <1>4, TypedFromParts DEF Typed

\* The steps of proxied requests.
LEMMA CallersTyped ==
    ASSUME Typed, NEW c \in Callers
    PROVE  (Lookup(c) \/ Connect(c) \/ GatewayAnswers(c) \/ DoFails(c) \/ ReadResponse(c)) => Typed'
<1>0. /\ rows \in [Ids -> Fields \cup {None}] /\ CallOK(c) /\ PoolOK /\ DockerOK
  BY DEF Typed, RequestsOK
<1>1. ASSUME Lookup(c) PROVE Typed'
  <2>1. PICK id \in Ids : rows[id] # None /\ target' = [target EXCEPT ![c] = rows[id].host]
    BY <1>1 DEF Lookup
  <2>2. rows[id].host \in Hosts
    BY <1>0, <2>1 DEF Fields
  <2>3. PoolOK' /\ CallOK(c)' /\ \A d \in Callers \ {c} : target'[d] = target[d] /\ conn'[d] = conn[d]
    <3>1. UNCHANGED <<conn, pool, closeIdle>> /\ target'[c] = rows[id].host
      BY <1>0, <1>1, <2>1 DEF Lookup, PoolOK
    <3>2. pc'[c] = "connect"
      BY <1>1 DEF Lookup, Goto, Typed, RequestsOK
    <3>3. QED
      BY <1>0, <2>1, <2>2, <3>1, <3>2 DEF PoolOK, CallOK
  <2>4. QED
    BY <1>1, <2>3, CallerMoves DEF Lookup, CallerPCs, dbvars
<1>2. ASSUME Connect(c) PROVE Typed'
  <2>1. /\ target[c] \in Hosts /\ UNCHANGED <<rows, job, writes, overlapped>>
        /\ UNCHANGED dockervars /\ closeIdle' = FALSE
    BY <1>0, <1>2 DEF Connect, CallOK, dbvars
  <2>2. ASSUME NEW k \in Conn, conn' = [conn EXCEPT ![c] = k], pool' \subseteq pool,
               Goto(c, "sent"), UNCHANGED target
        PROVE  Typed'
    <3>1. PoolOK' /\ CallOK(c)' /\ \A d \in Callers \ {c} : conn'[d] = conn[d]
      <4>1. pc'[c] = "sent"
        BY <2>2 DEF Goto, Typed, RequestsOK
      <4>2. QED
        BY <1>0, <2>1, <2>2, <4>1 DEF PoolOK, CallOK
    <3>2. QED
      BY <2>1, <2>2, <3>1, CallerMoves DEF CallerPCs
  <2>3. CASE \E k \in pool : /\ conn' = [conn EXCEPT ![c] = k] /\ pool' = pool \ {k}
                             /\ Goto(c, "sent") /\ UNCHANGED target
    BY <1>0, <2>2, <2>3 DEF PoolOK
  <2>4. CASE /\ conn' = [conn EXCEPT ![c] = [host |-> target[c], start |-> starts[target[c]],
                                             spanned |-> FALSE]]
             /\ Goto(c, "sent") /\ UNCHANGED <<pool, target>>
    <3>1. [host |-> target[c], start |-> starts[target[c]], spanned |-> FALSE] \in Conn
      BY <1>0, <2>1 DEF DockerOK, Conn
    <3>2. QED
      BY <2>2, <2>4, <3>1
  <2>5. CASE /\ Goto(c, "idle") /\ target' = [target EXCEPT ![c] = None]
             /\ UNCHANGED <<conn, pool>>
    <3>1. PoolOK' /\ CallOK(c)' /\ \A d \in Callers \ {c} : target'[d] = target[d]
      <4>1. pc'[c] = "idle"
        BY <2>5 DEF Goto, Typed, RequestsOK
      <4>2. QED
        BY <1>0, <2>1, <2>5, <4>1 DEF PoolOK, CallOK
    <3>2. QED
      BY <2>1, <2>5, <3>1, CallerMoves DEF CallerPCs
  <2>6. QED
    BY <1>2, <2>3, <2>4, <2>5 DEF Connect
<1>3. ASSUME GatewayAnswers(c) PROVE Typed'
  <2>1. pc'[c] = "answered"
    BY <1>3 DEF GatewayAnswers, Goto, Typed, RequestsOK
  <2>2. PoolOK' /\ CallOK(c)'
    BY <1>0, <1>3, <2>1 DEF GatewayAnswers, PoolOK, CallOK
  <2>3. QED
    BY <1>3, <2>2, CallerMoves DEF GatewayAnswers, CallerPCs, dbvars
<1>4. ASSUME NEW keep, Return(c, keep), pc[c] \in {"sent", "answered"} PROVE Typed'
  <2>1. pc'[c] = "idle" /\ conn[c] \in Conn
    BY <1>0, <1>4 DEF Return, Goto, Typed, RequestsOK, CallOK
  <2>2. PoolOK' /\ CallOK(c)' /\ \A d \in Callers \ {c} : target'[d] = target[d] /\ conn'[d] = conn[d]
    BY <1>0, <1>4, <2>1 DEF Return, PoolOK, CallOK
  <2>3. QED
    BY <1>4, <2>2, CallerMoves DEF Return, CallerPCs, dbvars
<1>5. QED
  BY <1>1, <1>2, <1>3, <1>4 DEF DoFails, ReadResponse

\* Every step keeps the types.
LEMMA TypedNext == Typed /\ [Next]_vars => Typed'
<1> SUFFICES ASSUME Typed, [Next]_vars PROVE Typed'
  OBVIOUS
<1>1. CASE UNCHANGED vars
  BY <1>1 DEF vars, Typed, DockerOK, PoolOK, RequestsOK, JobOK, CallOK
<1>2. QED
  BY <1>1, RowsTyped, FirmwareTyped, CallersTyped DEF Next

\* So the types hold always.
LEMMA AlwaysTyped == Spec => []Typed
BY InitTyped, TypedNext, PTL DEF Spec

\* Whatever requests interleave and whatever calls to Docker come to, rows,
\* containers and connections are well formed: above all, no request stores a
\* name or an address that would not pass validation (Validate, Normalize, and
\* the firmware update that merges the row it fetched with what it was asked
\* for).  Of versions and images it says nothing, as a firmware update takes
\* them as they come.
THEOREM InstancesTyped == Spec => []TypeOK
BY AlwaysTyped, TypedIsType, PTL

-----------------------------------------------------------------------------
(* What one step makes of the rows and of the writers                      *)

\* No container is touched ...
Quiet == UNCHANGED <<box, starts, touched>>

\* ... or one is, on the host of the row a writer works on ...
Hits(w) ==
    /\ pc[w] \in {"stop", "remove", "run", "start"}
    /\ Host(w) \in Hosts
    /\ touched' = [touched EXCEPT ![w] = @ \cup {Host(w)}]
    /\ \A h \in Hosts \ {Host(w)} : box'[h] = box[h] /\ starts'[h] = starts[h]
    /\ UNCHANGED <<conn, pool>>

\* ... or the pool is invalidated.
Wipes(w) ==
    /\ UNCHANGED <<box, starts>>
    /\ touched' = [touched EXCEPT ![w] = {}]
    /\ pool' = {}
    /\ \A c \in Callers : conn'[c] # None => conn[c] # None /\ conn'[c].spanned

\* A proxied request takes a connection from the pool, makes one that leads to
\* a process that runs, or lets go of its own.
Proxies(c) ==
    \/ \E k \in pool : conn' = [conn EXCEPT ![c] = k] /\ pool' \subseteq pool
    \/ \E k \in Conn : ~ Gone(k) /\ conn' = [conn EXCEPT ![c] = k] /\ UNCHANGED pool
    \/ /\ conn[c] # None /\ conn' = [conn EXCEPT ![c] = None]
       /\ pool' \subseteq pool \cup {conn[c]}

\* No writer does anything ...
Rest ==
    /\ UNCHANGED <<rows, job, overlapped>>
    /\ \A w \in Writers : pc'[w] = pc[w]
    /\ Quiet
    /\ UNCHANGED <<conn, pool>> \/ \E c \in Callers : Proxies(c)

\* ... or one does, and the others nothing:
Only(w) == \A v \in Writers \ {w} : pc'[v] = pc[v] /\ job'[v] = job[v]

\* it takes up its work ...
TakesUp(w) ==
    /\ Only(w) /\ UNCHANGED rows
    /\ pc[w] = "idle" /\ pc'[w] \in {"checkName", "delete", "fetch"}
    /\ overlapped' = (overlapped \/ \E v \in Writers \ {w} : pc[v] # "idle")
    /\ Quiet /\ UNCHANGED <<conn, pool>>

\* A writer that has begun does something.
AtWork(w) ==
    /\ Only(w) /\ pc[w] # "idle" /\ UNCHANGED overlapped
    /\ (Quiet /\ UNCHANGED <<conn, pool>>) \/ Hits(w) \/ (Wipes(w) /\ pc'[w] = "idle")

\* The writer has touched no container yet, and will not before it ends.
Clean(w) ==
    \/ pc[w] \in {"idle", "checkName", "checkEndpoint", "insert", "delete", "fetch"}
    \/ pc[w] \in {"exists", "write"} /\ job[w].op = "update"

\* ... ends without effect, or leaves the pool to be invalidated ...
Ends(w) ==
    /\ AtWork(w) /\ UNCHANGED rows /\ pc'[w] \in {"idle", "invalidate"}
    /\ pc'[w] = "idle" => Clean(w) \/ Wipes(w)

\* ... goes on: from one check to the next, with the row it fetched, from one
\* call to the next ...
GoesOn(w) ==
    /\ AtWork(w) /\ UNCHANGED rows
    /\ job'[w].op = job[w].op /\ job'[w].id = job[w].id
    /\ \/ /\ pc[w] = "checkName" /\ pc'[w] = "checkEndpoint" /\ job'[w] = job[w]
          /\ ~ NameTaken(job[w].fields, job[w].id)
       \/ /\ pc[w] = "checkEndpoint" /\ pc'[w] \in {"insert", "exists"} /\ job'[w] = job[w]
       \/ /\ pc[w] = "exists" /\ pc'[w] = "write" /\ job'[w] = job[w]
       \/ /\ pc[w] = "fetch" /\ pc'[w] \in {"stop", "pull"}
          /\ rows[job[w].id] # None
          /\ job'[w].fields.name = rows[job[w].id].name
          /\ job'[w].fields.host = rows[job[w].id].host
       \/ /\ pc[w] \in {"stop", "remove", "pull"} /\ pc'[w] \in {"remove", "pull", "run", "start"}
          /\ job'[w] = job[w]
       \/ /\ pc[w] = "run" /\ pc'[w] = "exists" /\ job'[w] = job[w]

\* ... or changes one row, and is done but for the pool.
Inserts(w) ==
    /\ AtWork(w) /\ pc[w] = "insert" /\ pc'[w] = "idle" /\ Quiet
    /\ \E i \in Ids : rows[i] = None /\ rows' = [rows EXCEPT ![i] = job[w].fields]

\* A row is written back ...
Overwrites(w) ==
    /\ AtWork(w) /\ pc[w] = "write" /\ pc'[w] = "invalidate"
    /\ rows[job[w].id] # None
    /\ rows' = [rows EXCEPT ![job[w].id] = job[w].fields]

\* ... or is deleted.
Removes(w) ==
    /\ AtWork(w) /\ pc[w] = "delete" /\ pc'[w] = "invalidate"
    /\ rows' = [rows EXCEPT ![job[w].id] = None]

\* All a writer can do.
WriterStep(w) ==
    TakesUp(w) \/ Ends(w) \/ GoesOn(w) \/ Inserts(w) \/ Overwrites(w) \/ Removes(w)

\* What Goto, Done, Begin and Leave make of the writers.
LEMMA GotoMoves ==
    ASSUME RequestsOK, NEW w \in Writers, NEW l, Goto(w, l)
    PROVE  pc'[w] = l /\ \A r \in (Writers \cup Callers) \ {w} : pc'[r] = pc[r]
BY DEF RequestsOK, Goto

\* The other writers stay where they are.
LEMMA DoneOnly ==
    ASSUME RequestsOK, NEW w \in Writers
    PROVE  /\ Done(w) => Only(w) /\ pc'[w] = "idle"
           /\ Leave(w) => Only(w) /\ pc'[w] = "invalidate"
           /\ \A l, j : Begin(w, l, j) => /\ Only(w) /\ pc'[w] = l
                                          /\ overlapped' = (overlapped \/ \E v \in Writers \ {w} : pc[v] # "idle")
           /\ \A l : Goto(w, l) /\ UNCHANGED job => Only(w) /\ pc'[w] = l
<1>1. job \in [Writers -> Job] /\ pc \in [Writers \cup Callers -> WriterPCs \cup CallerPCs]
  BY DEF RequestsOK
<1>2. QED
  BY <1>1 DEF Done, Leave, Begin, Goto, Only

\* The steps that call no Docker leave containers and connections alone.
LEMMA DatabaseQuiet ==
    ASSUME NEW w \in Writers,
           \/ Submit(w) \/ CheckName(w) \/ CheckEndpoint(w) \/ Insert(w) \/ Exists(w) \/ Write(w)
           \/ BeginDelete(w) \/ Delete(w) \/ DbFails(w) \/ BeginFirmware(w) \/ Fetch(w)
           \/ PullImage(w)
    PROVE  Quiet /\ UNCHANGED <<conn, pool>>
BY DEF Submit, CheckName, CheckEndpoint, Insert, Exists, Write, BeginDelete, Delete, DbFails,
       BeginFirmware, Fetch, PullImage, dockervars, poolvars, Quiet

\* The others touch the container on the host of the row, if any.
LEMMA DockerHits ==
    ASSUME Typed, NEW w \in Writers,
           StopContainer(w) \/ RemoveContainer(w) \/ RunContainer(w) \/ StartContainer(w)
    PROVE  (Quiet /\ UNCHANGED <<conn, pool>>) \/ Hits(w)
<1>0. DockerOK /\ JobOK(w)
  BY DEF Typed, RequestsOK
<1>1. pc[w] \in {"stop", "remove", "run", "start"} /\ UNCHANGED <<conn, pool>>
  BY DEF StopContainer, RemoveContainer, RunContainer, StartContainer, poolvars
<1>2. Host(w) \in Hosts
  BY <1>0, <1>1 DEF JobOK, Host, Fields
<1>3. \/ UNCHANGED dockervars
      \/ /\ Touch(w)
         /\ \E b : box' = [box EXCEPT ![Host(w)] = b]
         /\ UNCHANGED starts \/ \E n : starts' = [starts EXCEPT ![Host(w)] = n]
  BY DEF StopContainer, RemoveContainer, RunContainer, StartContainer, Docker
<1>4. QED
  BY <1>0, <1>1, <1>2, <1>3 DEF Hits, Quiet, dockervars, Touch, DockerOK

\* Every step has one of these shapes.
LEMMA WriterSteps ==
    ASSUME Typed, [Next]_vars
    PROVE  Rest \/ \E w \in Writers : WriterStep(w)
<1>0. /\ RequestsOK /\ pc \in [Writers \cup Callers -> WriterPCs \cup CallerPCs]
      /\ \A w \in Writers : JobOK(w)
  BY DEF Typed, RequestsOK
<1>1. ASSUME NEW w \in Writers, Submit(w) \/ BeginDelete(w) \/ BeginFirmware(w)
      PROVE  TakesUp(w)
  <2>1. \E l \in {"checkName", "delete", "fetch"} : \E j : Begin(w, l, j)
    BY <1>1 DEF Submit, BeginDelete, BeginFirmware
  <2>2. pc[w] = "idle" /\ UNCHANGED rows
    BY <1>1 DEF Submit, BeginDelete, BeginFirmware, dbvars
  <2>3. QED
    BY <1>0, <1>1, <2>1, <2>2, DoneOnly, DatabaseQuiet DEF TakesUp
<1>2. ASSUME NEW w \in Writers, Refuse(w) PROVE Rest
  BY <1>2 DEF Refuse, vars, Rest, Quiet
<1>3. ASSUME NEW w \in Writers, CheckName(w) PROVE Ends(w) \/ GoesOn(w)
  BY <1>0, <1>3, DoneOnly, DatabaseQuiet DEF CheckName, dbvars, Ends, GoesOn, AtWork, Clean
<1>4. ASSUME NEW w \in Writers, CheckEndpoint(w) PROVE Ends(w) \/ GoesOn(w)
  BY <1>0, <1>4, DoneOnly, DatabaseQuiet DEF CheckEndpoint, dbvars, Ends, GoesOn, AtWork, Clean
<1>5. ASSUME NEW w \in Writers, Insert(w) PROVE Ends(w) \/ Inserts(w)
  BY <1>0, <1>5, DoneOnly, DatabaseQuiet DEF Insert, Ends, Inserts, AtWork, Clean
<1>6. ASSUME NEW w \in Writers, Exists(w) PROVE Ends(w) \/ GoesOn(w)
  BY <1>0, <1>6, DoneOnly, DatabaseQuiet DEF Exists, dbvars, Ends, GoesOn, AtWork, Clean, JobOK
<1>7. ASSUME NEW w \in Writers, Write(w) PROVE Ends(w) \/ Overwrites(w)
  BY <1>0, <1>7, DoneOnly, DatabaseQuiet DEF Write, Ends, Overwrites, AtWork, Clean
<1>8. ASSUME NEW w \in Writers, Delete(w) PROVE Removes(w)
  BY <1>0, <1>8, DoneOnly, DatabaseQuiet DEF Delete, Removes, AtWork
<1>9. ASSUME NEW w \in Writers, DbFails(w) PROVE Ends(w)
  BY <1>0, <1>9, DoneOnly, DatabaseQuiet DEF DbFails, dbvars, Ends, AtWork, Clean, JobOK
<1>10. ASSUME NEW w \in Writers, Fetch(w) PROVE Ends(w) \/ GoesOn(w)
  <2>1. /\ pc[w] = "fetch" /\ UNCHANGED <<rows, overlapped>>
        /\ rows \in [Ids -> Fields \cup {None}] /\ job[w].id \in Ids /\ job[w].fields \in Asked
        /\ job[w] \in Job
    BY <1>10 DEF Fetch, dbvars, Typed, RequestsOK, JobOK
  <2>2. CASE rows[job[w].id] = None
    BY <1>0, <1>10, <2>1, <2>2, DoneOnly, DatabaseQuiet DEF Fetch, Ends, AtWork, Clean
  <2>3. CASE rows[job[w].id] # None
    <3>1. PICK row \in Fields : row = rows[job[w].id]
      BY <2>1, <2>3
    <3>2. PICK new : new = IF job[w].op = "firmware"
                           THEN [row EXCEPT !.image = job[w].fields.image,
                                    !.version = IF job[w].fields.version = None THEN @
                                                ELSE job[w].fields.version]
                           ELSE row
      OBVIOUS
    <3>3. new.name = row.name /\ new.host = row.host
      BY <3>1, <3>2 DEF Fields
    <3>4. job' = [job EXCEPT ![w].fields = new] /\ Goto(w, FirstCall(job[w].op))
      BY <1>10, <2>3, <3>1, <3>2 DEF Fetch
    <3>5. /\ \A v \in Writers \ {w} : job'[v] = job[v]
          /\ job'[w].fields = new /\ job'[w].op = job[w].op /\ job'[w].id = job[w].id
      BY <1>0, <2>1, <3>4 DEF RequestsOK, Job
    <3>6. pc'[w] \in {"stop", "pull"} /\ Only(w)
      BY <1>0, <3>4, <3>5, GotoMoves DEF FirstCall, Only
    <3>7. QED
      BY <1>10, <2>1, <2>3, <3>1, <3>3, <3>5, <3>6, DatabaseQuiet DEF GoesOn, AtWork
  <2>4. QED
    BY <2>2, <2>3
<1>11. ASSUME NEW w \in Writers, StopContainer(w) PROVE Ends(w) \/ GoesOn(w)
  BY <1>0, <1>11, DoneOnly, DockerHits DEF StopContainer, Docker, dbvars, Ends, GoesOn, AtWork, Clean
<1>12. ASSUME NEW w \in Writers, RemoveContainer(w) PROVE Ends(w) \/ GoesOn(w)
  BY <1>0, <1>12, DoneOnly, DockerHits DEF RemoveContainer, Docker, dbvars, Ends, GoesOn, AtWork, Clean
<1>13. ASSUME NEW w \in Writers, PullImage(w) PROVE Ends(w) \/ GoesOn(w)
  BY <1>0, <1>13, DoneOnly, DatabaseQuiet DEF PullImage, dbvars, Ends, GoesOn, AtWork, Clean
<1>14. ASSUME NEW w \in Writers, RunContainer(w) PROVE Ends(w) \/ GoesOn(w)
  BY <1>0, <1>14, DoneOnly, DockerHits DEF RunContainer, Docker, dbvars, Ends, GoesOn, AtWork, Clean
<1>15. ASSUME NEW w \in Writers, StartContainer(w) PROVE Ends(w)
  BY <1>0, <1>15, DoneOnly, DockerHits DEF StartContainer, Docker, dbvars, Ends, AtWork, Clean
<1>16. ASSUME NEW w \in Writers, Invalidate(w) PROVE Ends(w)
  <2>1. Done(w) /\ UNCHANGED <<rows, box, starts, overlapped>> /\ pc[w] # "idle"
    BY <1>16 DEF Invalidate, dbvars
  <2>2. \A c \in Callers : conn'[c] # None => conn[c] # None /\ conn'[c].spanned
    <3>1. \A k \in Conn : [k EXCEPT !.spanned = TRUE].spanned
      BY DEF Conn
    <3>2. \A c \in Callers : conn[c] # None => conn[c] \in Conn
      BY DEF Typed, PoolOK
    <3>3. QED
      BY <1>16, <3>1, <3>2 DEF Invalidate
  <2>3. Wipes(w)
    BY <1>16, <2>1, <2>2 DEF Invalidate, Wipes
  <2>4. QED
    BY <1>0, <2>1, <2>3, DoneOnly DEF Ends, AtWork
<1>17. ASSUME NEW c \in Callers, Lookup(c) \/ GatewayAnswers(c) PROVE Rest
  <2>1. UNCHANGED <<rows, job, overlapped, conn, pool>> /\ Quiet /\ \E l : Goto(c, l)
    BY <1>17 DEF Lookup, GatewayAnswers, dbvars, dockervars, Quiet
  <2>2. QED
    BY <1>0, <2>1, RequestsAssumption DEF Goto, Rest
<1>18. ASSUME NEW c \in Callers, Connect(c) PROVE Rest
  <2>1. UNCHANGED <<rows, job, overlapped>> /\ Quiet /\ \E l : Goto(c, l)
    BY <1>18 DEF Connect, dbvars, dockervars, Quiet
  <2>2. target[c] \in Hosts /\ DockerOK
    BY <1>18 DEF Connect, Typed, RequestsOK, CallOK
  <2>3. ASSUME Running(target[c]),
               conn' = [conn EXCEPT ![c] = [host |-> target[c], start |-> starts[target[c]],
                                            spanned |-> FALSE]]
        PROVE  \E k \in Conn : ~ Gone(k) /\ conn' = [conn EXCEPT ![c] = k]
    <3>1. PICK k : k = [host |-> target[c], start |-> starts[target[c]], spanned |-> FALSE]
      OBVIOUS
    <3>2. k \in Conn /\ ~ Gone(k)
      BY <2>2, <2>3, <3>1 DEF DockerOK, Conn, Gone
    <3>3. QED
      BY <2>3, <3>1, <3>2
  <2>4. UNCHANGED <<conn, pool>> \/ Proxies(c)
    BY <1>18, <2>3 DEF Connect, Proxies
  <2>5. QED
    BY <1>0, <2>1, <2>4, RequestsAssumption DEF Goto, Rest
<1>19. ASSUME NEW c \in Callers, DoFails(c) \/ ReadResponse(c) PROVE Rest
  <2>1. pc[c] \in {"sent", "answered"} /\ \E keep \in BOOLEAN : Return(c, keep)
    BY <1>19 DEF DoFails, ReadResponse
  <2>2. UNCHANGED <<rows, job, overlapped>> /\ Quiet /\ \E l : Goto(c, l)
    BY <2>1 DEF Return, dbvars, dockervars, Quiet
  <2>3. conn[c] # None
    BY <2>1, NoneAssumption DEF Typed, RequestsOK, CallOK
  <2>4. Proxies(c)
    BY <2>1, <2>3 DEF Return, Proxies
  <2>5. QED
    BY <1>0, <2>2, <2>4, RequestsAssumption DEF Goto, Rest
<1>20. ASSUME UNCHANGED vars PROVE Rest
  BY <1>20 DEF vars, Rest, Quiet
<1>21. QED
  BY <1>1, <1>2, <1>3, <1>4, <1>5, <1>6, <1>7, <1>8, <1>9, <1>10, <1>11, <1>12, <1>13,
     <1>14, <1>15, <1>16, <1>17, <1>18, <1>19, <1>20 DEF Next, WriterStep

-----------------------------------------------------------------------------
(* One name, one row, as long as requests do not overlap                   *)

\* One writer at a time is at work.
OneAtWork == ~ overlapped =>
    \A v, w \in Writers : pc[v] # "idle" /\ pc[w] # "idle" => v = w

\* The name that was found free is still free when the row is written ...
StillFree(w) ==
    \/ pc[w] \in {"checkEndpoint", "insert"}
    \/ pc[w] \in {"exists", "write"} /\ job[w].op = "update"
    => ~ NameTaken(job[w].fields, job[w].id)

\* ... and the row a firmware update has fetched still has its name and host.
StillThere(w) ==
    job[w].op = "firmware" /\ pc[w] \in {"stop", "remove", "pull", "run", "exists", "write"}
    => /\ rows[job[w].id] # None
       /\ rows[job[w].id].name = job[w].fields.name
       /\ rows[job[w].id].host = job[w].fields.host

\* Without overlap, nothing a writer found has changed.
NotStale == ~ overlapped => \A w \in Writers : StillFree(w) /\ StillThere(w)

\* A second writer is an overlap.
LEMMA OneAtWorkNext ==
    ASSUME OneAtWork, Rest \/ \E w \in Writers : WriterStep(w)
    PROVE  OneAtWork'
<1>1. CASE Rest
  BY <1>1 DEF Rest, OneAtWork
<1>2. ASSUME NEW w \in Writers, TakesUp(w) PROVE OneAtWork'
  BY <1>2 DEF TakesUp, Only, OneAtWork
<1>3. ASSUME NEW w \in Writers, AtWork(w) PROVE OneAtWork'
  BY <1>3 DEF AtWork, Only, OneAtWork
<1>4. QED
  BY <1>1, <1>2, <1>3 DEF WriterStep, Ends, GoesOn, Inserts, Overwrites, Removes

\* While one writer is at work, the others are idle.
LEMMA OthersIdle ==
    ASSUME OneAtWork, ~ overlapped', NEW w \in Writers, WriterStep(w)
    PROVE  ~ overlapped /\ Only(w) /\ \A v \in Writers \ {w} : pc'[v] = "idle"
<1>1. CASE TakesUp(w)
  BY <1>1 DEF TakesUp, Only
<1>2. CASE AtWork(w)
  BY <1>2 DEF AtWork, Only, OneAtWork
<1>3. QED
  BY <1>1, <1>2 DEF WriterStep, Ends, GoesOn, Inserts, Overwrites, Removes

\* The writer at work is the only one that could change what it found.
LEMMA NotStaleNext ==
    ASSUME Typed, OneAtWork, NotStale, Rest \/ \E w \in Writers : WriterStep(w)
    PROVE  NotStale'
<1> SUFFICES ASSUME ~ overlapped', NEW v \in Writers PROVE StillFree(v)' /\ StillThere(v)'
  BY DEF NotStale
<1>1. CASE Rest
  BY <1>1 DEF Rest, NotStale, StillFree, StillThere, NameTaken, Others
<1>2. ASSUME NEW w \in Writers, WriterStep(w), v # w PROVE StillFree(v)' /\ StillThere(v)'
  BY <1>2, OthersIdle DEF StillFree, StillThere
<1>3. ASSUME WriterStep(v) PROVE StillFree(v)' /\ StillThere(v)'
  <2>1. StillFree(v) /\ StillThere(v) /\ JobOK(v)
    BY <1>3, OthersIdle DEF NotStale, Typed, RequestsOK
  <2>2. CASE pc'[v] \in {"idle", "invalidate", "checkName", "delete", "fetch"}
    BY <2>2 DEF StillFree, StillThere
  <2>3. CASE GoesOn(v)
    <3>1. UNCHANGED rows /\ job'[v].op = job[v].op /\ job'[v].id = job[v].id
      BY <2>3 DEF GoesOn
    <3>2. CASE pc[v] = "checkName"
      BY <2>1, <2>3, <3>1, <3>2 DEF GoesOn, StillFree, StillThere, NameTaken, Others
    <3>3. CASE pc[v] = "checkEndpoint"
      BY <2>1, <2>3, <3>1, <3>3 DEF GoesOn, StillFree, StillThere, NameTaken, Others, JobOK
    <3>4. CASE pc[v] = "exists"
      BY <2>1, <2>3, <3>1, <3>4 DEF GoesOn, StillFree, StillThere, NameTaken, Others
    <3>5. CASE pc[v] = "fetch"
      BY <2>1, <2>3, <3>1, <3>5 DEF GoesOn, StillFree, StillThere
    <3>6. CASE pc[v] \in {"stop", "remove", "pull"}
      BY <2>1, <2>3, <3>1, <3>6 DEF GoesOn, StillFree, StillThere
    <3>7. CASE pc[v] = "run"
      BY <2>1, <2>3, <3>1, <3>7 DEF GoesOn, StillFree, StillThere, JobOK
    <3>8. QED
      BY <2>3, <3>2, <3>3, <3>4, <3>5, <3>6, <3>7 DEF GoesOn
  <2>4. QED
    BY <1>3, <2>2, <2>3 DEF WriterStep, TakesUp, Ends, Inserts, Overwrites, Removes
<1>4. QED
  BY <1>1, <1>2, <1>3

\* A row is written with a name that is free, or with the one it has.
LEMMA NamesNext ==
    ASSUME Typed, OneAtWork, NotStale, NamesUnique, Rest \/ \E w \in Writers : WriterStep(w)
    PROVE  NamesUnique'
<1> SUFFICES ASSUME ~ overlapped', NEW i \in Ids, NEW k \in Ids, i # k,
                    rows'[i] # None, rows'[k] # None
             PROVE  Fold[rows'[i].name] # Fold[rows'[k].name]
  BY DEF NamesUnique
<1>0. rows \in [Ids -> Fields \cup {None}]
  BY DEF Typed
<1>1. ~ overlapped
  BY OthersIdle DEF Rest
<1>2. ASSUME NEW a \in Ids, NEW b \in Ids, a # b, rows[a] # None, rows[b] # None
      PROVE  Fold[rows[a].name] # Fold[rows[b].name]
  BY <1>1, <1>2 DEF NamesUnique
<1>3. CASE UNCHANGED rows
  BY <1>2, <1>3
<1>4. ASSUME NEW w \in Writers, Inserts(w) PROVE Fold[rows'[i].name] # Fold[rows'[k].name]
  <2>1. PICK n \in Ids : rows[n] = None /\ rows' = [rows EXCEPT ![n] = job[w].fields]
    BY <1>4 DEF Inserts
  <2>2. job[w].id = 0 /\ ~ NameTaken(job[w].fields, 0)
    BY <1>1, <1>4 DEF Inserts, NotStale, StillFree, Typed, RequestsOK, JobOK
  <2>3. \A a \in Ids : rows[a] # None => Fold[rows[a].name] # Fold[job[w].fields.name]
    BY <2>2, IdsAssumption DEF NameTaken, Others
  <2>4. QED
    BY <1>0, <1>2, <2>1, <2>3
<1>5. ASSUME NEW w \in Writers, Overwrites(w) PROVE Fold[rows'[i].name] # Fold[rows'[k].name]
  <2>1. PICK n \in Ids : n = job[w].id
    BY <1>5 DEF Overwrites, Typed, RequestsOK, JobOK
  <2>2. rows[n] # None /\ rows' = [rows EXCEPT ![n] = job[w].fields]
    BY <1>5, <2>1 DEF Overwrites
  <2>3. \A a \in Ids \ {n} : rows[a] # None => Fold[rows[a].name] # Fold[job[w].fields.name]
    <3>1. StillFree(w) /\ StillThere(w) /\ job[w].op \in {"update", "firmware"}
      BY <1>1, <1>5 DEF Overwrites, NotStale, Typed, RequestsOK, JobOK
    <3>2. CASE job[w].op = "update"
      BY <1>5, <2>1, <3>1, <3>2 DEF Overwrites, StillFree, NameTaken, Others
    <3>3. CASE job[w].op = "firmware"
      <4>1. job[w].fields.name = rows[n].name
        BY <1>5, <2>1, <3>1, <3>3 DEF Overwrites, StillThere
      <4>2. QED
        BY <1>2, <2>2, <4>1
    <3>4. QED
      BY <3>1, <3>2, <3>3
  <2>4. QED
    BY <1>0, <1>2, <2>2, <2>3
<1>6. ASSUME NEW w \in Writers, Removes(w) PROVE Fold[rows'[i].name] # Fold[rows'[k].name]
  BY <1>0, <1>2, <1>6 DEF Removes
<1>7. QED
  BY <1>3, <1>4, <1>5, <1>6 DEF Rest, WriterStep, TakesUp, Ends, GoesOn

\* The first state.
LEMMA NamesInit == Init => OneAtWork /\ NotStale /\ NamesUnique
<1> SUFFICES ASSUME Init PROVE OneAtWork /\ NotStale /\ NamesUnique
  OBVIOUS
<1>1. (\A w \in Writers : pc[w] = "idle") /\ \A i \in Ids : rows[i] = None
  BY DEF Init
<1>2. QED
  BY <1>1 DEF OneAtWork, NotStale, StillFree, StillThere, NamesUnique

\* So all three hold always.
LEMMA AlwaysNames == Spec => [](OneAtWork /\ NotStale /\ NamesUnique)
<1>1. Typed /\ OneAtWork /\ NotStale /\ NamesUnique /\ [Next]_vars
      => (OneAtWork /\ NotStale /\ NamesUnique)'
  BY WriterSteps, OneAtWorkNext, NotStaleNext, NamesNext
<1>2. QED
  BY <1>1, NamesInit, AlwaysTyped, PTL DEF Spec

\* As long as no two requests that change instances overlap, no two rows share
\* a name, whatever its case: the name that rejectInstanceConflict found free
\* is free when the row is written, and a firmware update keeps the name.
THEOREM InstanceNamesUnique == Spec => []NamesUnique
BY AlwaysNames, PTL

\* A firmware update writes back the name and the address of the row it fetched
\* before its calls to Docker, and loses no row, unless another request that
\* changes instances overlapped.
THEOREM FirmwareUpdatePreserves == Spec => FirmwarePreserves
<1> DEFINE Preserved == \A w \in Writers : ~ overlapped /\ pc[w] = "write" /\ job[w].op = "firmware" =>
             \A i \in Ids : rows[i] # None =>
                rows'[i] # None /\ rows'[i].name = rows[i].name /\ rows'[i].host = rows[i].host
<1>1. ASSUME Typed, OneAtWork, NotStale, [Next]_vars PROVE Preserved
  <2> SUFFICES ASSUME NEW w \in Writers, ~ overlapped, pc[w] = "write", job[w].op = "firmware",
                      NEW i \in Ids, rows[i] # None
               PROVE  rows'[i] # None /\ rows'[i].name = rows[i].name /\ rows'[i].host = rows[i].host
    OBVIOUS
  <2>1. CASE UNCHANGED rows
    BY <2>1
  <2>2. ASSUME NEW v \in Writers, Inserts(v) \/ Removes(v) PROVE FALSE
    BY <1>1, <2>2 DEF Inserts, Removes, AtWork, OneAtWork
  <2>3. ASSUME NEW v \in Writers, Overwrites(v)
        PROVE  rows'[i] # None /\ rows'[i].name = rows[i].name /\ rows'[i].host = rows[i].host
    <3>1. v = w
      BY <1>1, <2>3 DEF Overwrites, AtWork, OneAtWork
    <3>2. StillThere(w) /\ job[w].id \in Ids /\ job[w].fields \in Fields
      BY <1>1 DEF NotStale, Typed, RequestsOK, JobOK
    <3>3. /\ rows[job[w].id].name = job[w].fields.name
          /\ rows[job[w].id].host = job[w].fields.host
      BY <3>2 DEF StillThere
    <3>4. rows' = [rows EXCEPT ![job[w].id] = job[w].fields] /\ rows \in [Ids -> Fields \cup {None}]
      BY <1>1, <2>3, <3>1 DEF Overwrites, Typed
    <3>5. QED
      BY <3>2, <3>3, <3>4, NoneAssumption
  <2>4. QED
    BY <1>1, <2>1, <2>2, <2>3, WriterSteps DEF Rest, WriterStep, TakesUp, Ends, GoesOn
<1>2. QED
  BY <1>1, AlwaysTyped, AlwaysNames, PTL DEF Spec, FirmwarePreserves

-----------------------------------------------------------------------------
(* No idle connection is left to a process that is gone                    *)

\* Only a writer that has called Docker, and has yet to end, has touched a host.
Untouched == \A w \in Writers : Clean(w) => touched[w] = {}

\* The writer that touched host h will still invalidate the pool.
Covered(h) == \E w \in Writers : pc[w] # "idle" /\ h \in touched[w]

\* What PoolFresh asks of a connection.
Fresh(k) == Gone(k) => k.spanned \/ Covered(k.host)

\* What PoolFresh says of idle connections holds for those in use.
UsedFresh == \A c \in Callers : conn[c] # None => Fresh(conn[c])

\* A writer ends, and has invalidated the pool if it touched a host.
LEMMA UntouchedNext ==
    ASSUME Typed, Typed', Untouched, Rest \/ \E w \in Writers : WriterStep(w)
    PROVE  Untouched'
<1> SUFFICES ASSUME NEW v \in Writers, Clean(v)' PROVE touched'[v] = {}
  BY DEF Untouched
<1>0. touched \in [Writers -> SUBSET Hosts]
  BY DEF Typed, DockerOK
<1>1. CASE Rest
  BY <1>1 DEF Rest, Quiet, Untouched, Clean
<1>2. ASSUME NEW w \in Writers, WriterStep(w), v # w PROVE touched'[v] = {}
  <2>1. touched'[v] = touched[v] /\ Only(w)
    BY <1>0, <1>2 DEF WriterStep, TakesUp, Ends, GoesOn, Inserts, Overwrites, Removes, AtWork,
                      Quiet, Hits, Wipes
  <2>2. QED
    BY <1>2, <2>1 DEF Only, Untouched, Clean
<1>3. ASSUME WriterStep(v) PROVE touched'[v] = {}
  <2>1. CASE TakesUp(v)
    BY <2>1 DEF TakesUp, Quiet, Untouched, Clean
  <2>2. CASE Ends(v) \/ Inserts(v)
    <3>1. Wipes(v) \/ (Clean(v) /\ Quiet)
      BY <2>2 DEF Ends, Inserts, AtWork, Hits, Clean
    <3>2. QED
      BY <1>0, <3>1 DEF Wipes, Quiet, Untouched
  <2>3. CASE GoesOn(v)
    <3>1. JobOK(v) /\ JobOK(v)'
      BY DEF Typed, RequestsOK
    <3>2. Clean(v) /\ pc[v] \notin {"stop", "remove", "run", "start"} /\ pc'[v] # "idle"
      BY <2>3, <3>1 DEF GoesOn, Clean, JobOK
    <3>3. QED
      BY <2>3, <3>2 DEF GoesOn, AtWork, Hits, Quiet, Untouched
  <2>4. QED
    BY <1>3, <2>1, <2>2, <2>3 DEF WriterStep, Overwrites, Removes, Clean
<1>4. QED
  BY <1>1, <1>2, <1>3

\* Unless the pool is invalidated, a host that is covered stays so, and a
\* process that ends is on a host that is covered then.
LEMMA FreshKept ==
    ASSUME Typed, Untouched, NEW k \in Conn, Fresh(k),
           Rest \/ \E w \in Writers : WriterStep(w) /\ ~ Wipes(w)
    PROVE  Fresh(k)'
<1>0. touched \in [Writers -> SUBSET Hosts] /\ k.host \in Hosts
  BY DEF Typed, DockerOK, Conn
<1>1. CASE Rest
  <2>1. Covered(k.host)' <=> Covered(k.host)
    BY <1>1 DEF Rest, Quiet, Covered
  <2>2. Gone(k)' <=> Gone(k)
    BY <1>1 DEF Rest, Quiet, Gone, Running
  <2>3. QED
    BY <2>1, <2>2 DEF Fresh
<1>2. ASSUME NEW w \in Writers, WriterStep(w), ~ Wipes(w) PROVE Fresh(k)'
  <2>1. Quiet \/ Hits(w)
    BY <1>2 DEF WriterStep, TakesUp, Ends, GoesOn, Inserts, Overwrites, Removes, AtWork
  <2>2. Only(w) /\ \A v \in Writers : touched[v] \subseteq touched'[v]
    BY <1>0, <1>2, <2>1 DEF WriterStep, TakesUp, Ends, GoesOn, Inserts, Overwrites, Removes, AtWork,
                      Quiet, Hits
  <2>3. pc'[w] = "idle" => touched[w] = {}
    BY <1>2 DEF WriterStep, TakesUp, Ends, GoesOn, Inserts, Overwrites, Removes, Untouched, Clean
  <2>4. Covered(k.host) => Covered(k.host)'
    BY <2>2, <2>3 DEF Covered, Only
  <2>5. CASE Quiet
    <3>1. Gone(k)' <=> Gone(k)
      BY <2>5 DEF Quiet, Gone, Running
    <3>2. QED
      BY <2>4, <3>1 DEF Fresh
  <2>6. CASE Hits(w) /\ k.host = Host(w)
    <3>1. pc'[w] # "idle"
      BY <1>2, <2>6 DEF WriterStep, TakesUp, Ends, GoesOn, Inserts, Overwrites, Removes, Hits, Clean
    <3>2. k.host \in touched'[w]
      BY <1>0, <2>6 DEF Hits
    <3>3. QED
      BY <3>1, <3>2 DEF Fresh, Covered
  <2>7. CASE Hits(w) /\ k.host # Host(w)
    <3>1. Gone(k)' <=> Gone(k)
      BY <1>0, <2>7 DEF Hits, Gone, Running
    <3>2. QED
      BY <2>4, <3>1 DEF Fresh
  <2>8. QED
    BY <2>1, <2>5, <2>6, <2>7
<1>3. QED
  BY <1>1, <1>2

\* Connections are made to processes that run, and lost ones are covered.
LEMMA FreshNext ==
    ASSUME Typed, Untouched, UsedFresh, PoolFresh, Rest \/ \E w \in Writers : WriterStep(w)
    PROVE  UsedFresh' /\ PoolFresh'
<1>0. pool \subseteq Conn /\ conn \in [Callers -> Conn \cup {None}]
  BY DEF Typed, PoolOK
<1>1. (\A k \in pool : Fresh(k)) /\ \A c \in Callers : conn[c] # None => conn[c] \in Conn /\ Fresh(conn[c])
  BY <1>0 DEF PoolFresh, UsedFresh, Fresh, Covered
<1>2. ASSUME \A k \in pool' : Fresh(k)' PROVE PoolFresh'
  BY <1>2 DEF PoolFresh, Fresh, Covered
<1>3. ASSUME NEW w \in Writers, Wipes(w) PROVE UsedFresh' /\ PoolFresh'
  BY <1>2, <1>3 DEF Wipes, UsedFresh, Fresh
<1>4. ASSUME Rest \/ \E w \in Writers : WriterStep(w) /\ ~ Wipes(w) PROVE UsedFresh' /\ PoolFresh'
  <2>1. \A k \in Conn : Fresh(k) => Fresh(k)'
    BY <1>4, FreshKept
  <2>2. /\ \A k \in pool' : k \in Conn /\ Fresh(k)
        /\ \A d \in Callers : \A k : k = conn'[d] /\ k # None => k \in Conn /\ Fresh(k)
    <3>1. CASE UNCHANGED <<conn, pool>>
      BY <1>0, <1>1, <3>1
    <3>2. ASSUME NEW c \in Callers, Proxies(c)
          PROVE  /\ \A k \in pool' : k \in Conn /\ Fresh(k)
                 /\ \A d \in Callers : \A k : k = conn'[d] /\ k # None => k \in Conn /\ Fresh(k)
      <4>1. \A k \in Conn : ~ Gone(k) => Fresh(k)
        BY DEF Fresh
      <4>2. QED
        BY <1>0, <1>1, <3>2, <4>1 DEF Proxies
    <3>3. UNCHANGED <<conn, pool>> \/ \E c \in Callers : Proxies(c)
      BY <1>4 DEF Rest, WriterStep, TakesUp, Ends, GoesOn, Inserts, Overwrites, Removes, AtWork,
                  Hits
    <3>4. QED
      BY <3>1, <3>2, <3>3
  <2>3. PoolFresh'
    BY <1>2, <2>1, <2>2
  <2>4. ASSUME NEW d \in Callers, conn'[d] # None PROVE Fresh(conn[d])'
    <3>1. PICK k : k = conn'[d]
      OBVIOUS
    <3>2. Fresh(k)'
      BY <2>1, <2>2, <2>4, <3>1
    <3>3. QED
      BY <3>1, <3>2 DEF Fresh, Gone, Running, Covered
  <2>5. QED
    BY <2>3, <2>4 DEF UsedFresh
<1>5. QED
  BY <1>3, <1>4

\* The first state.
LEMMA FreshInit == Init => Untouched /\ UsedFresh /\ PoolFresh
BY DEF Init, Untouched, UsedFresh, PoolFresh

\* However requests interleave and whatever the calls to Docker come to, an idle
\* connection of the proxy leads to a process that is gone only while the
\* operation that ended the process has yet to invalidate the pool, or if the
\* connection was in use when the pool was invalidated.
THEOREM ProxyPoolFresh == Spec => []PoolFresh
<1> DEFINE Inv == Untouched /\ UsedFresh /\ PoolFresh
<1>1. Typed /\ Typed' /\ Inv /\ [Next]_vars => Inv'
  BY WriterSteps, UntouchedNext, FreshNext
<1>2. QED
  BY <1>1, FreshInit, AlwaysTyped, PTL DEF Spec

=============================================================================
