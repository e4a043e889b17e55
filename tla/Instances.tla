------------------------------ MODULE Instances ------------------------------
(***************************************************************************)
(* The registered instances (services/loxilb_service.go and their handlers *)
(* in handlers/handler.go): creating, updating and deleting a row, the     *)
(* firmware operations on the container behind it, and the proxy's pool of *)
(* connections, which each of them has to invalidate.                      *)
(*                                                                         *)
(* Every statement, every call to Docker and every step of a proxied       *)
(* request is a step; requests interleave freely.  Of a row's fields only  *)
(* those are kept that something depends on: the name, the address         *)
(* (protocol, host and port), the API version and the image.               *)
(***************************************************************************)
EXTENDS Naturals, FiniteSets

CONSTANTS Writers,    \* requests that change instances
          Callers,    \* proxied requests
          Ids,        \* bound: the ids of rows, 1..n
          Names, Hosts, Versions, Images,  \* the values that pass validation
          AnyVersions, AnyImages,  \* what a firmware update may name, blank versions too
          Fold,       \* the lower-case spelling of a name
          Found,      \* the names of containers that run before OAM knows them
          Malformed,  \* a value that does not pass
          MaxWrites,  \* bound: how many requests change instances
          MaxStarts,  \* bound: how often a container is started on a host
          None

(***************************************************************************)
(* A row: the name and the address are validated whoever writes them, the  *)
(* version and the image only by a registration and its update.            *)
(***************************************************************************)
Fields == [name : Names, host : Hosts, version : AnyVersions, image : AnyImages]
Inputs == [name : Names \cup {Malformed}, host : Hosts, version : AnyVersions \cup {None},
           image : AnyImages]

(***************************************************************************)
(* The container that holds the port of a host: its name, its image, and   *)
(* whether it runs.  Each start is another process, known by a number.     *)
(***************************************************************************)
Box == [name : Names, image : AnyImages, up : BOOLEAN]
Conn == [host : Hosts, start : 0..MaxStarts, spanned : BOOLEAN]

ASSUME IdsAssumption == Ids \subseteq Nat \ {0}
ASSUME FoldAssumption == \A n \in Names : Fold[n] \in Names
ASSUME FoundAssumption == Found \subseteq Names
ASSUME NoneAssumption == None \notin Fields \cup Conn /\ "v1" \in Versions
ASSUME AnyAssumption == Versions \subseteq AnyVersions /\ Images \subseteq AnyImages
ASSUME MalformedAssumption == Malformed \notin Names
ASSUME RequestsAssumption == Writers \cap Callers = {}
ASSUME BoundsAssumption == MaxWrites \in Nat /\ MaxStarts \in Nat \ {0}

VARIABLES rows,      \* loxilb_instances
          box,       \* the container on each host
          starts,    \* how often a container was started there
          pc,        \* where each request is
          job,       \* what a writer works on: operation, id, fields, docker host
          conn,      \* the connection a proxied request holds
          target,    \* the host it is for
          pool,      \* idle connections
          closeIdle, \* http.Transport.closeIdle
          writes,    \* how many requests to change instances have begun
          touched,   \* for the properties: hosts whose container an operation has touched
          overlapped \* for the properties: two writers have been at work at once

vars == <<rows, box, starts, pc, job, conn, target, pool, closeIdle, writes, touched,
          overlapped>>
dbvars == <<rows>>
dockervars == <<box, starts, touched>>
poolvars == <<conn, target, pool, closeIdle>>

NoJob == [op |-> "none", id |-> 0, fields |-> None]
WriterPCs == {"idle", "checkName", "checkEndpoint", "insert", "exists", "write", "delete",
              "fetch", "stop", "remove", "pull", "run", "start", "invalidate"}
CallerPCs == {"idle", "connect", "sent", "answered"}

TypeOK ==
    /\ rows \in [Ids -> Fields \cup {None}]
    /\ box \in [Hosts -> Box \cup {None}]
    /\ starts \in [Hosts -> 0..MaxStarts]
    /\ \A w \in Writers : pc[w] \in WriterPCs
    /\ \A c \in Callers : pc[c] \in CallerPCs
    /\ \A w \in Writers : job[w].id \in Ids \cup {0}
    /\ conn \in [Callers -> Conn \cup {None}]
    /\ target \in [Callers -> Hosts \cup {None}]
    /\ pool \subseteq Conn
    /\ writes \in 0..MaxWrites
    /\ closeIdle \in BOOLEAN /\ overlapped \in BOOLEAN
    /\ touched \in [Writers -> SUBSET Hosts]

\* No instance is registered yet; containers may run already.
Init ==
    /\ rows = [i \in Ids |-> None]
    /\ box \in [Hosts -> [name : Found, image : Images, up : {TRUE}] \cup {None}]
    /\ starts = [h \in Hosts |-> IF box[h] = None THEN 0 ELSE 1]
    /\ pc = [r \in Writers \cup Callers |-> "idle"]
    /\ job = [w \in Writers |-> NoJob]
    /\ conn = [c \in Callers |-> None]
    /\ target = [c \in Callers |-> None]
    /\ pool = {} /\ closeIdle = FALSE /\ writes = 0
    /\ touched = [w \in Writers |-> {}]
    /\ overlapped = FALSE

-----------------------------------------------------------------------------
(* The fields of a row *)

\* InstanceFields.Normalize: a version that is blank or not given has a default.
Normalize(f) == [f EXCEPT !.version = IF @ \in {None, ""} THEN "v1" ELSE @]

\* The host, the port and the protocol are well formed.
ValidAddress(f) == f.host \in Hosts

\* Mutant: the name is not looked at.
BugValid(f) == ValidAddress(f) /\ f.version \in Versions /\ f.image \in Images

\* InstanceFields.Validate
Valid(f) == ValidAddress(f) /\ f.name \in Names /\ f.version \in Versions /\ f.image \in Images

\* InstanceFields.APIEndpoint
APIEndpoint(f) == <<f.host, f.version>>

Others(id) == {i \in Ids \ {id} : rows[i] # None}

\* Mutant: the names are compared as they are spelled.
BugNameTaken(f, id) == \E i \in Others(id) : rows[i].name = f.name

\* InstanceNameTaken
NameTaken(f, id) == \E i \in Others(id) : Fold[rows[i].name] = Fold[f.name]

\* InstanceEndpointTaken, and the UNIQUE constraint it mirrors
EndpointTaken(f, id) == \E i \in Others(id) : APIEndpoint(rows[i]) = APIEndpoint(f)

-----------------------------------------------------------------------------
(* Writers *)

Goto(w, l) == pc' = [pc EXCEPT ![w] = l]

\* The request is answered.
Done(w) == /\ Goto(w, "idle") /\ job' = [job EXCEPT ![w] = NoJob]

\* A writer takes up its work.
Begin(w, l, j) ==
    /\ writes < MaxWrites /\ writes' = writes + 1
    /\ Goto(w, l)
    /\ job' = [job EXCEPT ![w] = j]
    /\ overlapped' = (overlapped \/ \E v \in Writers \ {w} : pc[v] # "idle")

\* CreateLoxiLBInstance and UpdateLoxiLBInstance, up to the uniqueness checks.
Submit(w) ==
    /\ pc[w] = "idle"
    /\ \E f \in Inputs, id \in Ids \cup {0} :
          /\ Valid(Normalize(f))
          /\ Begin(w, "checkName", [op |-> IF id = 0 THEN "create" ELSE "update",
                                    id |-> id, fields |-> Normalize(f)])
    /\ UNCHANGED <<dbvars, dockervars, poolvars>>

\* What does not validate is refused.
Refuse(w) ==
    /\ pc[w] = "idle"
    /\ \E f \in Inputs : ~ Valid(Normalize(f))
    /\ UNCHANGED vars

\* rejectInstanceConflict, its first query ...
CheckName(w) ==
    /\ pc[w] = "checkName"
    /\ IF NameTaken(job[w].fields, job[w].id) THEN Done(w)
       ELSE Goto(w, "checkEndpoint") /\ UNCHANGED job
    /\ UNCHANGED <<dbvars, dockervars, poolvars, writes, overlapped>>

\* ... and its second.
CheckEndpoint(w) ==
    /\ pc[w] = "checkEndpoint"
    /\ IF EndpointTaken(job[w].fields, job[w].id) THEN Done(w)
       ELSE Goto(w, IF job[w].op = "create" THEN "insert" ELSE "exists") /\ UNCHANGED job
    /\ UNCHANGED <<dbvars, dockervars, poolvars, writes, overlapped>>

\* AddLoxiLBInstanceWithArgs: the constraint on the endpoint has the last word.
Insert(w) ==
    /\ pc[w] = "insert"
    /\ IF EndpointTaken(job[w].fields, 0) THEN UNCHANGED rows
       ELSE \E i \in Ids : rows[i] = None /\ rows' = [rows EXCEPT ![i] = job[w].fields]
    /\ Done(w)
    /\ UNCHANGED <<dockervars, poolvars, writes, overlapped>>

\* UpdateLoxiLBInstance: the row is looked up ...
Exists(w) ==
    /\ pc[w] = "exists"
    /\ IF rows[job[w].id] # None THEN Goto(w, "write") /\ UNCHANGED job
       ELSE IF job[w].op = "firmware" THEN Goto(w, "invalidate") /\ UNCHANGED job
       ELSE Done(w)
    /\ UNCHANGED <<dbvars, dockervars, poolvars, writes, overlapped>>

\* ... and overwritten as a whole.  It may be gone by now, which is not noticed.
Write(w) ==
    /\ pc[w] = "write"
    /\ LET id == job[w].id
           f == job[w].fields
           clash == rows[id] # None /\ EndpointTaken(f, id)
       IN /\ rows' = IF clash \/ rows[id] = None THEN rows ELSE [rows EXCEPT ![id] = f]
          /\ IF clash /\ job[w].op = "update" THEN Done(w)
             ELSE Goto(w, "invalidate") /\ UNCHANGED job
    /\ UNCHANGED <<dockervars, poolvars, writes, overlapped>>

\* DeleteLoxiLBInstance
BeginDelete(w) ==
    /\ pc[w] = "idle"
    /\ \E id \in Ids : Begin(w, "delete", [op |-> "delete", id |-> id, fields |-> None])
    /\ UNCHANGED <<dbvars, dockervars, poolvars>>

Delete(w) ==
    /\ pc[w] = "delete"
    /\ rows' = [rows EXCEPT ![job[w].id] = None]
    /\ Goto(w, "invalidate")
    /\ UNCHANGED <<job, dockervars, poolvars, writes, overlapped>>

\* Mutant: the connections are dropped only if every step succeeded.
BugLeave(w) == Done(w)

\* An error after the row was fetched: the invalidation is deferred, and runs.
Leave(w) == Goto(w, "invalidate") /\ UNCHANGED job

\* A statement fails and the request is answered with a 500.
DbFails(w) ==
    /\ pc[w] \in {"checkName", "checkEndpoint", "insert", "delete", "fetch", "exists", "write"}
    /\ IF job[w].op = "firmware" /\ pc[w] # "fetch" THEN Leave(w) ELSE Done(w)
    /\ UNCHANGED <<dbvars, dockervars, poolvars, writes, overlapped>>

\* CloseIdleConnections: what is idle is closed, what is in use will be, unless
\* another request asks for a connection before.
Invalidate(w) ==
    /\ pc[w] = "invalidate"
    /\ pool' = {} /\ closeIdle' = TRUE
    /\ conn' = [c \in Callers |-> IF conn[c] = None THEN None
                                  ELSE [conn[c] EXCEPT !.spanned = TRUE]]
    /\ touched' = [touched EXCEPT ![w] = {}]
    /\ Done(w)
    /\ UNCHANGED <<dbvars, box, starts, target, writes, overlapped>>

-----------------------------------------------------------------------------
(* Firmware *)

\* UpdateLoxiLBInstanceFirmware, StartLoxiLBInstanceFirmware and
\* StoptLoxiLBInstanceFirmware: an update names the image and may name a version;
\* that the image is not empty is all that is checked.
BeginFirmware(w) ==
    /\ pc[w] = "idle"
    /\ \E id \in Ids, op \in {"firmware", "startOnly", "stopOnly"}, image \in AnyImages,
          v \in AnyVersions \cup {None} :
          /\ op # "firmware" => image = CHOOSE i \in AnyImages : TRUE
          /\ op # "firmware" => v = None
          /\ Begin(w, "fetch", [op |-> op, id |-> id, fields |-> [image |-> image, version |-> v]])
    /\ UNCHANGED <<dbvars, dockervars, poolvars>>

\* The first call to Docker: only a start has no container to stop.
FirstCall(op) == IF op = "startOnly" THEN "pull" ELSE "stop"

\* Mutant: the row is fetched without its id.
BugFetchFirst(w) ==
    /\ pc[w] = "fetch"
    /\ LET row == rows[CHOOSE i \in Ids : \A k \in Ids : i <= k]
           asked == job[w].fields
       IN IF row = None THEN Done(w)
          ELSE /\ Goto(w, FirstCall(job[w].op))
               /\ job' = [job EXCEPT ![w].fields =
                     IF job[w].op = "firmware"
                     THEN [row EXCEPT !.image = asked.image,
                              !.version = IF asked.version = None THEN @ ELSE asked.version]
                     ELSE row]
    /\ UNCHANGED <<dbvars, dockervars, poolvars, writes, overlapped>>

\* The row is fetched and kept; what the request names replaces its fields.
Fetch(w) ==
    /\ pc[w] = "fetch"
    /\ LET row == rows[job[w].id]
           asked == job[w].fields
       IN IF row = None THEN Done(w)
          ELSE /\ Goto(w, FirstCall(job[w].op))
               /\ job' = [job EXCEPT ![w].fields =
                     IF job[w].op = "firmware"
                     THEN [row EXCEPT !.image = asked.image,
                              !.version = IF asked.version = None THEN @ ELSE asked.version]
                     ELSE row]
    /\ UNCHANGED <<dbvars, dockervars, poolvars, writes, overlapped>>

\* What a call to Docker comes to: it is done, refused with a status nobody
\* reads, or lost with its answer.  Only the last is an error.
Docker(w, l, effect) ==
    \/ effect /\ Goto(w, l) /\ UNCHANGED job
    \/ UNCHANGED dockervars /\ Goto(w, l) /\ UNCHANGED job
    \/ (effect \/ UNCHANGED dockervars) /\ Leave(w)

Running(host) == box[host] # None /\ box[host].up
Host(w) == job[w].fields.host
Named(w) == box[Host(w)] # None /\ box[Host(w)].name = job[w].fields.name
Touch(w) == touched' = [touched EXCEPT ![w] = @ \cup {Host(w)}]

StopContainer(w) ==
    /\ pc[w] = "stop"
    /\ Docker(w, IF job[w].op = "firmware" THEN "remove" ELSE "invalidate",
              /\ Named(w) /\ box[Host(w)].up
              /\ box' = [box EXCEPT ![Host(w)].up = FALSE]
              /\ Touch(w) /\ UNCHANGED starts)
    /\ UNCHANGED <<dbvars, poolvars, writes, overlapped>>

RemoveContainer(w) ==
    /\ pc[w] = "remove"
    /\ Docker(w, "pull",
              /\ Named(w) /\ ~ box[Host(w)].up
              /\ box' = [box EXCEPT ![Host(w)] = None]
              /\ Touch(w) /\ UNCHANGED starts)
    /\ UNCHANGED <<dbvars, poolvars, writes, overlapped>>

PullImage(w) ==
    /\ pc[w] = "pull"
    /\ \/ Goto(w, IF job[w].op = "firmware" THEN "run" ELSE "start") /\ UNCHANGED job
       \/ Leave(w)
    /\ UNCHANGED <<dbvars, dockervars, poolvars, writes, overlapped>>

\* RunContainer: created, renamed and started; it gets the port if no other
\* container holds it.
RunContainer(w) ==
    /\ pc[w] = "run"
    /\ Docker(w, "exists",
              /\ ~ Running(Host(w)) /\ starts[Host(w)] < MaxStarts
              /\ box' = [box EXCEPT ![Host(w)] =
                            [name |-> job[w].fields.name, image |-> job[w].fields.image, up |-> TRUE]]
              /\ starts' = [starts EXCEPT ![Host(w)] = @ + 1]
              /\ Touch(w))
    /\ UNCHANGED <<dbvars, poolvars, writes, overlapped>>

StartContainer(w) ==
    /\ pc[w] = "start"
    /\ Docker(w, "invalidate",
              /\ Named(w) /\ ~ box[Host(w)].up /\ starts[Host(w)] < MaxStarts
              /\ box' = [box EXCEPT ![Host(w)].up = TRUE]
              /\ starts' = [starts EXCEPT ![Host(w)] = @ + 1]
              /\ Touch(w))
    /\ UNCHANGED <<dbvars, poolvars, writes, overlapped>>

-----------------------------------------------------------------------------
(* Proxied requests *)

\* ForwardRequest reads the instance.
Lookup(c) ==
    /\ pc[c] = "idle"
    /\ \E id \in Ids : rows[id] # None /\ target' = [target EXCEPT ![c] = rows[id].host]
    /\ Goto(c, "connect")
    /\ UNCHANGED <<dbvars, dockervars, job, conn, pool, closeIdle, writes, overlapped>>

\* client.Do: an idle connection to the host is used before a new one is made.
Connect(c) ==
    /\ pc[c] = "connect"
    /\ closeIdle' = FALSE
    /\ LET idle == {k \in pool : k.host = target[c]} IN
       \/ \E k \in idle : /\ conn' = [conn EXCEPT ![c] = k] /\ pool' = pool \ {k}
                          /\ Goto(c, "sent") /\ UNCHANGED target
       \/ /\ idle = {} /\ Running(target[c])
          /\ conn' = [conn EXCEPT ![c] = [host |-> target[c], start |-> starts[target[c]],
                                          spanned |-> FALSE]]
          /\ Goto(c, "sent") /\ UNCHANGED <<pool, target>>
       \/ /\ idle = {} /\ ~ Running(target[c])
          /\ Goto(c, "idle") /\ target' = [target EXCEPT ![c] = None]
          /\ UNCHANGED <<conn, pool>>
    /\ UNCHANGED <<dbvars, dockervars, job, writes, overlapped>>

\* The process at the other end of a connection is gone.
Gone(k) == ~ Running(k.host) \/ k.start # starts[k.host]

\* The request ends, with its connection back in the pool if `keep'.
Return(c, keep) ==
    /\ pool' = IF keep /\ ~ closeIdle THEN pool \cup {conn[c]} ELSE pool
    /\ conn' = [conn EXCEPT ![c] = None]
    /\ target' = [target EXCEPT ![c] = None]
    /\ Goto(c, "idle")
    /\ UNCHANGED <<dbvars, dockervars, job, closeIdle, writes, overlapped>>

\* The instance sends its answer, if it still runs.
GatewayAnswers(c) ==
    /\ pc[c] = "sent" /\ ~ Gone(conn[c])
    /\ Goto(c, "answered")
    /\ UNCHANGED <<dbvars, dockervars, job, conn, target, pool, closeIdle, writes, overlapped>>

\* No answer: a timeout, a reset, a caller who went away.
DoFails(c) == pc[c] = "sent" /\ Return(c, FALSE)

\* The answer is read to its end.
ReadResponse(c) == pc[c] = "answered" /\ Return(c, TRUE)

-----------------------------------------------------------------------------
Next ==
    \/ \E w \in Writers :
          \/ Submit(w) \/ Refuse(w) \/ CheckName(w) \/ CheckEndpoint(w) \/ Insert(w)
          \/ Exists(w) \/ Write(w) \/ BeginDelete(w) \/ Delete(w) \/ DbFails(w)
          \/ BeginFirmware(w) \/ Fetch(w) \/ StopContainer(w) \/ RemoveContainer(w)
          \/ PullImage(w) \/ RunContainer(w) \/ StartContainer(w) \/ Invalidate(w)
    \/ \E c \in Callers :
          Lookup(c) \/ Connect(c) \/ GatewayAnswers(c) \/ DoFails(c) \/ ReadResponse(c)

Spec == Init /\ [][Next]_vars

-----------------------------------------------------------------------------
(* Properties *)

\* The console finds an instance by its name, whatever the case: as long as no
\* two requests have been at work together, no two rows share one.  (The name
\* has no constraint in the schema, so requests that overlap can break this.)
NamesUnique ==
    ~ overlapped => \A i, j \in Ids : i # j /\ rows[i] # None /\ rows[j] # None =>
                       Fold[rows[i].name] # Fold[rows[j].name]

\* An idle connection leads to a process that is gone only while the operation
\* that ended the process has yet to invalidate the pool, which it does however
\* it ends; or if the connection was in use when the pool was invalidated.
PoolFresh ==
    \A k \in pool : Gone(k) => k.spanned \/ \E w \in Writers : pc[w] # "idle" /\ k.host \in touched[w]

\* A firmware update preserves what it does not name: the name and the address
\* it writes back are those of the row, unless another request overlapped.
FirmwarePreserves ==
    [][\A w \in Writers : ~ overlapped /\ pc[w] = "write" /\ job[w].op = "firmware" =>
          \A i \in Ids : rows[i] # None =>
             rows'[i] # None /\ rows'[i].name = rows[i].name /\ rows'[i].host = rows[i].host]_vars
=============================================================================
