# loxilb-oam: a verification project

TLA+ models of the control logic of loxilb-oam, the runs that check them with
TLC on small instances, and theorems checked by TLAPS for every instance.
`PROJECT.json` is the machine-readable side: which definition stands for which
lines, which run checks what, which hazards the properties are for.

## 1. The system and its parts

OAM is one Go process in front of a PostgreSQL database. Requests are served
concurrently; a few goroutines run beside them. Nothing is shared in memory
except small caches: the database is where threads meet.

| Part | State | Operations | What is hard |
|---|---|---|---|
| Appliance operations (`internal/appliance`) | `appliance_operations`, `appliance_challenges`, `appliance_audit` | plan, authorize, submit, cancel, reconcile, list; the reconciler goroutine | a job on a host that may lose requests, replies and its own journal; crashes between two commits; several threads on one row |
| Host adapter (`hostfixture`, external in production) | a journal of jobs with generations | submit, read, cancel | idempotency on the operation, the point of no return |
| Host client (`host.go`, `hostauth.go`) | nonce cache | signed calls with a 5 s limit | a call given up that is processed later; replay |
| Users and sessions (`user_service.go`, `auth.go`, `rbac.go`, `main.go`, `cmd/reset_admin`) | `users`, `api_tokens` | first start, login, logout, create, update, delete, setup, reset by another process | the last administrator; a token issued while the password changes; setup and reset beside requests |
| Login lockout (`user_service.go`) | `login_attempts` | record a failure, check, clear | concurrent failures; window and lock time |
| Snapshots (`snapshot_service.go`, `snapshot_scheduler.go`) | rows with sealed blobs, schedules | take, upload, update, pin, delete, restore, retention, integrity sweep | retention against pinning; a restore that stops half way |
| Instances (`loxilb_service.go`) | `loxilb_instances` | create, update, delete, firmware | name uniqueness is checked, then used |
| Gateway proxy (`proxy_service.go`, `gateway_path.go`, `config/reserved.go`) | transport cache | forward a request | which paths are forwarded for whom; invalidation |
| Migrations (`internal/migrate`) | `schema_migrations` | apply at start | several starters, a crash between two |
| Rate limiter (`middleware/ratelimit.go`) | token buckets | allow, collect | limits at the edge, collecting a bucket in use |
| Alerts, logs, status, routes, tooling | stored rows or none | reads | nothing that a model would reach |

How they interact: handlers call services; services meet in the database. The
appliance service calls the host adapter over a socket and never the other way
round: OAM asks, the journal answers. `AuthorizeOperation` uses the login
lockout; tokens are sessions, and a challenge is bound to one.

What makes each part correct:

- *Appliance operations*: one operation at a time on an installation; none is
  executed twice or after OAM ended it; a destructive one only with its own
  challenge; the row never contradicts the journal; a submitted operation
  settles.
- *Users*: an administrator always remains; a refused session is never accepted
  again; a password change leaves no older session behind; setup replaces only
  the bootstrap credentials and a reset restores them.
- *Lockout*: wrong passwords, and only they, lock, for the time described; a
  lockout ends.
- *Snapshots*: what is restored is what was stored, into what was selected and
  after the target's own configuration was kept; a pinned snapshot stays; retention
  leaves what the schedule asks for; a corrupted row is flagged.
- *Migrations*: each applied once, in order, whatever starts or stops; nobody
  serves on a schema its build does not know.
- *Gateway proxy*: OAM is the only boundary; a role reaches what it may, a rule
  takes over no endpoint of the management plane, an answer says who gave it.
- *Instances*: names are unique, and no request goes to a container that is gone.
- *Request authentication, rate limiter*: a signed request counts once; a client
  gets no more than its bucket.

## 2. The plan, and what is done of it

1. `ApplianceOps`, its abstract specification `InstallationSlot` and
   `ApplianceOpsProofs`: done, with every safety property and the refinement
   proved.
2. `Accounts` with `AccountsProofs`, `LoginLockout` with its proofs in
   `ThrottlingProofs`: done.
3. `Snapshots` with `SnapshotsProofs`: done.
4. `Migrate` with `MigrateProofs`: done.
5. `Instances` with `InstancesProofs`, `GatewayAccess` with
   `GatewayAccessProofs`: done.
6. `RateLimiter` with its abstract specification `TokenBucket`, proved about in
   `ThrottlingProofs`; `HostAuth` with `HostAuthProofs`: done.

The components share tables but no decisions, so each is checked by itself:
`Accounts` and `LoginLockout` meet in a request that ends where the other begins;
`GatewayAccess` leaves open how a role or an instance changes, which is what
`Accounts` and `Instances` do; `Snapshots` leaves open when an instance is
deleted.

## 3. Modules

### `ApplianceOps`

Models `lifecycle.go`, `operation*.go`, `audit.go` and the journal of
`hostfixture/jobs.go`.

State: `row[o]` is the row of `appliance_operations` with the columns decisions
depend on (state, phase, whether `plan_expires_at` has passed, whether
`submitted_at` is set, `host_generation`, `reconciliation`, `error_code`);
`chal[c]` the row of `appliance_challenges`; `audit[o]` the `new_state`s on
record; `journal[o]` the entries the host's job went through, so a generation is
a position in it; `executions[o]` counts the jobs the host started, `late` the
requests OAM gave up on that the host may still process. A thread is a request
or the reconciler: `pc`, `tgt`, `seen` (its copy of the row) and `ans` (the
host's answer) are its place and its local variables.

Granularity: what happens in one transaction, or in one statement whose `WHERE`
repeats the check, is one step. Every call to the host is a step between two
others, so any thread may run between the read, the call and the write.
`deliver` and `cancelUndelivered` keep their row locked across the call; every
statement that writes the row waits (`Locked`).

| Code | Actions |
|---|---|
| `PlanOperation`, `GetOperation`, `ListOperations`, `Authorize`, `CancelPlanned` part of `Cancel` | `PlanOperation`, `GetOperation`, `Authorize`, `CancelPlanned`, all with `expirePlans` |
| `Submit` | `Submit`, then delivery |
| `deliver`, `submitToHost` | `LockForDelivery`, `CallSubmit`, `RecordSubmit` |
| `Reconcile`, `ReconcileActive`, `reconcile` | `Reconcile`, `ReconcileActive`, `CallJob`, `RecordJob` |
| `Cancel`, `cancelUndelivered` | `Cancel`, `CallCancel`, `RecordCancel`, `LockForCancel`, `RecordUndelivered` |
| the clock | `PlanExpires`, `ChallengeExpires` |
| crash, disconnect, failed statement or commit | `Abort` |
| the host | `Advance`, `Forget`, `LateArrival` |

The outcome of a job is chosen when it matters (`ScriptEdges` is the union of
the scripts). `Replies` enumerates what the host could say; `submitJob` and
`cancelJob` say what it does.

Faults are constants: `Fallible` threads may stop anywhere, `MaxLosses` bounds
how often the journal loses an operation's job, `LateKinds` says which requests
may arrive after OAM gave up, `AuditFails` whether audit rows written outside a
transaction may be lost. A lost request or reply is always possible.

### `InstallationSlot`

The promise to a client: an installation is a slot; one operation at a time
claims it, is executed at most once and only while it holds it, and lets go
when the execution has ended or was never begun. `ImplementsSlot` maps the stage
of an operation from the row and the journal together: OAM's row says who holds
the slot, the journal whether it runs.

### `ApplianceOpsProofs`, `MCApplianceOps`

Theorems (section 5), and the instances for TLC.

### `Accounts`, `AccountsProofs`, `MCAccounts`

Models what reads and writes `users` and `api_tokens`: `user_service.go`, the
handlers and middleware before it, `setupInitialAdminIfNeeded` of `main.go` and
`ResetAdminToDefault`, which `cmd/reset_admin` runs in a process of its own.

State: `users[u]` is a row (name, password, role, whether the hash is a weak one
a login replaces) or `NoUser`; `tokens[k]` a row of `api_tokens` with the owner's
id and the name in the claims, and, for the properties, the password the session
was opened with; `spent` and `issued` are the ids and token values handed out;
`locked` is the holder of the table lock of `protectLastAdmin`; `pc` and `req`
are a thread's place and what it has read.

Granularity: a statement is a step, and so is a transaction that begins by
locking the row it writes (`SaveTokenForCredentials`) or that writes that row
first and then its tokens (`UpdateUser` without a role, the writes of setup and
reset). A role change and a deletion are three steps under the table lock.
Reads, even within a transaction, are steps of their own: at `READ COMMITTED`
the next statement sees what others have committed since.

| Code | Actions |
|---|---|
| `setupInitialAdminIfNeeded` | `Startup`, `Bootstrap` |
| `Login`, `ValidateUser`, `SaveTokenForCredentials` | `Login`, `Rehash`, `IssueToken` |
| `TokenAuthMiddleware`, `Logout`, expiry | `Authenticate`, `Logout`, `ExpireToken` |
| `CreateUser` | `CreateUser`, `InsertUser` |
| `UpdateUser` | `UpdateUser`, then `WriteUser`, with a role first `LockMembership`, `CountAdmins` |
| `DeleteUser` | `DeleteUser`, `LockMembership`, `CountAdmins`, `RemoveUser` |
| `UpdateAdminCredentials` (setup) | `Setup`, `VerifyDefault`, `ReplaceDefault`, `IssueToken` |
| `ResetAdminToDefault` | `FindAdmin`, `ResetAdmin` or `ResetCreate`, `Report` |
| a failed statement, a lost connection | `Abort` |

A caller is the account that has the name in the claims when the request is
authorized (`CallerIs`), as in `resolveCaller`, not the owner of the token's row.
`RetryOperation` has no action: `MaxRetries` and `DbMaxRetries` are 1, so every
operation is tried once.

### `LoginLockout`, `ThrottlingProofs`

One row of `login_attempts` (they do not interact) and the requests that check a
password against it. `IsLoginBlocked`, the read, and the write of
`RecordFailedLogin` and `ClearLoginAttempts` are steps. Time is relative: the row
has the age of the last failure and what is left of the lockout, a request the
time since it read its clock, so time passes for ever in finitely many states.
Its configuration instantiates the module itself.

### `Snapshots`, `SnapshotsProofs`, `MCSnapshots`

Models `snapshot_service.go`, `snapshot_scheduler.go` and the handlers before
them. State: `snaps[id]` is a row of `instance_snapshots` with its blob (the key
it was sealed with and the bytes), its checksum, trigger, pin and flag;
`schedules`, `registered` the rows of the other two tables; `config[i]` what a
gateway runs; `key` the key of this process; `pc` and `job` a thread's place and
locals. Threads are requests and the scheduler. Ghosts: `origin` (what every id
was stored with), `safe` (ids pinned while nobody acted on an older state of the
row) and `quiet` (nobody interfered with this retention pass).

| Code | Actions |
|---|---|
| `TakeSnapshot`, `ImportSnapshot`, `storeSnapshot` | `BeginTake`, `BeginUpload`, `FetchInstance`, `Read`, `Store`, `ReadBack` |
| `GetSnapshotDocument`, `OpenBlob`, `markChecksum` | `BeginDownload`, `Open`, `Mark` |
| `RestoreSnapshot` | `BeginRestore`, `Open`, `Target`, with commit the steps of a take, `Send` |
| `UpdateSnapshot`, `DeleteSnapshot`, `PutSchedule` | `BeginUpdate`, `Update`, `BeginDelete`, `Delete`, `BeginPutSchedule`, `PutSchedule` |
| `RunOnce`: `runDueSchedules`, `runRetention`, `runIntegritySweep` | `TickListed`, `RunDue`, `RecordRun`; `ListRetains`, `ListInstances`, `ListCandidates`, `Prune`, `Retained`; `Sweep`, `Verify` |
| errors returned, errors only logged | `Fail`; `Logged`, `Unlisted` |
| the world | `Tamper`, `ChangeConfig`, `DeleteInstance`, `Restart` |

A document is a configuration and the domains its envelope lists; its checksum
stands for itself. Deletions are those the query can be sent for: which rows a
statement touches, not how many bytes it moves.

### `Migrate`, `MigrateProofs`, `MCMigrate`

Models `internal/migrate/migrate.go` and `migrateSchema` in `main.go`. State: the
rows of `schema_migrations`, the migrations whose SQL is in effect (`schema`), the
holder of the advisory lock, an open transaction for each process, and where it
is. Every statement is a step; a process may stop anywhere, a statement may fail
and the answer to a commit may be lost. A migration is its version and checksum.

### `GatewayAccess`, `GatewayAccessProofs`, `MCGatewayAccess`

One request through the proxy: `RequireGatewayAccess`, `ProxyToLoxiLB`,
`ForwardRequest`, the reserved endpoints and the service identity, with every
error path: the lookup of the caller that finds nobody or fails (401), the
instance that is not found (404), an endpoint `url.Parse` rejects (500), the body
that cannot be read (400), the guard (409), the request that cannot be created
(500), the identity that is missing (503, which no process that started can
reach), and the failures of the call. Requests share no state, so one is followed
at a time while `UpdateUser`, `DeleteUser`, `UpdateInstance`, `UpdateFirmware` and
`DeleteInstance` happen between its steps.

A path is the sequence of its segments, as percent-decoding has left it. So is the
version in an instance's endpoint: a registration accepts one plain segment
(`ValidateInstanceVersion`, `Registered`), while a firmware update stores any
version (`handler.go:859-861`, `loxilb_service.go:226`), a blank one, dots, several
segments or one that does not parse. `Plain` says that the endpoint's path is
`/netlox` or `/netlox/<version>` without dots. `Clean` and `Routed` are the
Gateway's side: the reading its router (outside this repository) gives a URL.

The contents of headers are not modelled: which of the caller's are copied
(`copyHeaders`) and that `Authorization` is replaced (`Authorize`) are straight-line
code that depends on no state, and a model of them would only repeat them. What is
modelled of the identity is which configurations let a process start.

### `Instances`, `InstancesProofs`, `MCInstances`

The rows of `loxilb_instances`, the containers on each host and the proxy's pool
of idle connections. Creating, updating, deleting and the firmware operations are
sequences of statements and Docker calls; a proxied request takes a connection,
holds it, and gives it back or not. `overlapped` is a ghost: two writers have been
at work together. The pool follows `http.Transport`: `CloseIdleConnections` closes
what is idle and keeps what is in use until it comes back. `Versions` and `Images`
are what validation accepts; `AnyVersions` and `AnyImages` what a firmware update
may store.

### `HostAuth`, `HostAuthProofs`

`SignRequest`, `VerifyRequest` and `NonceCache`. A request may be delivered again
at any time, altered or not; a verification reads its clock, and enters the cache
up to `MaxStall` later.

### `RateLimiter`, `TokenBucket`, `ThrottlingProofs`

`Allow` and `gcLocked`. `TokenBucket` is the promise: buckets that are refilled all
the time and never dropped. The level of the ideal bucket is what the limiter would
find if it were asked now (`Level`). The ghosts `spent` and `credit` observe a
window that may begin at any moment (`NewWindow`).

## 4. Runs

All pass.

| Run | Instance | What it shows |
|---|---|---|
| `threads` | 1 backup, 2 request threads and the reconciler, failing audit rows | at most one execution, never one after OAM ended the operation; the row follows the journal whichever order answers arrive in; no terminal state is left; what OAM decided is on record |
| `installation` | 2 destructive operations, 2 challenges, 1 request thread and the reconciler | the host never runs both; each execution spent exactly one challenge of its own; together they implement `InstallationSlot` |
| `losses` | 1 backup, one loss of the journal, late submissions and cancels | a reported operation is not started again, but by a late submission |
| `liveness` | 1 backup, fair reconciler and host | a submitted operation settles |
| `accounts` | a fresh installation, or one with 2 administrators; 2 ids, 2 names, 2 passwords, 2 tokens, 2 threads | an administrator remains from the first user on, accepted sessions have the current password, refused tokens stay refused |
| `lockout` | 2 requests at a time, shorter limits, fair time | of a login only wrong passwords count; the lockout is the one the constants describe at every edge of window, doubling and cap; it ends |
| `snapshots` | 2 requests and the scheduler, 2 instances, 2 domains, 2 stored snapshots and up to 4, 2 events | a restore sends the stored document (`IntactOnly`), after its safety snapshot (`SafetyNet`), and touches what was selected (`SelectionKept`); pins, retain counts and flags hold |
| `migrate` | 2 processes, 4 builds (2 releases, one that disagrees, one with a gap), 3 databases | each migration once, a true history, no server on a schema it does not know, no starter fails another, every start ends |
| `access` | 174 paths, 3 methods, 4 roles, 7 versions and an unparsable one, all rules over 2 addresses, 2 reserved lists, all identities and outcomes | on a plain endpoint what reaches the Gateway is what the role may do there and takes over nothing reserved; on any, answers say truly who gave them |
| `instances` | 2 writers, 2 proxied requests, 2 rows, 3 names of which 2 differ in case, 1 host, 2 valid versions and a blank one, 1 image | no row with a name that was not validated; names unique and the row preserved by a firmware update unless writers overlap; no idle connection outlives its container |
| `nonces` | 2 requests, 2 verifications, a window of 2 with stalls of 1, 8 ticks | accepted at most once; refused as a replay only if accepted |
| `rate_limit` | 2 clients, a burst of 2.5 tokens, half a token a tick | implements `TokenBucket`; no window lets more through than burst and refill |

Bounds. One operation is enough for what threads do to one row, as operations
only meet in the one-active index; the run with two covers that. Two request
threads and the reconciler give every pair of deliver, cancel and reconcile, and
a third that holds stale data. A journal has at most 6 entries, so generations
need no bound. One loss suffices: every loss returns to an empty journal. As many
challenges as operations: the second replaces or competes with the first. Request
threads, sessions and challenges are symmetric, operations where all are of one
kind; the liveness run uses no symmetry.

In `Accounts` two threads give every pair of a reader with stale data and a
writer; two administrators are what the count protects. Ids are never handed out
twice, so an installation in use creates no user here; the fresh one does. Tokens
run out after two, which ends logins and nothing else. In `LoginLockout`,
`MaxLag` bounds how long a request runs and `MaxCount` where counters stop, beyond the count that reaches the cap;
ages stop where no request can tell them apart (`MaxAge`).

In `Snapshots`, `MaxEvents` bounds requests, failures and changes of the world
together; two are enough for a request beside one disturbance or beside another
request, while the scheduler's pass is free. One request works on documents and
one on rows, as documents of two requests meet only through rows and gateways. In
`Migrate` versions go to 3: a baseline, one that builds disagree on, one that only
a newer build has. The paths of `access` are all of up to two segments and the
longer ones in which a version, a dot segment or a trailing slash changes what
follows; its versions are two plain ones, a blank one, one with slashes after it,
`..`, `v1/auth` and `v1/config`. In `Instances` one image is enough, as nothing
branches on it (the theorems hold for any). In `HostAuth`, 8 ticks
are twice the time a nonce is kept. In `RateLimiter`, a burst that is no multiple of a token and a collection that is due
before a bucket is full are what the edges need.

Deadlock is checked in every run, and none has one: a read (`GetOperation`,
`FindAdmin`), a start, a tick or a new request is possible in every state, so a
stuck thread shows as a liveness violation instead.

Fairness (`Fairness`): the reconciler polls every 2 seconds for ever, and each
call has a time limit, so its steps are weakly fair; a host that is down now and
then answers again and again, and a thread that waits for a row lock is served in
its turn, hence strong fairness for polling, being heard and recording; a thread
that holds a row finishes its call and lets go; the host carries on with its
jobs. No request is ever obliged to come, and any request thread may stop.
In `LoginLockout` time passes and a request that began ends (each statement has
an outcome or the connection fails).
In `Migrate` a process runs on unless it stops, its statements are answered, and
PostgreSQL serves those who wait for an advisory lock in turn (strong fairness of
`Acquire`).

## 5. Proofs

`ApplianceOpsProofs` proves, for every value of the constants that satisfies
`ConstantsAssumption`:

- `TypeCorrect`: `Spec => []TypeOK`. One step per action; the lemmas before it
  say what each helper (`Expire`, `AppliedJob`, `submitJob`, ...) returns.
- `ExecutedOnce`: if `MaxLosses = 0` then `Spec => []ExecutedAtMostOnce`. The
  invariant is not inductive: it is strengthened to `JournalCounts`, the count is
  1 exactly when the journal has the job. `HostStep` classifies what a step makes
  of one operation's journal: unchanged, started, moved on, or lost.
- `NeverRestarted`: `Spec => ReportedNeverRestarted`, for any number of losses. It
  rests on `LockHeld`: whoever holds a row holds it alone and the row stays
  undelivered. Rows in state `QUEUED` are written only by the thread that holds
  them or while nobody does. The property itself excepts submissions OAM had given
  up on before.
- `AuditTrail`: `Spec => []AuditTrailKept`, for any losses, late requests and
  failing records. A thread decides what is news with the copy it read
  (`CopiesOld`: not newer than the row), so the invariant also says that the state
  in a copy is on record (`CopiesOnRecord`).
- `ChallengeForExecution`: `Spec => []ChallengeSpentOnExecution`. Submission and
  consumption are one transaction (`SpentOnce`), and nothing is executed before it
  was submitted (`SubmittedFirst`).
- `RowsFollowJournal`: if `MaxLosses = 0` then `Spec => []RowFollowsJournal`. The
  invariant `KeptInv` adds that every answer a thread still carries was true of the
  journal (`AnswersTrue`), that journals end once (`EndsOnce`), and that a thread
  is told "no such job" only of operations the host has not reported on
  (`UnknownUnreported`).
- `EndedNeverRan`, `TerminalStatesFinal`, `HostExecutesAlone`: if `MaxLosses = 0`
  and `"submit" \notin LateKinds` then `Spec => []EndedByOAMNeverRan`,
  `Spec => TerminalIsFinal`, `Spec => []HostExclusive`. `OwnInv` adds the index of
  the table (`OneActive`), that no abandoned submission waits (`NoneLate`) and that
  whoever is about to end an operation by itself does so of one that never ran
  (`DecidedRight`). A live job has an active row (`LiveActive`), whence exclusion.
- `OperationsImplementSlot`: under the same assumptions `Spec => ImplementsSlot`,
  the whole refinement: `Stage` maps a row and its journal to a stage of the slot,
  initial states map to initial states, and each kind of step (a write of one row,
  a step of the host, anything else) to a step of the slot or a stutter.

The lemma `RowCases` is where most of these meet: it says once, over all the
actions, in which of seven ways a step may rewrite a row, and the invariants are
proved from it and not from the actions. The two assumptions are needed: section 7
has a trace without either. Of both a deployment can be sure only if the journal
is durable and the adapter drops requests whose client is gone; of neither is
`AuditTrail`, `ChallengeForExecution` or `NeverRestarted` in need.

`AccountsProofs` proves, for any ids, names, passwords, tokens, threads, updates
and initial tables that satisfy the assumptions of `Accounts`:

- `AccountsTyped`: `Spec => []TypeOK`.
- `AdminKept`: `Spec => []AdminRemains`.
- `SessionsCurrent`: `Spec => []SessionsFollowPassword`.
- `RefusedIsFinal`: `Spec => RefusedForever`.

All four rest on one inductive invariant, `IInv`: types; what a request at each
place carries (`RequestsOK`); a thread between lock and write holds the table
lock, so there is one of them (`LockOK`); what it counted still holds when it
writes (`WriteOK`), since nobody else writes users meanwhile; and of the data
(`DataOK`) that rows have ids handed out, tokens values issued and owners handed
out, an administrator remains and accepted sessions match. `AdminRemains` alone
is not inductive: the count must be known to be current at the write.
`RefusedForever` needs that ids and token values are never handed out twice.

`SnapshotsProofs` proves `SnapshotsTyped`, `RestoresIntact` (`IntactOnly`),
`RestoresHaveSafetyNet` (`SafetyNet`) and `PinsHonoured` (`PinHonoured`), for any
number of requests, instances, snapshots and events, from one invariant `IInv`
over the threads. Each property is about the end of an operation of many steps,
so `IInv` says what a job carries at each of them: `Carries` (a restore that got
past the checksum has the document of `origin`), `Remembers` (a job nobody has
disturbed since it read a configuration knows it, first in its locals, then in the
row it stored), `Respects` (whoever is about to write or delete a row in `safe`
decided so after it was pinned), with `Origins` (checksums are those of what was
stored). `WriteStep`, `LastStep` and `WorldStep` say once what a thread owes to the
steps of others; each action is an instance of one of them.

It also proves the three action properties: `RetentionsSpare` (`RetentionSpares`),
`SelectionsKept` (`SelectionKept`) and `FlagsTruthful` (`FlagTruthful`). `NextTurn`
says once, over all the actions, that a step is one of a thread (`Turn`), which
leaves others as they are or tells them that their row has changed, one of the
retention pass, one of the world around OAM (`WorldTurn`), or a restart. On top of
it `ActInv` is inductive: a selection that names nothing is never at work
(`Chosen`); what a reader is about to write to a flag is true of the row unless it
was told (`Concluded`); a pass nobody interferes with knows the retain counts
(`Knows`), and what it has still to delete are candidates of one instance that
leave as many as are retained (`Spares`). The last holds when the victims are
chosen, as the newest of them has that many newer candidates, none of them a victim
(`VictimsSpare`), and each deletion takes one off both sides.

`MigrateProofs` proves `MigrateTyped`, `MigrationsExecutedOnce`,
`MigrationHistoryTruthful`, `ServersKnowSchema` and `StartersNeverConflict` for any
builds, databases and number of processes that satisfy the assumptions. The
invariant: who is between `Acquire` and `Unlock` holds the lock, so there is one of
them; what it read of the history is what is there; an open transaction holds
exactly the next migration; a migration counted as run is in the schema; and a
process that was promised to serve has all of its migrations (`Promised`), which
nobody takes away.

`HostAuthProofs` proves `NoncesTyped`, `RequestAcceptedOnce` and
`ReplayOnlyIfUsed` for every window with `MaxAhead + MaxStall <= Skew`. The
invariant: a nonce that was accepted is in the cache, or so old that no
verification under way or to come lets its timestamp pass.

`ThrottlingProofs` has the theorems of the two components that slow a caller down.
It extends `RateLimiter` and `LoginLockout`; to that end the specification of the
former has names of its own (`LimiterSpec`, `LimiterNext`, ...).

- `LimiterTyped`, `LimiterWindowBound` and `LimiterImplementsTokenBucket`, the
  whole refinement: initial states map to initial states, `LimiterTick` to `Refill`,
  `Allow` to `Request`, `NewWindow` to a stutter. The window bound needs that what a
  client has spent and what its bucket holds never exceed burst and credit together.
- `LockoutCountsOnlyWrong`: each request under way that will add to the row has
  been counted once.
- `LockoutTyped` and `LockoutAsDescribed` (`LockoutMatches`), for any limits. The
  duration is computed by a loop, in the model a recursive function. That it has a
  value for any number of rounds (`LoopExists`) and doubles below the cap
  (`LoopDoubles`) are shown by a least counterexample instead of an induction;
  `DurationDescribed` is the closed form. The invariant `LockInv` says that while
  requests come one at a time the plan of a request still fits the row (`Planned`)
  and the row is as described (`AsDescribed`). The provers know nothing of
  exponentiation: `PowersAssumption` states what they need of it, and TLC evaluates
  it. `CountAssumption` says that the bound of the counter lies beyond the cap.

`GatewayAccessProofs` proves `GatewayTyped` and `GatewayOriginTruthful`, by what is
known at each place of a request, and, for paths and versions of any length,
`GatewayRoutedAsAuthorized` (`RoutedAsAuthorized`) and `GatewayReservedKept`
(`ReservedKept`). Of the versions they assume only that they are sequences of
segments; that the two properties speak of plain endpoints is part of what they
state. The argument: a path without dot segments and empty ones is left by the
router as it is (`CleanLeaves`, a least counterexample over its positions); on a
plain endpoint (`PlainBase`) the URL is such a path, with the version in second
place and the canonical path after it (`BehindBase`), so what is routed is the path
that was authorized (`RoutedIsRel`); the rules of the middleware allow nothing else than
what the role may reach there (`AllowedMayReach`); and a rule that was let through
takes over nothing reserved (`UnmatchedSpares`). `RouteInv` carries that along:
the role that was checked, the URL that was built, the rule that was looked at.

`InstancesProofs` proves, for any writers, callers, rows, names, hosts, versions and
images,
`InstancesTyped`, `InstanceNamesUnique`, `FirmwareUpdatePreserves` and
`ProxyPoolFresh`. A type here says of a request at each place what it works on
(`Typed`). For names and firmware: as long as nothing overlapped there is one
writer at work (`OneAtWork`), and what it has read is still so (`NotStale`). For
the pool: what `PoolFresh` says of idle connections holds of those in use too
(`UsedFresh`), as one becomes the other, and only an operation that has called
Docker and has yet to end has touched a host (`Untouched`).

Only model-checked: liveness (`SubmittedSettles`, `LockoutEnds`, `StartsEnd`), which
is out of the prover's reach.

## 6. What is not modelled

Timestamps, hashes, messages and the JSON layout, on which no decision modelled
here depends; the cryptography of signatures and sealed blobs (what they promise is
modelled); permissions of routes other than those of users and of the proxy (a
refused request changes nothing); e-mail addresses, the flags the setup page shows
and the rules on a password's characters; more than one installation, as there is
one adapter. `AddUser` and `SaveToken` of `user_service.go` have no caller. The
parts listed as `not_modelled` in `PROJECT.json` are plain reads (status, alerts,
logs), a retry loop around opening the database, a polling service that nothing
starts, and generated documentation.

## 7. Disagreements met while modelling

Each is a trace of the models, or of one with a guard lifted. No run assumes any of
them away in its actions; where a property cannot hold because of one, its
statement names the exception (a ghost such as `safe` or `overlapped`, or the
condition `Plain`).

Appliance operations:

- If the host starts a job, its reply is lost and its journal then loses the job,
  `reconcile` delivers the operation a second time (`lifecycle.go:585`): OAM has no
  generation for it. The comment says "It never causes anything to be executed
  twice" (`lifecycle.go:567`), `hostfixture/jobs.go:144` calls it a double
  execution. `ExecutedOnce` is proved for a journal that loses nothing.
- `cancelUndelivered` takes "no such job" as proof that nothing will run
  (`lifecycle.go:737`), but a submission the client gave up on after 5 seconds
  (`host.go:179`) may still be processed: the operation is `CANCELLED` and runs.
  `docs/appliance-operations.md:253-256` says "never a cancellation that did not
  happen". Such a submission can also restart a reported operation whose job the
  journal has lost.
- A `HOST_UNREACHABLE` marker on an operation whose job is lost is never cleared:
  `reconcile` writes nothing when the row already says `HOST_JOB_LOST`
  (`lifecycle.go:587`), although the host answers.
- `POST .../reconcile` delivers an operation the host does not know
  (`lifecycle.go:585`); `docs/appliance-operations.md:264` says it never causes
  anything to be executed.
- An expired plan becomes `CANCELLED` without an audit row
  (`operation_store.go:123`, against `docs/appliance-operations.md:295`).
- After the journal lost a job and it was started again, an answer of the first
  with a higher generation moves a row out of a terminal state
  (`lifecycle.go:514`).

Users and lockout:

- `ResetAdminToDefault` selects an administrator without a lock and updates it by
  id (`user_service.go:1092`); if it was demoted or deleted in between, the reset
  reports success and nobody has the bootstrap credentials, against
  `docs/ADMIN_RESET_QUICK_GUIDE.md:11`.
- `RecordFailedLogin` computes the lockout from the count it read before
  (`user_service.go:1249`), while the upsert adds to the count that is there now;
  failures recorded at once leave a count above the limit without a lockout
  (`docs/constants.md:108`: "Failed attempts before lockout | 5").
- Of two setup requests that both verified the bootstrap password the second
  replaces what the first has just stored (`user_service.go:975`: no row lock
  before, `WHERE id` only).
- `UpdateUser` validates a new password against the new name
  (`user_service.go:270`), so with a rename the current password passes as new.
- `AuthorizeOperation` counts an outage of the store as a wrong password
  (`appliance_handler.go:439`); `Login` does not.

Snapshots:

- Retention deletes a snapshot that was pinned after the candidates were listed,
  and of two updates that overlap the later writes back the earlier pin
  (`snapshot_service.go:571`): hence `safe`.
- The retain count of a disabled schedule is ignored, and if the schedules cannot
  be listed every instance gets the default (`snapshot_scheduler.go:175`).
- `pre_restore` snapshots are candidates of retention, so the safety net of a
  restore may be pruned before it is needed.
- Two overlapping restores of one target leave the configuration between them in
  no snapshot: hence the condition in `SafetyNet`.
- A restore that times out is recorded without a result, which
  `MapGatewayRestoreResult` describes as nothing having been changed.
- A restore may bring in a rule on a reserved endpoint: the guard of the proxy
  does not see documents.

Instances and proxy:

- The name of an instance has no constraint in the schema; creates that overlap
  both pass `InstanceNameTaken` (`loxilb_service.go:106`): hence `overlapped`.
- A firmware update writes back the whole row it read before the Docker calls
  (`handler.go:851`), undoing an update in between. An update of a row deleted
  meanwhile answers 200.
- A firmware update bypasses the validation of instance fields: it stores the image
  and the version it is given (`handler.go:852-861`), and `api_endpoint` is built
  from that version (`loxilb_service.go:226`). A blank version or a slash after one
  does no harm. With others the canonical path is read from another root than the
  one it was classified for: on `..` the admin's `netlox/v1/auth` is routed as
  `auth`, which no role may reach; on `v1/auth` a viewer's `status` as
  `auth/status`; on `v1/config` a rule posted to `loadbalancer` arrives at
  `config/loadbalancer` unseen by the guard. Hence `Plain` in `RoutedAsAuthorized`
  and `ReservedKept`: without it TLC finds each of these.
- `resolveCaller` returns nil on any error of the database (`rbac.go:109-112`), and
  `RequireGatewayAccess` then answers a 401 marked `oam` (`rbac.go:170-176`), on
  which the console ends the session of a caller who is still known. The comment
  says nil "if claims are missing/invalid or the user no longer exists"
  (`rbac.go:93`). `OriginTruthful` claims only that the caller was not resolved.
- `docs/proxy-functionality.md:89-90` says that the proxy "does not add application
  credentials to the forwarded request" and line 177 that "Headers are forwarded
  transparently"; the code copies an allowlist of headers
  (`proxy_service.go:313-349`) and sets the service token
  (`gateway_identity.go:168-171`).
- The Docker helpers look at the error of a call and not at the status of its
  answer.
- A connection closed before the answer (`io.EOF`) is classified as unreachable,
  and any database error in `ForwardRequest`'s fetch is answered as 404.
- `Allow` reads the clock before it takes the mutex (`ratelimit.go`), so a bucket's
  `last` may step back by the difference; it is far below a tick of the model.
