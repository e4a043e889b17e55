------------------------------- MODULE Migrate -------------------------------
(***************************************************************************)
(* The schema migrations (internal/migrate/migrate.go, called by           *)
(* migrateSchema in main.go): server processes of different builds start   *)
(* against one PostgreSQL database, and each brings the schema to the      *)
(* version it was built for, checks it, or refuses to run.                 *)
(*                                                                         *)
(* Every statement sent to the database is a step.  A process may stop at  *)
(* any point (its session ends: the transaction is rolled back and the     *)
(* advisory lock released), a statement may fail, and the answer to a      *)
(* commit may be lost.                                                     *)
(*                                                                         *)
(* A migration is abstracted to its version and its checksum: two builds   *)
(* carry the same SQL exactly when the checksums agree.                    *)
(***************************************************************************)
EXTENDS Naturals

CONSTANTS Procs,       \* server processes
          Builds,      \* the builds: each the set of migrations embedded in it
          Sums,        \* checksums
          MaxVersion,  \* bound: the newest version of any build
          InitialDatabases, \* what a server may meet, see Database
          None,        \* no row, no migration
          Nobody       \* the advisory lock is free

Versions == 1..MaxVersion
Migrations == [version : Versions, sum : Sums]
Rows == [Versions -> Sums \cup {None}]

Recorded(h) == {v \in Versions : h[v] # None}

\* The i-th row of the history, ordered by version, is version i.
Contiguous(h) == \A v \in Recorded(h) : v > 1 => v - 1 \in Recorded(h)

(***************************************************************************)
(* A database: whether schema_migrations exists, its rows, and the         *)
(* migrations whose SQL is in effect.                                      *)
(***************************************************************************)
Database == [tracked : BOOLEAN, history : Rows, schema : Rows]

\* The history tells the truth: what is recorded is there, with the recorded
\* SQL (an adopted baseline is recorded unseen), and if there is no gap then
\* what is there is recorded, but for a baseline that was never tracked.
Truthful(history, schema) ==
    /\ \A v \in Recorded(history) :
          /\ schema[v] # None
          /\ v > 1 => schema[v] = history[v]
    /\ Contiguous(history) =>
          \A v \in Recorded(schema) :
             v \in Recorded(history) \/ (v = 1 /\ Recorded(history) = {})

ASSUME BoundAssumption == MaxVersion \in Nat \ {0}
ASSUME SymbolsAssumption == None \notin Sums \cup Versions /\ Nobody \notin Procs
ASSUME BuildsAssumption == \A fs \in Builds : fs \subseteq Migrations
ASSUME DatabasesAssumption ==
    \A d \in InitialDatabases :
       /\ d \in Database
       /\ d.tracked \/ Recorded(d.history) = {}
       /\ Truthful(d.history, d.schema)

VARIABLES tracked, history, schema, \* the database
          lock,    \* the session that holds the advisory lock
          pc,      \* where each process is
          files,   \* the migrations embedded in it
          mode,    \* OAM_DB_MIGRATE, or "auto" with the -migrate flag
          seen,    \* the history it has read, kept up to date by its own commits
          tx,      \* the migration its open transaction has executed
          verdict, \* what Run is about to return
          reason,  \* why it refused
          runs     \* for the properties: how often each version's SQL took effect

dbvars == <<tracked, history, schema, runs>>
vars == <<tracked, history, schema, lock, pc, files, mode, seen, tx, verdict, reason, runs>>

Empty == [v \in Versions |-> None]

PCs == {"idle", "lock", "create", "read", "probe", "adopt", "exec", "commit", "unlock",
        "inspect", "check", "checkProbe", "serving", "refused"}
Locked == {"create", "read", "probe", "adopt", "exec", "commit", "unlock"}
Resting == {"idle", "serving", "refused"}

TypeOK ==
    /\ tracked \in BOOLEAN /\ history \in Rows /\ schema \in Rows
    /\ lock \in Procs \cup {Nobody}
    /\ pc \in [Procs -> PCs]
    /\ files \in [Procs -> Builds \cup {{}}]
    /\ mode \in [Procs -> {"auto", "check", "off"}]
    /\ seen \in [Procs -> Rows]
    /\ tx \in [Procs -> Versions \cup {None}]
    /\ \A p \in Procs : tx[p] # None <=> pc[p] = "commit"
    /\ verdict \in [Procs -> {"serving", "refused"}]
    /\ reason \in [Procs -> {"none", "invalid", "history", "failure", "conflict"}]
    /\ runs \in [Versions -> 0..2]

Init ==
    /\ \E d \in InitialDatabases :
          /\ tracked = d.tracked /\ history = d.history /\ schema = d.schema
          /\ runs = [v \in Versions |-> IF d.schema[v] = None THEN 0 ELSE 1]
    /\ lock = Nobody
    /\ pc = [p \in Procs |-> "idle"]
    /\ files = [p \in Procs |-> {}]
    /\ mode = [p \in Procs |-> "auto"]
    /\ seen = [p \in Procs |-> Empty]
    /\ tx = [p \in Procs |-> None]
    /\ verdict = [p \in Procs |-> "refused"]
    /\ reason = [p \in Procs |-> "none"]

-----------------------------------------------------------------------------
\* Load: the versions run from the baseline without gaps or duplicates.
Loads(fs) ==
    /\ \E n \in Versions : {m.version : m \in fs} = 1..n
    /\ \A m, n \in fs : m.version = n.version => m = n

\* Mutant: the checksums are not compared.
BugAccepts(h, fs) ==
    Contiguous(h) /\ \A v \in Recorded(h) : v \in {m.version : m \in fs}

\* pending returns no error: the history has no gap, is not newer than this
\* build, and records the migrations this build carries.
Accepts(h, fs) ==
    /\ Contiguous(h)
    /\ \A v \in Recorded(h) : [version |-> v, sum |-> h[v]] \in fs

\* pending: the migrations still to apply, in the order of their versions.
Todo(h, fs) == {m \in fs : m.version \notin Recorded(h)}
First(ms) == CHOOSE m \in ms : \A n \in ms : m.version <= n.version

\* baselineProbeTable: every baseline creates it.
BaselineExists == schema[1] # None

Goto(p, l) == pc' = [pc EXCEPT ![p] = l]

\* Run returns: in auto mode the deferred unlock comes first.
Leave(p, v, r) ==
    /\ Goto(p, IF mode[p] = "auto" THEN "unlock" ELSE v)
    /\ verdict' = [verdict EXCEPT ![p] = v]
    /\ reason' = [reason EXCEPT ![p] = r]

-----------------------------------------------------------------------------
\* migrateSchema: the mode is read, then the embedded files are loaded.
Start(p) ==
    /\ pc[p] = "idle"
    /\ \E fs \in Builds, m \in {"auto", "check", "off"}, ok \in BOOLEAN :
          /\ files' = [files EXCEPT ![p] = fs]
          /\ mode' = [mode EXCEPT ![p] = m]
          /\ IF ok /\ Loads(fs)
             THEN /\ Goto(p, [auto |-> "lock", check |-> "inspect", off |-> "serving"][m])
                  /\ UNCHANGED reason
             ELSE /\ Goto(p, "refused")
                  /\ reason' = [reason EXCEPT ![p] = "invalid"]
    /\ UNCHANGED <<tracked, history, schema, lock, seen, tx, verdict, runs>>

\* Mutant: the lock is taken without waiting for it.
BugAcquire(p) ==
    /\ pc[p] = "lock"
    /\ lock' = p
    /\ Goto(p, "create")
    /\ UNCHANGED <<dbvars, files, mode, seen, tx, verdict, reason>>

\* SELECT pg_advisory_lock
Acquire(p) ==
    /\ pc[p] = "lock" /\ lock = Nobody
    /\ lock' = p
    /\ Goto(p, "create")
    /\ UNCHANGED <<dbvars, files, mode, seen, tx, verdict, reason>>

\* CREATE TABLE IF NOT EXISTS schema_migrations
CreateHistoryTable(p) ==
    /\ pc[p] = "create"
    /\ tracked' = TRUE
    /\ Goto(p, "read")
    /\ UNCHANGED <<history, schema, lock, files, mode, seen, tx, verdict, reason, runs>>

\* What apply does with the history h once it has it.
Decide(p, h) ==
    /\ seen' = [seen EXCEPT ![p] = h]
    /\ IF ~ Accepts(h, files[p]) THEN Leave(p, "refused", "history")
       ELSE IF Todo(h, files[p]) = {} THEN Leave(p, "serving", "none")
       ELSE Goto(p, "exec") /\ UNCHANGED <<verdict, reason>>

ReadHistory(p) ==
    /\ pc[p] = "read"
    /\ \/ /\ Recorded(history) = {}
          /\ Goto(p, "probe") /\ seen' = [seen EXCEPT ![p] = Empty]
          /\ UNCHANGED <<verdict, reason>>
       \/ Recorded(history) # {} /\ Decide(p, history)
    /\ UNCHANGED <<dbvars, lock, files, mode, tx>>

\* Mutant: an empty history is taken for an empty database.
BugProbe(p) ==
    /\ pc[p] = "probe"
    /\ Decide(p, Empty)
    /\ UNCHANGED <<dbvars, lock, files, mode, tx>>

Probe(p) ==
    /\ pc[p] = "probe"
    /\ \/ BaselineExists /\ Goto(p, "adopt") /\ UNCHANGED <<seen, verdict, reason>>
       \/ ~ BaselineExists /\ Decide(p, Empty)
    /\ UNCHANGED <<dbvars, lock, files, mode, tx>>

\* An existing schema is recorded as this build's baseline.
Adopt(p) ==
    /\ pc[p] = "adopt"
    /\ \E m \in files[p] :
          /\ m.version = 1
          /\ IF history[1] = None
             THEN /\ history' = [history EXCEPT ![1] = m.sum]
                  /\ Decide(p, [Empty EXCEPT ![1] = m.sum])
             ELSE Leave(p, "refused", "conflict") /\ UNCHANGED <<history, seen>>
    /\ UNCHANGED <<tracked, schema, lock, files, mode, tx, runs>>

\* Mutant: the SQL runs outside the transaction that records it.
BugExecSQL(p) ==
    /\ pc[p] = "exec"
    /\ LET m == First(Todo(seen[p], files[p])) IN
          /\ tx' = [tx EXCEPT ![p] = m.version]
          /\ schema' = [schema EXCEPT ![m.version] = m.sum]
    /\ Goto(p, "commit")
    /\ UNCHANGED <<tracked, history, lock, files, mode, seen, verdict, reason, runs>>

\* applyOne: BEGIN and the SQL of the first migration that is left ...
ExecSQL(p) ==
    /\ pc[p] = "exec"
    /\ tx' = [tx EXCEPT ![p] = First(Todo(seen[p], files[p])).version]
    /\ Goto(p, "commit")
    /\ UNCHANGED <<dbvars, lock, files, mode, seen, verdict, reason>>

\* ... then its row, whose version is the primary key, and COMMIT.  The answer
\* to the commit may be lost.
Commit(p) ==
    /\ pc[p] = "commit"
    /\ LET v == tx[p]
           m == CHOOSE n \in files[p] : n.version = v
       IN IF history[v] = None
          THEN /\ history' = [history EXCEPT ![v] = m.sum]
               /\ schema' = [schema EXCEPT ![v] = m.sum]
               /\ runs' = [runs EXCEPT ![v] = IF @ = 2 THEN 2 ELSE @ + 1]
               /\ \/ Decide(p, [seen[p] EXCEPT ![v] = m.sum])
                  \/ Leave(p, "refused", "failure") /\ UNCHANGED seen
          ELSE /\ Leave(p, "refused", "conflict")
               /\ UNCHANGED <<history, schema, seen, runs>>
    /\ tx' = [tx EXCEPT ![p] = None]
    /\ UNCHANGED <<tracked, lock, files, mode>>

\* The deferred pg_advisory_unlock, on a context of its own.
Unlock(p) ==
    /\ pc[p] = "unlock"
    /\ lock' = Nobody
    /\ Goto(p, verdict[p])
    /\ UNCHANGED <<dbvars, files, mode, seen, tx, verdict, reason>>

\* check: reads only, and takes no lock.
CheckTracked(p) ==
    /\ pc[p] = "inspect"
    /\ Goto(p, IF tracked THEN "check" ELSE "checkProbe")
    /\ UNCHANGED <<dbvars, lock, files, mode, seen, tx, verdict, reason>>

\* What check does with the history h.
Check(p, h) ==
    IF Accepts(h, files[p]) /\ Todo(h, files[p]) = {}
    THEN Leave(p, "serving", "none") ELSE Leave(p, "refused", "history")

CheckHistory(p) ==
    /\ pc[p] = "check"
    /\ \/ Recorded(history) = {} /\ Goto(p, "checkProbe") /\ UNCHANGED <<verdict, reason>>
       \/ Recorded(history) # {} /\ Check(p, history)
    /\ UNCHANGED <<dbvars, lock, files, mode, seen, tx>>

\* A baseline that was never tracked counts as this build's version 1.
CheckProbe(p) ==
    /\ pc[p] = "checkProbe"
    /\ \/ /\ BaselineExists
          /\ \E m \in files[p] : m.version = 1 /\ Check(p, [Empty EXCEPT ![1] = m.sum])
       \/ ~ BaselineExists /\ Leave(p, "refused", "history")
    /\ UNCHANGED <<dbvars, lock, files, mode, seen, tx>>

\* Mutant: an error returns without unlocking.
BugFail(p) ==
    /\ pc[p] \in {"lock", "create", "read", "probe", "adopt", "exec", "commit",
                  "inspect", "check", "checkProbe"}
    /\ Goto(p, "refused")
    /\ verdict' = [verdict EXCEPT ![p] = "refused"]
    /\ reason' = [reason EXCEPT ![p] = "failure"]
    /\ tx' = [tx EXCEPT ![p] = None]
    /\ UNCHANGED <<dbvars, lock, files, mode, seen>>

\* A statement fails, or DbMigrateTimeout passes: an open transaction is rolled
\* back.
Fail(p) ==
    /\ pc[p] \in {"lock", "create", "read", "probe", "adopt", "exec", "commit",
                  "inspect", "check", "checkProbe"}
    /\ Goto(p, IF pc[p] \in Locked THEN "unlock" ELSE "refused")
    /\ verdict' = [verdict EXCEPT ![p] = "refused"]
    /\ reason' = [reason EXCEPT ![p] = "failure"]
    /\ tx' = [tx EXCEPT ![p] = None]
    /\ UNCHANGED <<dbvars, lock, files, mode, seen>>

\* The process ends, by itself or by a crash, and may be started again.
Stop(p) ==
    /\ pc[p] # "idle"
    /\ Goto(p, "idle")
    /\ lock' = IF lock = p THEN Nobody ELSE lock
    /\ tx' = [tx EXCEPT ![p] = None]
    /\ seen' = [seen EXCEPT ![p] = Empty]
    /\ files' = [files EXCEPT ![p] = {}]
    /\ mode' = [mode EXCEPT ![p] = "auto"]
    /\ verdict' = [verdict EXCEPT ![p] = "refused"]
    /\ reason' = [reason EXCEPT ![p] = "none"]
    /\ UNCHANGED dbvars

-----------------------------------------------------------------------------
Step(p) ==
    \/ CreateHistoryTable(p) \/ ReadHistory(p) \/ Probe(p) \/ Adopt(p)
    \/ ExecSQL(p) \/ Commit(p) \/ Unlock(p)
    \/ CheckTracked(p) \/ CheckHistory(p) \/ CheckProbe(p)

Next == \E p \in Procs : Start(p) \/ Acquire(p) \/ Step(p) \/ Fail(p) \/ Stop(p)

Spec == Init /\ [][Next]_vars

\* A process runs on, its statements are answered, and PostgreSQL serves the
\* waiters of an advisory lock in turn.  No timeout is needed.
Fairness == \A p \in Procs : WF_vars(Step(p)) /\ SF_vars(Acquire(p))

FairSpec == Spec /\ Fairness

-----------------------------------------------------------------------------
(* Properties *)

\* A migration takes effect at most once, whatever fails and whoever starts
\* (applyOne: "a failed migration leaves no trace").
ExecutedOnce == \A v \in Versions : runs[v] <= 1

\* The history tells the truth about the schema at every moment, in the middle
\* of a migration and after a crash.
HistoryTruthful == Truthful(history, schema)

\* A server that was let to start by auto or check runs on a schema that holds
\* every migration of its build, with this build's SQL; whatever other builds
\* did before, since it looked or since it started.
ServesKnownSchema ==
    \A p \in Procs : pc[p] = "serving" /\ mode[p] # "off" =>
        \A m \in files[p] :
            /\ schema[m.version] # None
            /\ m.version > 1 => schema[m.version] = m.sum

\* Concurrent starters never make one another fail: the primary key of
\* schema_migrations never has to refuse a row.
NeverConflicts == \A p \in Procs : reason[p] # "conflict"

\* Every start comes to an end: nobody waits for ever behind the lock.
StartsEnd == \A p \in Procs : pc[p] \notin Resting ~> pc[p] \in Resting
=============================================================================
