---------------------------- MODULE MigrateProofs ----------------------------
(***************************************************************************)
(* Proofs about Migrate, for any number of processes, builds and versions. *)
(*                                                                         *)
(* The argument: whoever is past the advisory lock holds it, so there is   *)
(* only one such process (Holding); what it has read of the history is     *)
(* therefore still the history when it acts on it (Current); a version is  *)
(* applied only where neither the history nor the schema has it, so the    *)
(* schema only grows and a process that was let to serve keeps what it was *)
(* promised (Promised).                                                    *)
(***************************************************************************)
EXTENDS Migrate, TLAPS, WellFoundedInduction

Checking == {"inspect", "check", "checkProbe"}

HoldsAt(p) ==
    /\ pc[p] \in Locked => lock = p
    /\ pc[p] \in Locked \cup {"lock"} => mode[p] = "auto"
    /\ pc[p] \in Checking => mode[p] = "check"
    /\ pc[p] \in Locked \cup {"lock"} \cup Checking => Loads(files[p])

CurrentAt(p) ==
    /\ pc[p] \in {"probe", "adopt"} => Recorded(history) = {}
    /\ pc[p] = "adopt" => schema[1] # None
    /\ pc[p] \in {"exec", "commit"} =>
          /\ seen[p] = history
          /\ Accepts(history, files[p])
          /\ Todo(history, files[p]) # {}
          /\ Recorded(history) = {} => schema[1] = None
    /\ pc[p] = "commit" => \E m \in Todo(history, files[p]) : tx[p] = m.version

HasAll(fs, s) == \A m \in fs : s[m.version] # None /\ (m.version > 1 => s[m.version] = m.sum)

PromisedAt(p) ==
    mode[p] # "off" /\ (pc[p] = "serving" \/ (pc[p] = "unlock" /\ verdict[p] = "serving"))
        => HasAll(files[p], schema)

Holding == \A p \in Procs : HoldsAt(p)
Current == \A p \in Procs : CurrentAt(p)
Promised == \A p \in Procs : PromisedAt(p)

Counted == \A v \in Versions : runs[v] = IF schema[v] = None THEN 0 ELSE 1

IInv == TypeOK /\ Holding /\ Current /\ Promised /\ Counted /\ HistoryTruthful /\ NeverConflicts

-----------------------------------------------------------------------------
(* The operators *)

\* A set of migrations has one with the lowest version.
LEMMA FirstIn ==
    ASSUME NEW ms, ms \subseteq Migrations, ms # {}
    PROVE  First(ms) \in ms
<1> DEFINE T == {m.version : m \in ms}
           R == OpToRel(<, Nat)
<1>1. T \subseteq Nat /\ T # {}
  BY BoundAssumption DEF Migrations, Versions
<1>2. PICK x \in T : \A y \in T : ~ (<<y, x>> \in R)
  <2> HIDE DEF T, R
  <2>1. IsWellFoundedOn(R, Nat)
    BY NatLessThanWellFounded DEF R
  <2> QED BY <1>1, <2>1, WFMin
<1>3. \A y \in T : x <= y
  <2>1. R = {ss \in Nat \X Nat : ss[1] < ss[2]}
    BY DEF OpToRel
  <2>2. \A y \in T : y < x => <<y, x>> \in R
    <3> SUFFICES ASSUME NEW y \in T, y < x PROVE <<y, x>> \in {ss \in Nat \X Nat : ss[1] < ss[2]}
      BY <2>1, Zenon
    <3> QED BY <1>1
  <2> HIDE DEF R, T
  <2>3. \A y \in T : ~ (y < x)
    BY <1>2, <2>2, Zenon
  <2>4. \A y \in T : y \in Nat
    BY <1>1, Zenon
  <2> QED BY <2>3, <2>4, <1>2
<1>4. PICK m \in ms : m.version = x
  BY <1>2
<1>5. \A n \in ms : m.version <= n.version
  BY <1>3, <1>4
<1> QED BY <1>4, <1>5 DEF First

\* A build that accepts a truthful history and has nothing left to apply is
\* all there.
LEMMA AllApplied ==
    ASSUME NEW h \in Rows, NEW s \in Rows, Truthful(h, s),
           NEW fs, fs \subseteq Migrations, Loads(fs), Accepts(h, fs), Todo(h, fs) = {}
    PROVE  HasAll(fs, s)
<1> SUFFICES ASSUME NEW m \in fs
             PROVE  s[m.version] # None /\ (m.version > 1 => s[m.version] = m.sum)
  BY DEF HasAll
<1>1. m.version \in Versions /\ m.version \in Recorded(h)
  BY DEF Todo, Migrations
<1>2. [version |-> m.version, sum |-> h[m.version]] \in fs
  BY <1>1 DEF Accepts
<1>3. h[m.version] = m.sum
  <2> DEFINE n == [version |-> m.version, sum |-> h[m.version]]
  <2>1. n \in fs /\ n.version = m.version /\ n.sum = h[m.version] BY <1>2
  <2> HIDE DEF n
  <2> QED BY <2>1 DEF Loads
<1> QED BY <1>1, <1>3 DEF Truthful

\* No row is recorded: the history is Empty.
LEMMA NothingRecorded ==
    ASSUME NEW h \in Rows, Recorded(h) = {}
    PROVE  h = Empty
BY DEF Rows, Recorded, Empty

-----------------------------------------------------------------------------
(* The steps *)

\* The local state of process q is left alone.
Untouched(q) ==
    /\ pc'[q] = pc[q] /\ files'[q] = files[q] /\ mode'[q] = mode[q] /\ seen'[q] = seen[q]
    /\ tx'[q] = tx[q] /\ verdict'[q] = verdict[q] /\ reason'[q] = reason[q]

Grows == \A v \in Versions : schema[v] # None => schema'[v] = schema[v]

\* A step of p, who changes the database only while it holds the lock, leaves
\* the others what they rely on.
LEMMA OthersKeep ==
    ASSUME IInv, NEW p \in Procs, NEW q \in Procs, q # p, Untouched(q), TypeOK',
           \/ lock' = lock
           \/ lock = Nobody /\ lock' = p
           \/ lock = p /\ lock' = Nobody,
           UNCHANGED <<history, schema>> \/ (pc[p] \in Locked /\ Grows)
    PROVE  HoldsAt(q)' /\ CurrentAt(q)' /\ PromisedAt(q)' /\ reason'[q] # "conflict"
<1>1. HoldsAt(q) /\ CurrentAt(q) /\ PromisedAt(q) /\ reason[q] # "conflict"
  BY DEF IInv, Holding, Current, Promised, NeverConflicts
<1>2. HoldsAt(q)'
  BY <1>1, SymbolsAssumption, Zenon DEF HoldsAt, Untouched
<1>3. CurrentAt(q)'
  <2>1. CASE UNCHANGED <<history, schema>>
    BY <1>1, <2>1, Zenon DEF CurrentAt, Untouched, Recorded, Accepts, Todo, Contiguous
  <2>2. CASE pc[p] \in Locked
    <3>1. pc[q] \notin Locked
      BY <2>2, <1>1, Zenon DEF IInv, Holding, HoldsAt
    <3> QED BY <3>1 DEF CurrentAt, Untouched, Locked
  <2> QED BY <2>1, <2>2
<1>4. PromisedAt(q)'
  <2>1. files[q] \subseteq Migrations
    BY BuildsAssumption DEF IInv, TypeOK
  <2>2. HasAll(files[q], schema) => HasAll(files[q], schema')
    <3>1. CASE UNCHANGED <<history, schema>>
      BY <3>1
    <3>2. CASE Grows
      BY <2>1, <3>2 DEF HasAll, Grows, Migrations
    <3> QED BY <3>1, <3>2
  <2> HIDE DEF HasAll
  <2>3. PromisedAt(q)' <=> (mode'[q] # "off" /\ (pc'[q] = "serving"
             \/ (pc'[q] = "unlock" /\ verdict'[q] = "serving")) => HasAll(files'[q], schema'))
    BY Zenon DEF PromisedAt, HasAll
  <2> QED BY <1>1, <2>2, <2>3 DEF PromisedAt, Untouched
<1> QED BY <1>1, <1>2, <1>3, <1>4 DEF Untouched

\* What is left to show of a step of p.
LEMMA StepKeeps ==
    ASSUME IInv, NEW p \in Procs, \A q \in Procs \ {p} : Untouched(q), TypeOK',
           \/ lock' = lock
           \/ lock = Nobody /\ lock' = p
           \/ lock = p /\ lock' = Nobody,
           \/ UNCHANGED <<history, schema, runs>>
           \/ pc[p] \in Locked /\ Grows /\ Counted' /\ HistoryTruthful',
           HoldsAt(p)', CurrentAt(p)', PromisedAt(p)', reason'[p] # "conflict"
    PROVE  IInv'
<1>1. \A q \in Procs : HoldsAt(q)' /\ CurrentAt(q)' /\ PromisedAt(q)' /\ reason'[q] # "conflict"
  <2> SUFFICES ASSUME NEW q \in Procs, q # p
               PROVE  HoldsAt(q)' /\ CurrentAt(q)' /\ PromisedAt(q)' /\ reason'[q] # "conflict"
    OBVIOUS
  <2> QED BY OthersKeep
<1>2. Counted' /\ HistoryTruthful'
  <2>1. CASE UNCHANGED <<history, schema, runs>>
    BY <2>1 DEF IInv, Counted, HistoryTruthful
  <2> QED BY <2>1
<1> QED BY <1>1, <1>2 DEF IInv, Holding, Current, Promised, NeverConflicts

\* What apply decides once the history is known.
LEMMA DecideKeeps ==
    ASSUME TypeOK, NEW p \in Procs, NEW h \in Rows, Decide(p, h), h = history',
           pc[p] \in Locked, HoldsAt(p), lock' = lock, files' = files, mode' = mode,
           schema' \in Rows, HistoryTruthful',
           Recorded(history') = {} => schema'[1] = None
    PROVE  HoldsAt(p)' /\ CurrentAt(p)' /\ PromisedAt(p)'
<1>1. lock = p /\ mode[p] = "auto" /\ Loads(files[p]) /\ files[p] \subseteq Migrations
  BY BuildsAssumption DEF HoldsAt, TypeOK
<1>2. pc'[p] \in {"unlock", "exec"}
  BY <1>1 DEF Decide, Leave, Goto, TypeOK
<1>3. HoldsAt(p)'
  BY <1>1, <1>2 DEF HoldsAt, Checking
<1>4. CurrentAt(p)'
  <2>1. CASE pc'[p] = "unlock"
    BY <2>1 DEF CurrentAt
  <2>2. CASE pc'[p] = "exec"
    <3>1. seen'[p] = history' /\ Accepts(history', files[p]) /\ Todo(history', files[p]) # {}
      BY <1>1, <2>2 DEF Decide, Leave, Goto, TypeOK
    <3> QED BY <2>2, <3>1 DEF CurrentAt
  <2> QED BY <1>2, <2>1, <2>2
<1>5. PromisedAt(p)'
  <2>1. SUFFICES ASSUME verdict'[p] = "serving", pc'[p] = "unlock" PROVE HasAll(files[p], schema')
    BY <1>2 DEF PromisedAt
  <2>2. Accepts(h, files[p]) /\ Todo(h, files[p]) = {}
    BY <2>1 DEF Decide, Leave, Goto, TypeOK
  <2> QED BY <1>1, <2>2, AllApplied DEF HistoryTruthful
<1> QED BY <1>3, <1>4, <1>5

LEMMA InitKeeps == Init => IInv
<1> SUFFICES ASSUME Init PROVE IInv
  OBVIOUS
<1>1. PICK d \in InitialDatabases :
          /\ tracked = d.tracked /\ history = d.history /\ schema = d.schema
          /\ runs = [v \in Versions |-> IF d.schema[v] = None THEN 0 ELSE 1]
  BY DEF Init
<1>2. d \in Database /\ Truthful(d.history, d.schema)
  BY DatabasesAssumption
<1>3. TypeOK
  <2>1. tracked \in BOOLEAN /\ history \in Rows /\ schema \in Rows
    BY <1>1, <1>2 DEF Database
  <2>2. runs \in [Versions -> 0..2]
    BY <1>1
  <2>3. Empty \in Rows
    BY DEF Empty, Rows
  <2> QED BY <2>1, <2>2, <2>3 DEF Init, TypeOK, PCs
<1>4. Holding /\ Current /\ Promised /\ NeverConflicts
  BY DEF Init, Holding, HoldsAt, Current, CurrentAt, Promised, PromisedAt, NeverConflicts,
         Locked, Checking
<1>5. Counted /\ HistoryTruthful
  BY <1>1, <1>2 DEF Counted, HistoryTruthful
<1> QED BY <1>3, <1>4, <1>5 DEF IInv

LEMMA StartKeeps == ASSUME IInv, NEW p \in Procs, Start(p) PROVE IInv'
<1>1. PICK fs \in Builds, m \in {"auto", "check", "off"}, ok \in BOOLEAN :
          /\ files' = [files EXCEPT ![p] = fs]
          /\ mode' = [mode EXCEPT ![p] = m]
          /\ IF ok /\ Loads(fs)
             THEN /\ Goto(p, [auto |-> "lock", check |-> "inspect", off |-> "serving"][m])
                  /\ UNCHANGED reason
             ELSE /\ Goto(p, "refused")
                  /\ reason' = [reason EXCEPT ![p] = "invalid"]
  BY DEF Start
<1>2. \/ pc' = [pc EXCEPT ![p] = "refused"]
      \/ m = "auto" /\ pc' = [pc EXCEPT ![p] = "lock"] /\ Loads(fs)
      \/ m = "check" /\ pc' = [pc EXCEPT ![p] = "inspect"] /\ Loads(fs)
      \/ m = "off" /\ pc' = [pc EXCEPT ![p] = "serving"]
  BY <1>1 DEF Goto
<1>3. TypeOK'
  BY <1>1, <1>2 DEF IInv, TypeOK, Start, PCs
<1>4. \A q \in Procs \ {p} : Untouched(q)
  BY <1>1, <1>2 DEF IInv, TypeOK, Start, Untouched
<1>5. HoldsAt(p)'
  BY <1>1, <1>2 DEF IInv, TypeOK, HoldsAt, Locked, Checking
<1>6. CurrentAt(p)'
  BY <1>2 DEF IInv, TypeOK, CurrentAt
<1>7. PromisedAt(p)'
  BY <1>1, <1>2 DEF IInv, TypeOK, PromisedAt
<1>8. reason'[p] # "conflict"
  BY <1>1 DEF IInv, TypeOK, NeverConflicts
<1> QED BY <1>3, <1>4, <1>5, <1>6, <1>7, <1>8, StepKeeps DEF Start

LEMMA AcquireKeeps == ASSUME IInv, NEW p \in Procs, Acquire(p) PROVE IInv'
<1>1. TypeOK'
  BY DEF IInv, TypeOK, Acquire, Goto, PCs, dbvars
<1>2. \A q \in Procs \ {p} : Untouched(q)
  BY DEF IInv, TypeOK, Acquire, Goto, Untouched
<1>3. HoldsAt(p)' /\ CurrentAt(p)' /\ PromisedAt(p)' /\ reason'[p] # "conflict"
  BY DEF IInv, TypeOK, Acquire, Goto, Holding, HoldsAt, CurrentAt, PromisedAt, Locked, Checking,
         NeverConflicts
<1> QED BY <1>1, <1>2, <1>3, StepKeeps DEF Acquire, dbvars

LEMMA CreateKeeps == ASSUME IInv, NEW p \in Procs, CreateHistoryTable(p) PROVE IInv'
<1>1. TypeOK'
  BY DEF IInv, TypeOK, CreateHistoryTable, Goto, PCs
<1>2. \A q \in Procs \ {p} : Untouched(q)
  BY DEF IInv, TypeOK, CreateHistoryTable, Goto, Untouched
<1>3. HoldsAt(p)' /\ CurrentAt(p)' /\ PromisedAt(p)' /\ reason'[p] # "conflict"
  BY DEF IInv, TypeOK, CreateHistoryTable, Goto, Holding, HoldsAt, CurrentAt, PromisedAt, Locked,
         Checking, NeverConflicts
<1> QED BY <1>1, <1>2, <1>3, StepKeeps DEF CreateHistoryTable

\* The types of what Decide and Leave assign.
LEMMA DecideTyped ==
    ASSUME TypeOK, NEW p \in Procs, NEW h \in Rows, Decide(p, h)
    PROVE  /\ pc' \in [Procs -> PCs] /\ pc'[p] # "commit" /\ \A q \in Procs \ {p} : pc'[q] = pc[q]
           /\ seen' \in [Procs -> Rows] /\ \A q \in Procs \ {p} : seen'[q] = seen[q]
           /\ verdict' \in [Procs -> {"serving", "refused"}]
           /\ \A q \in Procs \ {p} : verdict'[q] = verdict[q]
           /\ reason' \in [Procs -> {"none", "invalid", "history", "failure", "conflict"}]
           /\ \A q \in Procs \ {p} : reason'[q] = reason[q]
           /\ reason[p] # "conflict" => reason'[p] # "conflict"
BY DEF TypeOK, Decide, Leave, Goto, PCs

LEMMA LeaveTyped ==
    ASSUME TypeOK, NEW p \in Procs, NEW v \in {"serving", "refused"},
           NEW r \in {"none", "history", "failure", "conflict"}, Leave(p, v, r)
    PROVE  /\ pc' \in [Procs -> PCs] /\ \A q \in Procs \ {p} : pc'[q] = pc[q]
           /\ pc'[p] = IF mode[p] = "auto" THEN "unlock" ELSE v
           /\ verdict' \in [Procs -> {"serving", "refused"}] /\ verdict'[p] = v
           /\ \A q \in Procs \ {p} : verdict'[q] = verdict[q]
           /\ reason' \in [Procs -> {"none", "invalid", "history", "failure", "conflict"}]
           /\ \A q \in Procs \ {p} : reason'[q] = reason[q]
           /\ reason'[p] = r
BY DEF TypeOK, Leave, Goto, PCs

LEMMA EmptyRows == Empty \in Rows
BY DEF Empty, Rows

LEMMA ReadKeeps == ASSUME IInv, NEW p \in Procs, ReadHistory(p) PROVE IInv'
<1>1. CASE Recorded(history) # {} /\ Decide(p, history)
  <2>1. TypeOK' /\ \A q \in Procs \ {p} : Untouched(q)
    BY <1>1, DecideTyped DEF IInv, TypeOK, ReadHistory, dbvars, Untouched
  <2>2. HoldsAt(p)' /\ CurrentAt(p)' /\ PromisedAt(p)'
    BY <1>1, <2>1, DecideKeeps
       DEF IInv, TypeOK, ReadHistory, dbvars, Locked, Holding, HistoryTruthful
  <2>3. history \in Rows /\ TypeOK /\ reason[p] # "conflict"
    BY DEF IInv, TypeOK, NeverConflicts
  <2>4. reason'[p] # "conflict"
    BY <1>1, <2>3, DecideTyped
  <2> QED BY <2>1, <2>2, <2>4, StepKeeps DEF ReadHistory, dbvars
<1>2. CASE Recorded(history) = {}
  <2>1. TypeOK'
    BY <1>2, EmptyRows DEF IInv, TypeOK, ReadHistory, Goto, PCs, dbvars
  <2>2. \A q \in Procs \ {p} : Untouched(q)
    BY <1>2 DEF IInv, TypeOK, ReadHistory, Goto, Untouched
  <2>3. HoldsAt(p)' /\ CurrentAt(p)' /\ PromisedAt(p)' /\ reason'[p] # "conflict"
    BY <1>2 DEF IInv, TypeOK, ReadHistory, Goto, Holding, HoldsAt, CurrentAt, PromisedAt, Locked,
           Checking, NeverConflicts, dbvars
  <2> QED BY <2>1, <2>2, <2>3, StepKeeps DEF ReadHistory, dbvars
<1> QED BY <1>1, <1>2 DEF ReadHistory

LEMMA ProbeKeeps == ASSUME IInv, NEW p \in Procs, Probe(p) PROVE IInv'
<1>0. /\ history \in Rows /\ Recorded(history) = {} /\ TypeOK /\ HoldsAt(p)
      /\ HistoryTruthful /\ reason[p] # "conflict"
  BY DEF IInv, TypeOK, NeverConflicts, Current, CurrentAt, Probe, Holding
<1>1. CASE ~ BaselineExists /\ Decide(p, Empty)
  <2>1. TypeOK' /\ (\A q \in Procs \ {p} : Untouched(q)) /\ reason'[p] # "conflict"
    <3>1. UNCHANGED <<dbvars, lock, files, mode, tx>> /\ pc[p] = "probe"
      BY DEF Probe
    <3> QED BY <1>0, <1>1, <3>1, DecideTyped, EmptyRows DEF TypeOK, dbvars, Untouched
  <2>2. history' = Empty
    BY <1>0, NothingRecorded DEF Probe, dbvars
  <2>3. HistoryTruthful' /\ schema'[1] = None
    BY <1>0, <1>1 DEF Probe, dbvars, HistoryTruthful, BaselineExists
  <2>4. schema' \in Rows /\ lock' = lock /\ files' = files /\ mode' = mode /\ pc[p] \in Locked
    BY <1>0 DEF Probe, dbvars, TypeOK, Locked
  <2>5. HoldsAt(p)' /\ CurrentAt(p)' /\ PromisedAt(p)'
    BY <1>0, <1>1, <2>2, <2>3, <2>4, EmptyRows, DecideKeeps
  <2> QED BY <2>1, <2>5, StepKeeps DEF Probe, dbvars
<1>2. CASE BaselineExists /\ Goto(p, "adopt") /\ UNCHANGED <<seen, verdict, reason>>
  <2>1. TypeOK'
    BY <1>0, <1>2 DEF TypeOK, Probe, Goto, PCs, dbvars
  <2>2. \A q \in Procs \ {p} : Untouched(q)
    BY <1>0, <1>2 DEF TypeOK, Probe, Goto, Untouched
  <2>3. HoldsAt(p)' /\ CurrentAt(p)' /\ PromisedAt(p)' /\ reason'[p] # "conflict"
    BY <1>0, <1>2 DEF TypeOK, Probe, Goto, HoldsAt, CurrentAt, PromisedAt, Locked, Checking,
           dbvars, BaselineExists, Recorded
  <2> QED BY <2>1, <2>2, <2>3, StepKeeps DEF Probe, dbvars
<1> QED BY <1>1, <1>2 DEF Probe

LEMMA AdoptKeeps == ASSUME IInv, NEW p \in Procs, Adopt(p) PROVE IInv'
<1>1. /\ history \in Rows /\ schema \in Rows /\ Recorded(history) = {} /\ TypeOK /\ HoldsAt(p)
      /\ HistoryTruthful /\ reason[p] # "conflict" /\ schema[1] # None /\ Counted
  BY DEF IInv, TypeOK, NeverConflicts, Current, CurrentAt, Adopt, Holding
<1>2. history = Empty /\ 1 \in Versions
  BY <1>1, NothingRecorded, BoundAssumption DEF Versions
<1>3. history[1] = None
  BY <1>2 DEF Empty
<1>4. PICK m \in files[p] : /\ m.version = 1
                            /\ history' = [Empty EXCEPT ![1] = m.sum]
                            /\ Decide(p, [Empty EXCEPT ![1] = m.sum])
  BY <1>2, <1>3 DEF Adopt
<1>5. m.sum \in Sums
  BY <1>1, BuildsAssumption DEF TypeOK, Migrations
<1> DEFINE h == [Empty EXCEPT ![1] = m.sum]
<1>6. h \in Rows /\ Recorded(h) = {1} /\ h[1] # None
  BY <1>2, <1>5, SymbolsAssumption DEF Rows, Empty, Recorded
<1>7. history' = h /\ Decide(p, h)
  BY <1>4
<1> HIDE DEF h
<1>8. UNCHANGED <<tracked, schema, lock, files, mode, tx, runs>> /\ pc[p] = "adopt"
  BY DEF Adopt
<1>9. TypeOK' /\ (\A q \in Procs \ {p} : Untouched(q)) /\ reason'[p] # "conflict"
  BY <1>1, <1>6, <1>7, <1>8, DecideTyped DEF TypeOK, Untouched
<1>10. HistoryTruthful'
  <2>1. Truthful(h, schema)
    <3>1. Contiguous(history)
      BY <1>1 DEF Contiguous
    <3>2. \A v \in Recorded(schema) : v = 1
      BY <1>1, <3>1 DEF HistoryTruthful, Truthful
    <3> QED BY <1>1, <1>6, <3>2 DEF Truthful
  <2> QED BY <1>7, <1>8, <2>1 DEF HistoryTruthful
<1>11. HoldsAt(p)' /\ CurrentAt(p)' /\ PromisedAt(p)'
  BY <1>1, <1>6, <1>7, <1>8, <1>10, DecideKeeps DEF Locked
<1>12. Counted' /\ Grows /\ pc[p] \in Locked
  BY <1>1, <1>8 DEF Counted, Grows, Locked
<1> QED BY <1>8, <1>9, <1>10, <1>11, <1>12, StepKeeps

LEMMA ExecKeeps == ASSUME IInv, NEW p \in Procs, ExecSQL(p) PROVE IInv'
<1>1. /\ TypeOK /\ HoldsAt(p) /\ CurrentAt(p) /\ reason[p] # "conflict"
      /\ files[p] \subseteq Migrations
  BY BuildsAssumption DEF IInv, TypeOK, NeverConflicts, Current, Holding
<1>2. seen[p] = history /\ Todo(history, files[p]) # {} /\ Todo(history, files[p]) \subseteq Migrations
  BY <1>1 DEF ExecSQL, CurrentAt, Todo
<1>3. PICK m \in Todo(history, files[p]) : tx' = [tx EXCEPT ![p] = m.version]
  BY <1>2, FirstIn DEF ExecSQL
<1>4. m.version \in Versions
  BY <1>2 DEF Migrations
<1>5. TypeOK'
  BY <1>1, <1>3, <1>4, SymbolsAssumption DEF TypeOK, ExecSQL, Goto, PCs, dbvars
<1>6. \A q \in Procs \ {p} : Untouched(q)
  BY <1>1, <1>3 DEF TypeOK, ExecSQL, Goto, Untouched
<1>7. HoldsAt(p)' /\ PromisedAt(p)' /\ reason'[p] # "conflict"
  BY <1>1 DEF TypeOK, ExecSQL, Goto, HoldsAt, PromisedAt, Locked, Checking
<1>8. CurrentAt(p)'
  <2>1. pc'[p] = "commit" /\ UNCHANGED <<history, schema, files, seen>> /\ tx'[p] = m.version
    BY <1>1, <1>3 DEF TypeOK, ExecSQL, Goto, dbvars
  <2>2. /\ seen[p] = history /\ Accepts(history, files[p])
        /\ Recorded(history) = {} => schema[1] = None
    BY <1>1 DEF CurrentAt, ExecSQL
  <2> QED BY <1>2, <1>3, <2>1, <2>2 DEF CurrentAt, Todo, Recorded
<1> QED BY <1>5, <1>6, <1>7, <1>8, StepKeeps DEF ExecSQL, dbvars

\* The version committed is new to the history and to the schema.
LEMMA CommitKeeps == ASSUME IInv, NEW p \in Procs, Commit(p) PROVE IInv'
<1> DEFINE v == tx[p]
           m == CHOOSE n \in files[p] : n.version = v
<1>1. /\ history \in Rows /\ schema \in Rows /\ runs \in [Versions -> 0..2] /\ TypeOK
      /\ HoldsAt(p) /\ HistoryTruthful /\ reason[p] # "conflict" /\ Counted
      /\ seen[p] = history /\ Accepts(history, files[p])
      /\ Recorded(history) = {} => schema[1] = None
      /\ \E n \in Todo(history, files[p]) : v = n.version
  BY DEF IInv, TypeOK, NeverConflicts, Current, CurrentAt, Commit, Holding
<1>2. m \in files[p] /\ m.version = v /\ v \notin Recorded(history)
  BY <1>1 DEF Todo
<1>3. v \in Versions /\ m.sum \in Sums /\ m.sum # None
  BY <1>1, <1>2, BuildsAssumption, SymbolsAssumption DEF TypeOK, Migrations
<1> HIDE DEF m
<1>4. history[v] = None
  BY <1>2, <1>3 DEF Recorded
<1>5. schema[v] = None
  <2>1. SUFFICES ASSUME v \in Recorded(schema) PROVE FALSE
    BY <1>3 DEF Recorded
  <2> QED BY <1>1, <1>2, <2>1 DEF Accepts, HistoryTruthful, Truthful, Recorded
<1> DEFINE h == [history EXCEPT ![v] = m.sum]
           s == [schema EXCEPT ![v] = m.sum]
<1>6. /\ history' = h /\ schema' = s
      /\ runs' = [runs EXCEPT ![v] = IF @ = 2 THEN 2 ELSE @ + 1]
      /\ \/ Decide(p, h)
         \/ Leave(p, "refused", "failure") /\ UNCHANGED seen
      /\ tx' = [tx EXCEPT ![p] = None]
      /\ UNCHANGED <<tracked, lock, files, mode>> /\ pc[p] = "commit"
  BY <1>1, <1>4 DEF Commit, m
<1>7. /\ h \in Rows /\ s \in Rows /\ h[v] = m.sum /\ s[v] = m.sum
      /\ \A w \in Versions \ {v} : h[w] = history[w] /\ s[w] = schema[w]
  BY <1>1, <1>3 DEF Rows
<1> HIDE DEF h, s, v
<1>8. Recorded(h) = Recorded(history) \cup {v} /\ Recorded(s) = Recorded(schema) \cup {v}
  BY <1>3, <1>7 DEF Recorded
<1>9. HistoryTruthful' /\ Recorded(h) # {}
  <2>1. \A w \in Recorded(schema) : w \in Recorded(history)
    BY <1>1 DEF Accepts, HistoryTruthful, Truthful, Recorded
  <2>2. Recorded(history) \subseteq Versions /\ Recorded(schema) \subseteq Versions
    BY DEF Recorded
  <2>3. \A w \in Recorded(history) : schema[w] # None /\ (w > 1 => schema[w] = history[w])
    BY <1>1 DEF HistoryTruthful, Truthful
  <2>4. Truthful(h, s)
    <3>1. \A w \in Recorded(h) : s[w] # None /\ (w > 1 => s[w] = h[w])
      BY <1>3, <1>7, <1>8, <2>2, <2>3
    <3>2. \A w \in Recorded(s) : w \in Recorded(h)
      BY <1>8, <2>1
    <3> QED BY <3>1, <3>2 DEF Truthful
  <2> QED BY <1>6, <1>8, <2>4 DEF HistoryTruthful
<1>10. Counted' /\ Grows /\ pc[p] \in Locked
  <2>1. runs[v] = 0
    BY <1>1, <1>3, <1>5 DEF Counted
  <2>2. runs'[v] = 1 /\ \A w \in Versions \ {v} : runs'[w] = runs[w]
    BY <1>1, <1>3, <1>6, <2>1
  <2>3. Counted'
    BY <1>1, <1>3, <1>6, <1>7, <2>2 DEF Counted
  <2>4. Grows
    BY <1>3, <1>5, <1>6, <1>7 DEF Grows
  <2> QED BY <1>6, <2>3, <2>4 DEF Locked
<1>11. runs' \in [Versions -> 0..2]
  BY <1>1, <1>3, <1>6
<1>12. tx' \in [Procs -> Versions \cup {None}] /\ tx'[p] = None /\ \A q \in Procs \ {p} : tx'[q] = tx[q]
  BY <1>1, <1>6 DEF TypeOK
<1>13. CASE Decide(p, h)
  <2>1. TypeOK' /\ (\A q \in Procs \ {p} : Untouched(q)) /\ reason'[p] # "conflict"
    BY <1>1, <1>6, <1>7, <1>11, <1>12, <1>13, DecideTyped DEF TypeOK, Untouched
  <2>2. HoldsAt(p)' /\ CurrentAt(p)' /\ PromisedAt(p)'
    BY <1>1, <1>6, <1>7, <1>9, <1>10, <1>13, DecideKeeps
  <2> QED BY <1>6, <1>9, <1>10, <2>1, <2>2, StepKeeps
<1>14. CASE Leave(p, "refused", "failure") /\ UNCHANGED seen
  <2>1. mode[p] = "auto" /\ lock = p /\ Loads(files[p])
    BY <1>1, <1>10 DEF HoldsAt
  <2>2. pc'[p] = "unlock" /\ verdict'[p] = "refused" /\ reason'[p] = "failure"
    BY <1>1, <1>14, <2>1, LeaveTyped
  <2>3. TypeOK' /\ (\A q \in Procs \ {p} : Untouched(q))
    BY <1>1, <1>6, <1>7, <1>11, <1>12, <1>14, <2>2, LeaveTyped DEF TypeOK, Untouched
  <2>4. HoldsAt(p)' /\ CurrentAt(p)' /\ PromisedAt(p)'
    BY <1>6, <2>1, <2>2 DEF HoldsAt, CurrentAt, PromisedAt, Locked, Checking
  <2> QED BY <1>6, <1>9, <1>10, <2>2, <2>3, <2>4, StepKeeps
<1> QED BY <1>6, <1>13, <1>14

LEMMA UnlockKeeps == ASSUME IInv, NEW p \in Procs, Unlock(p) PROVE IInv'
<1>1. TypeOK /\ HoldsAt(p) /\ PromisedAt(p) /\ reason[p] # "conflict"
  BY DEF IInv, Holding, Promised, NeverConflicts
<1>2. pc[p] = "unlock" /\ lock = p /\ lock' = Nobody
  BY <1>1 DEF Unlock, HoldsAt, Locked
<1>3. TypeOK' /\ pc'[p] = verdict[p] /\ verdict[p] \in {"serving", "refused"}
  BY <1>1 DEF TypeOK, Unlock, Goto, PCs, dbvars
<1>4. \A q \in Procs \ {p} : Untouched(q)
  BY <1>1 DEF TypeOK, Unlock, Goto, Untouched
<1>5. HoldsAt(p)' /\ CurrentAt(p)' /\ reason'[p] # "conflict"
  BY <1>1, <1>3 DEF HoldsAt, CurrentAt, Locked, Checking, Unlock
<1>6. PromisedAt(p)'
  BY <1>1, <1>2, <1>3 DEF PromisedAt, HasAll, Unlock, dbvars
<1> QED BY <1>2, <1>3, <1>4, <1>5, <1>6, StepKeeps DEF Unlock, dbvars

LEMMA CheckTrackedKeeps == ASSUME IInv, NEW p \in Procs, CheckTracked(p) PROVE IInv'
<1>1. TypeOK'
  BY DEF IInv, TypeOK, CheckTracked, Goto, PCs, dbvars
<1>2. \A q \in Procs \ {p} : Untouched(q)
  BY DEF IInv, TypeOK, CheckTracked, Goto, Untouched
<1>3. HoldsAt(p)' /\ CurrentAt(p)' /\ PromisedAt(p)' /\ reason'[p] # "conflict"
  BY DEF IInv, TypeOK, CheckTracked, Goto, Holding, HoldsAt, CurrentAt, PromisedAt, Locked,
         Checking, NeverConflicts
<1> QED BY <1>1, <1>2, <1>3, StepKeeps DEF CheckTracked, dbvars

\* What check concludes from the history h is true of the schema.
LEMMA CheckKeeps ==
    ASSUME IInv, NEW p \in Procs, NEW h \in Rows, Truthful(h, schema), Check(p, h),
           pc[p] \in Checking, UNCHANGED <<dbvars, lock, files, mode, seen, tx>>
    PROVE  IInv'
<1>1. TypeOK /\ HoldsAt(p) /\ schema \in Rows /\ files[p] \subseteq Migrations
  BY BuildsAssumption DEF IInv, Holding, TypeOK
<1>2. mode[p] = "check" /\ Loads(files[p])
  BY <1>1 DEF HoldsAt
<1>3. PICK w \in {"serving", "refused"}, r \in {"none", "history"} :
         /\ Leave(p, w, r)
         /\ w = "serving" => Accepts(h, files[p]) /\ Todo(h, files[p]) = {}
  BY DEF Check
<1>4. pc'[p] = w /\ reason'[p] = r
  BY <1>1, <1>2, <1>3, LeaveTyped
<1>5. tx[p] = None
  BY <1>1 DEF TypeOK, Checking
<1>6. TypeOK' /\ \A q \in Procs \ {p} : Untouched(q)
  BY <1>1, <1>3, <1>4, <1>5, LeaveTyped DEF TypeOK, Untouched, dbvars
<1>7. HoldsAt(p)' /\ CurrentAt(p)'
  BY <1>4 DEF HoldsAt, CurrentAt, Locked, Checking
<1>8. PromisedAt(p)'
  <2>1. w = "serving" => HasAll(files[p], schema)
    BY <1>1, <1>2, <1>3, AllApplied
  <2> QED BY <1>4, <2>1 DEF PromisedAt, HasAll, dbvars
<1> QED BY <1>4, <1>6, <1>7, <1>8, StepKeeps DEF dbvars

LEMMA CheckHistoryKeeps == ASSUME IInv, NEW p \in Procs, CheckHistory(p) PROVE IInv'
<1>1. CASE Recorded(history) # {} /\ Check(p, history)
  BY <1>1, CheckKeeps DEF CheckHistory, IInv, HistoryTruthful, TypeOK, Checking
<1>2. CASE Recorded(history) = {} /\ Goto(p, "checkProbe") /\ UNCHANGED <<verdict, reason>>
  <2>1. TypeOK'
    BY <1>2 DEF IInv, TypeOK, CheckHistory, Goto, PCs, dbvars
  <2>2. \A q \in Procs \ {p} : Untouched(q)
    BY <1>2 DEF IInv, TypeOK, CheckHistory, Goto, Untouched
  <2>3. HoldsAt(p)' /\ CurrentAt(p)' /\ PromisedAt(p)' /\ reason'[p] # "conflict"
    BY <1>2 DEF IInv, TypeOK, CheckHistory, Goto, Holding, HoldsAt, CurrentAt, PromisedAt, Locked,
           Checking, NeverConflicts
  <2> QED BY <2>1, <2>2, <2>3, StepKeeps DEF CheckHistory, dbvars
<1> QED BY <1>1, <1>2 DEF CheckHistory

\* A baseline that is not recorded is all that a process may serve on which
\* looks at the schema itself.
LEMMA CheckProbeKeeps == ASSUME IInv, NEW p \in Procs, CheckProbe(p) PROVE IInv'
<1>1. /\ TypeOK /\ HoldsAt(p) /\ schema \in Rows /\ files[p] \subseteq Migrations
      /\ pc[p] = "checkProbe" /\ UNCHANGED <<dbvars, lock, files, mode, seen, tx>>
      /\ reason[p] # "conflict"
  BY BuildsAssumption DEF IInv, Holding, TypeOK, CheckProbe, NeverConflicts
<1>2. mode[p] = "check" /\ Loads(files[p])
  BY <1>1 DEF HoldsAt, Checking
<1>3. CASE Leave(p, "refused", "history")
  <2>1. pc'[p] = "refused" /\ reason'[p] = "history"
    BY <1>1, <1>2, <1>3, LeaveTyped
  <2>2. tx[p] = None
    BY <1>1 DEF TypeOK
  <2>3. TypeOK' /\ \A q \in Procs \ {p} : Untouched(q)
    BY <1>1, <1>3, <2>1, <2>2, LeaveTyped DEF TypeOK, Untouched, dbvars
  <2>4. HoldsAt(p)' /\ CurrentAt(p)' /\ PromisedAt(p)'
    BY <2>1 DEF HoldsAt, CurrentAt, PromisedAt, Locked, Checking
  <2> QED BY <1>1, <2>1, <2>3, <2>4, StepKeeps DEF dbvars
<1>4. ASSUME BaselineExists, NEW m \in files[p], m.version = 1, Check(p, [Empty EXCEPT ![1] = m.sum])
      PROVE  IInv'
  <2> DEFINE h == [Empty EXCEPT ![1] = m.sum]
  <2>1. m.sum \in Sums /\ 1 \in Versions
    BY <1>1, BoundAssumption DEF Migrations, Versions
  <2>2. h \in Rows /\ Recorded(h) = {1}
    BY <2>1, SymbolsAssumption DEF Rows, Empty, Recorded
  <2>3. Check(p, h)
    BY <1>4
  <2> HIDE DEF h
  <2>4. CASE Leave(p, "refused", "history")
    BY <1>3, <2>4
  <2>5. CASE Leave(p, "serving", "none") /\ Accepts(h, files[p]) /\ Todo(h, files[p]) = {}
    <3>1. pc'[p] = "serving" /\ reason'[p] = "none"
      BY <1>1, <1>2, <2>5, LeaveTyped
    <3>2. tx[p] = None
      BY <1>1 DEF TypeOK
    <3>3. TypeOK' /\ \A q \in Procs \ {p} : Untouched(q)
      BY <1>1, <2>5, <3>1, <3>2, LeaveTyped DEF TypeOK, Untouched, dbvars
    <3>4. HoldsAt(p)' /\ CurrentAt(p)'
      BY <3>1 DEF HoldsAt, CurrentAt, Locked, Checking
    <3>5. HasAll(files[p], schema)
      <4>1. \A n \in files[p] : n.version = 1
        BY <2>2, <2>5 DEF Todo
      <4> QED BY <1>4, <4>1 DEF HasAll, BaselineExists
    <3>6. PromisedAt(p)'
      BY <1>1, <3>5 DEF PromisedAt, HasAll, dbvars
    <3> QED BY <1>1, <3>1, <3>3, <3>4, <3>6, StepKeeps DEF dbvars
  <2> QED BY <2>3, <2>4, <2>5 DEF Check
<1> QED BY <1>3, <1>4 DEF CheckProbe

LEMMA FailKeeps == ASSUME IInv, NEW p \in Procs, Fail(p) PROVE IInv'
<1>1. TypeOK'
  BY DEF IInv, TypeOK, Fail, Goto, PCs, dbvars
<1>2. \A q \in Procs \ {p} : Untouched(q)
  BY DEF IInv, TypeOK, Fail, Goto, Untouched
<1>3. HoldsAt(p)' /\ CurrentAt(p)' /\ PromisedAt(p)' /\ reason'[p] # "conflict"
  BY DEF IInv, TypeOK, Fail, Goto, Holding, HoldsAt, CurrentAt, PromisedAt, Locked, Checking
<1> QED BY <1>1, <1>2, <1>3, StepKeeps DEF Fail, dbvars

LEMMA StopKeeps == ASSUME IInv, NEW p \in Procs, Stop(p) PROVE IInv'
<1>1. TypeOK'
  BY EmptyRows DEF IInv, TypeOK, Stop, Goto, PCs, dbvars
<1>2. \A q \in Procs \ {p} : Untouched(q)
  BY DEF IInv, TypeOK, Stop, Goto, Untouched
<1>3. HoldsAt(p)' /\ CurrentAt(p)' /\ PromisedAt(p)' /\ reason'[p] # "conflict"
  BY DEF IInv, TypeOK, Stop, Goto, HoldsAt, CurrentAt, PromisedAt, Locked, Checking
<1> QED BY <1>1, <1>2, <1>3, StepKeeps DEF Stop, dbvars

LEMMA StutterKeeps == ASSUME IInv, UNCHANGED vars PROVE IInv'
BY DEF IInv, vars, TypeOK, Holding, HoldsAt, Current, CurrentAt, Promised, PromisedAt, HasAll,
       Counted, HistoryTruthful, Truthful, Contiguous, NeverConflicts, Recorded, Accepts, Todo, Loads

LEMMA NextKeeps == IInv /\ [Next]_vars => IInv'
<1> SUFFICES ASSUME IInv, [Next]_vars PROVE IInv'
  OBVIOUS
<1>1. ASSUME NEW p \in Procs, Step(p) PROVE IInv'
  BY <1>1, CreateKeeps, ReadKeeps, ProbeKeeps, AdoptKeeps, ExecKeeps, CommitKeeps, UnlockKeeps,
     CheckTrackedKeeps, CheckHistoryKeeps, CheckProbeKeeps DEF Step
<1>2. CASE Next
  BY <1>1, <1>2, StartKeeps, AcquireKeeps, FailKeeps, StopKeeps DEF Next
<1> QED BY <1>2, StutterKeeps

-----------------------------------------------------------------------------
(* The theorems *)

LEMMA InductiveInvariant == Spec => []IInv
BY InitKeeps, NextKeeps, PTL DEF Spec

\* The state stays in its types, whoever starts, fails or stops.
THEOREM MigrateTyped == Spec => []TypeOK
<1>1. IInv => TypeOK BY DEF IInv
<1> QED BY <1>1, InductiveInvariant, PTL

\* A migration takes effect at most once (applyOne and the advisory lock).
THEOREM MigrationsExecutedOnce == Spec => []ExecutedOnce
<1>1. IInv => ExecutedOnce
  BY DEF IInv, Counted, ExecutedOnce
<1> QED BY <1>1, InductiveInvariant, PTL

\* The history tells the truth about the schema (applyOne, adoptBaseline).
THEOREM MigrationHistoryTruthful == Spec => []HistoryTruthful
<1>1. IInv => HistoryTruthful BY DEF IInv
<1> QED BY <1>1, InductiveInvariant, PTL

\* A server that was let to start has every migration of its build (pending,
\* check), whatever other builds do afterwards.
THEOREM ServersKnowSchema == Spec => []ServesKnownSchema
<1>1. IInv => ServesKnownSchema
  BY DEF IInv, Promised, PromisedAt, HasAll, ServesKnownSchema
<1> QED BY <1>1, InductiveInvariant, PTL

\* The primary key of schema_migrations never has to refuse a row (withLock).
THEOREM StartersNeverConflict == Spec => []NeverConflicts
<1>1. IInv => NeverConflicts BY DEF IInv
<1> QED BY <1>1, InductiveInvariant, PTL
=============================================================================
