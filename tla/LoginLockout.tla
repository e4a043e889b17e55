---------------------------- MODULE LoginLockout ----------------------------
(***************************************************************************)
(* The login lockout: one row of login_attempts, for one user name and     *)
(* client address, and the requests that check a password against it: the  *)
(* Login handler (internal/handlers/handler.go) and the reauthentication   *)
(* of a destructive operation (internal/handlers/appliance_handler.go).    *)
(*                                                                         *)
(* IsLoginBlocked, RecordFailedLogin and ClearLoginAttempts are separate   *)
(* database statements, and RecordFailedLogin reads the row in one and     *)
(* writes it in another; each is a step here.                              *)
(*                                                                         *)
(* Time is relative, so that it may pass for ever: a row keeps the age of  *)
(* its last failure and the time left of its lockout, and a request the    *)
(* time since it read its clock (`now', once, before anything else).       *)
(***************************************************************************)
EXTENDS Integers

CONSTANTS Threads,      \* requests under way
          Kinds,        \* the handlers in use: "login", "reauth"
          MaxFailed,    \* MaxFailedLoginAttempts
          LockoutBase,  \* LoginLockoutBase
          LockoutMax,   \* LoginLockoutMax
          Window,       \* LoginAttemptWindow
          MaxLag,       \* bound: how long a request runs
          MaxCount      \* bound: counters stop here

ASSUME TimesAssumption ==
    /\ MaxFailed \in Nat \ {0} /\ Window \in Nat /\ MaxLag \in Nat
    /\ LockoutBase \in Nat \ {0} /\ LockoutMax \in Nat \ {0}
    /\ LockoutBase <= LockoutMax
    /\ MaxCount \in Nat /\ MaxCount > MaxFailed

\* A counter that stops has long had the longest lockout.
ASSUME CountAssumption == LockoutBase * 2 ^ (MaxCount - MaxFailed - 1) >= LockoutMax

\* What exponentiation is, for the provers, which do not know it.
ASSUME PowersAssumption ==
    2 ^ 0 = 1 /\ \A k \in 0..MaxCount : 2 ^ k \in Nat /\ 2 ^ (k + 1) = 2 * 2 ^ k

ASSUME KindsAssumption == Kinds \subseteq {"login", "reauth"}

Least(a, b) == IF a < b THEN a ELSE b
AtLeast0(a) == IF a < 0 THEN 0 ELSE a

\* From this age on a failure is outside the window for every request, and the
\* lockout it caused is over.
MaxAge == LockoutMax + Window + MaxLag + 1

(***************************************************************************)
(* A row of login_attempts: failed_count, the time since last_failed_at    *)
(* and the time until blocked_until; `blocked' is whether that is set.     *)
(***************************************************************************)
Record == [count : 0..MaxCount, age : 0..MaxAge, blocked : BOOLEAN, left : 0..LockoutMax]
NoRecord == [count |-> 0, age |-> 0, blocked |-> FALSE, left |-> 0]

VARIABLES rec,   \* the row; NoRecord when there is none
          pc,    \* where each request is
          kind,  \* its handler
          lag,   \* the time since it read its clock
          plan,  \* what RecordFailedLogin decided: the new count it computed
          cause, \* why it records a failure: "wrong" password or store "error"
          wrong, \* for the properties: failures to count since the last success
          serial \* for the properties: no two requests have overlapped

vars == <<rec, pc, kind, lag, plan, cause, wrong, serial>>

PCs == {"idle", "verify", "clear", "read", "reset", "upsert"}

TypeOK ==
    /\ rec \in Record
    /\ pc \in [Threads -> PCs]
    /\ kind \in [Threads -> {"login", "reauth"}]
    /\ lag \in [Threads -> 0..MaxLag]
    /\ plan \in [Threads -> 0..MaxCount + 1]
    /\ cause \in [Threads -> {"wrong", "error"}]
    /\ wrong \in 0..MaxCount
    /\ serial \in BOOLEAN

Init ==
    /\ rec = NoRecord
    /\ pc = [t \in Threads |-> "idle"]
    /\ kind = [t \in Threads |-> "login"]
    /\ lag = [t \in Threads |-> 0]
    /\ plan = [t \in Threads |-> 0]
    /\ cause = [t \in Threads |-> "wrong"]
    /\ wrong = 0
    /\ serial = TRUE

-----------------------------------------------------------------------------
\* Mutant: one attempt more is free.
BugTooMany(n) == n > MaxFailed + 1

TooMany(n) == n > MaxFailed

\* Mutant: the doubled duration is not capped.
BugDuration(n) == LockoutBase * 2 ^ (n - MaxFailed - 1)

\* The loop of RecordFailedLogin: doubled once for every failure after the
\* first lockout while below the cap, then capped.
Duration(n) ==
    LET d[i \in 1..(n - MaxFailed)] ==
          IF i = 1 THEN LockoutBase
          ELSE IF d[i - 1] < LockoutMax THEN 2 * d[i - 1] ELSE d[i - 1]
    IN Least(d[n - MaxFailed], LockoutMax)

Goto(t, l) == pc' = [pc EXCEPT ![t] = l]

\* The request ends.
Return(t) ==
    /\ Goto(t, "idle")
    /\ kind' = [kind EXCEPT ![t] = "login"]
    /\ lag' = [lag EXCEPT ![t] = 0]
    /\ plan' = [plan EXCEPT ![t] = 0]
    /\ cause' = [cause EXCEPT ![t] = "wrong"]

\* now.Before(blocked_until)
IsLoginBlocked == rec.blocked /\ rec.left > 0

\* Mutant: the lockout is not looked at.
BugAdmits(k) == TRUE

\* A failed lookup refuses a login but lets a reauthentication go on.
Admits(k) == ~ IsLoginBlocked \/ k = "reauth"

Attempt(t, k) ==
    /\ pc[t] = "idle"
    /\ Admits(k)
    /\ Goto(t, "verify")
    /\ kind' = [kind EXCEPT ![t] = k]
    /\ serial' = (serial /\ \A u \in Threads : pc[u] = "idle")
    /\ UNCHANGED <<rec, lag, plan, cause, wrong>>

\* The outcomes of ValidateUser.
Verified(t) ==
    /\ pc[t] = "verify"
    /\ Goto(t, "clear")
    /\ UNCHANGED <<rec, kind, lag, plan, cause, wrong, serial>>

WrongPassword(t) ==
    /\ pc[t] = "verify"
    /\ Goto(t, "read")
    /\ UNCHANGED <<rec, kind, lag, plan, cause, wrong, serial>>

\* Mutant: a login counts every error of ValidateUser.
BugStoreError(t) ==
    /\ pc[t] = "verify"
    /\ Goto(t, "read") /\ cause' = [cause EXCEPT ![t] = "error"]
    /\ UNCHANGED <<rec, kind, lag, plan, wrong, serial>>

\* A login ends here; reauthentication records a failure all the same.
StoreError(t) ==
    /\ pc[t] = "verify"
    /\ \/ kind[t] = "login" /\ Return(t)
       \/ /\ kind[t] = "reauth"
          /\ Goto(t, "read") /\ cause' = [cause EXCEPT ![t] = "error"]
          /\ UNCHANGED <<kind, lag, plan>>
    /\ UNCHANGED <<rec, wrong, serial>>

ClearLoginAttempts(t) ==
    /\ pc[t] = "clear"
    /\ rec' = NoRecord
    /\ wrong' = 0
    /\ Return(t)
    /\ UNCHANGED serial

\* RecordFailedLogin: GetLoginAttempt, and what follows from the row read ...
GetLoginAttempt(t) ==
    /\ pc[t] = "read"
    /\ Goto(t, IF rec.count > 0 /\ rec.age - lag[t] > Window THEN "reset" ELSE "upsert")
    /\ plan' = [plan EXCEPT ![t] = rec.count + 1]
    /\ UNCHANGED <<rec, kind, lag, cause, wrong, serial>>

Counted(t) == wrong' = IF cause[t] = "wrong" \/ kind[t] = "reauth"
                       THEN Least(wrong + 1, MaxCount) ELSE wrong

\* ... ResetLoginAttemptCountQuery, which updates the row if there still is one ...
ResetCount(t) ==
    /\ pc[t] = "reset"
    /\ rec' = IF rec.count > 0
              THEN [count |-> 1, age |-> lag[t], blocked |-> FALSE, left |-> 0] ELSE rec
    /\ Counted(t)
    /\ Return(t)
    /\ UNCHANGED serial

\* ... or UpsertLoginAttemptQuery, which adds one to the count that is there and
\* writes the lockout that was computed from the count read before.
UpsertAttempt(t) ==
    /\ pc[t] = "upsert"
    /\ rec' = [count   |-> Least(rec.count + 1, MaxCount),
               age     |-> lag[t],
               blocked |-> TooMany(plan[t]),
               left    |-> IF TooMany(plan[t]) THEN AtLeast0(Duration(plan[t]) - lag[t]) ELSE 0]
    /\ Counted(t)
    /\ Return(t)
    /\ UNCHANGED serial

\* A statement fails, or the client goes away: the request ends.
Abort(t) ==
    /\ pc[t] # "idle"
    /\ Return(t)
    /\ UNCHANGED <<rec, wrong, serial>>

\* One unit of time passes.
Tick ==
    /\ \A t \in Threads : pc[t] = "idle" \/ lag[t] < MaxLag
    /\ lag' = [t \in Threads |-> IF pc[t] = "idle" THEN 0 ELSE lag[t] + 1]
    /\ rec' = [rec EXCEPT !.age = IF rec.count = 0 THEN 0 ELSE Least(@ + 1, MaxAge),
                          !.left = AtLeast0(@ - 1)]
    /\ UNCHANGED <<pc, kind, plan, cause, wrong, serial>>

-----------------------------------------------------------------------------
Step(t) ==
    \/ Verified(t) \/ WrongPassword(t) \/ StoreError(t) \/ ClearLoginAttempts(t)
    \/ GetLoginAttempt(t) \/ ResetCount(t) \/ UpsertAttempt(t) \/ Abort(t)

Next ==
    \/ \E t \in Threads : Step(t) \/ \E k \in Kinds : Attempt(t, k)
    \/ Tick

Spec == Init /\ [][Next]_vars

\* Time passes, and every request that began ends.
Fairness == WF_vars(Tick) /\ \A t \in Threads : WF_vars(Step(t))

FairSpec == Spec /\ Fairness

-----------------------------------------------------------------------------
(* Properties *)

\* Only failures since the last success count, and of a login only wrong
\* passwords: neither an outage of the store during a login nor a request that
\* overlaps with a successful login adds to the row.
OnlyWrongCounted == rec.count <= wrong

\* As long as requests come one at a time, the row is locked exactly when the
\* count is above the limit, for the time the constants describe (the base,
\* doubled with every further failure, up to the cap) from the last failure on.
LockoutMatches ==
    LET Described(n) == Least(LockoutBase * 2 ^ (n - MaxFailed - 1), LockoutMax)
    IN serial =>
           /\ rec.blocked <=> rec.count > MaxFailed
           /\ rec.left = IF rec.count > MaxFailed
                         THEN AtLeast0(Described(rec.count) - rec.age) ELSE 0

\* Attempts during a lockout do not prolong it: it ends, however many come.
\* (A reauthentication goes on when the lookup of the lockout fails, and then
\* may; so only of behaviours in which these cease.)
LockoutEnds ==
    <>[](\A t \in Threads : kind[t] = "login") => (rec.left > 0 ~> rec.left = 0)
=============================================================================
