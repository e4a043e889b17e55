--------------------------- MODULE AccountsProofs ---------------------------
(***************************************************************************)
(* Theorems about Accounts, for any number of users, tokens and threads:   *)
(* there is always an administrator, every accepted session was opened     *)
(* with the owner's present password, and a refused token stays refused.   *)
(***************************************************************************)
EXTENDS Accounts, TLAPS

\* What the request of a thread at l holds.
RequestOK(l, r) ==
    /\ l \in {"rehash", "issue", "lock", "count", "write", "update", "setupWrite", "reset"}
          => r.uid \in Ids
    /\ l \in {"rehash", "issue", "create", "setup", "setupWrite"}
          => r.fields.name \in Names /\ r.fields.pw \in Passwords
    /\ l \in {"setup", "setupWrite"} => r.admin \in Ids
    /\ l \in {"update", "setup", "setupWrite"} => r.fields.role = Keep
    /\ l = "create" => r.fields.role \in Roles /\ spent # {}
    /\ l = "authed" => r.token \in Tokens

RequestsOK == \A t \in Threads : RequestOK(pc[t], req[t])

\* Between its count and its write a thread holds the table lock, so that what
\* it counted still holds.
Counted == {"count", "write"}
LockOK == \A t \in Threads : pc[t] \in Counted => locked = t
WriteOK == \A t \in Threads : pc[t] = "write" => Exists(req[t].uid) /\ LeavesAdmin(t)

\* Ids and token values are never used twice.
SpentOK == \A u \in Ids : Exists(u) => u \in spent
IssuedOK == \A k \in Tokens : tokens[k] # NoToken => k \in issued /\ tokens[k].uid \in spent

DataOK == AdminRemains /\ SessionsFollowPassword /\ SpentOK /\ IssuedOK

\* The inductive invariant.
IInv == TypeOK /\ RequestsOK /\ LockOK /\ WriteOK /\ DataOK

\* One step of RefusedForever.
RefusedStep == \A k \in issued : ~ Accepted(k) => ~ Accepted(k)'

TablesTyped ==
    /\ users \in [Ids -> Row \cup {NoUser}]
    /\ spent \subseteq Ids
    /\ tokens \in [Tokens -> TokenRow \cup {NoToken}]
    /\ issued \subseteq Tokens

-----------------------------------------------------------------------------
(* The records that stand for absence are no rows. *)

\* NoUser is no row of users: its name is no name.
LEMMA NoUserIsNoRow == NoUser \notin Row /\ NoUser.role # "admin"
  BY KeepAssumption DEF NoUser, Row, Roles

\* NoToken is no row of api_tokens.
LEMMA NoTokenIsNoRow == NoToken \notin TokenRow
  BY KeepAssumption DEF NoToken, TokenRow

(* Threads *)

\* Goto writes the entries of one thread; the others keep what they know.
LEMMA GotoKeeps ==
    ASSUME TypeOK, RequestsOK, NEW t \in Threads, NEW l \in PCs, NEW r \in Request,
           Goto(t, l, r), RequestOK(l, r)', spent \subseteq spent'
    PROVE  /\ pc' \in [Threads -> PCs] /\ req' \in [Threads -> Request]
           /\ RequestsOK'
           /\ pc'[t] = l /\ req'[t] = r
           /\ \A s \in Threads \ {t} : pc'[s] = pc[s] /\ req'[s] = req[s]
  <1>1. /\ pc' \in [Threads -> PCs] /\ req' \in [Threads -> Request]
        /\ pc'[t] = l /\ req'[t] = r
        /\ \A s \in Threads \ {t} : pc'[s] = pc[s] /\ req'[s] = req[s]
    BY DEF TypeOK, Goto
  <1>2. ASSUME NEW s \in Threads PROVE RequestOK(pc[s], req[s])'
    <2>1. CASE s = t
      BY <2>1, <1>1 DEF RequestOK
    <2>2. CASE s # t
      <3>1. RequestOK(pc[s], req[s])
        BY DEF RequestsOK
      <3>2. pc'[s] = pc[s] /\ req'[s] = req[s]
        BY <2>2, <1>1
      <3> QED BY <3>1, <3>2 DEF RequestOK
    <2> QED BY <2>1, <2>2
  <1> QED BY <1>1, <1>2 DEF RequestsOK

\* A thread that may write users finds nobody else between count and write.
LEMMA WriterAlone ==
    ASSUME TypeOK, LockOK, NEW t \in Threads, MayWrite(t), NEW l \in PCs \ Counted, NEW r,
           Goto(t, l, r)
    PROVE  LockOK' /\ WriteOK'
  <1>1. \A s \in Threads \ {t} : pc[s] \notin Counted
    BY ThreadsAssumption DEF LockOK, MayWrite
  <1>2. \A s \in Threads : pc'[s] \notin Counted
    BY <1>1 DEF TypeOK, Goto
  <1> QED BY <1>2 DEF LockOK, WriteOK, Counted

\* A step that leaves users alone disturbs no other thread's count.
LEMMA ReaderKeeps ==
    ASSUME TypeOK, LockOK, WriteOK, NEW t \in Threads, NEW l \in PCs \ Counted, NEW r,
           Goto(t, l, r), users' = users, locked' = locked \/ Release(t)
    PROVE  LockOK' /\ WriteOK'
  <1>1. pc'[t] = l /\ \A s \in Threads \ {t} : pc'[s] = pc[s] /\ req'[s] = req[s]
    BY DEF TypeOK, Goto
  <1>2. LockOK'
    BY <1>1 DEF LockOK, Release
  <1>3. ASSUME NEW s \in Threads, pc'[s] = "write"
        PROVE  Exists(req[s].uid)' /\ LeavesAdmin(s)'
    <2>1. s # t
      BY <1>1, <1>3 DEF Counted
    <2>2. pc[s] = "write" /\ req'[s] = req[s]
      BY <1>1, <1>3, <2>1
    <2> QED BY <2>2 DEF WriteOK, Exists, LeavesAdmin, IsAdmin
  <1> QED BY <1>2, <1>3 DEF WriteOK

(* Tables *)

\* A step that leaves both tables alone.
LEMMA TablesKept ==
    ASSUME TypeOK, DataOK, UNCHANGED <<users, spent, tokens, issued>>
    PROVE  TablesTyped' /\ DataOK' /\ RefusedStep
  BY DEF TypeOK, TablesTyped, DataOK, AdminRemains, SessionsFollowPassword, SpentOK, IssuedOK,
         RefusedStep, Accepted, Exists, IsAdmin

\* INSERT INTO users, by somebody who makes the first user an administrator.
LEMMA InsertKeeps ==
    ASSUME TypeOK, DataOK, NEW row \in Row, row.role = "admin" \/ spent # {},
           Insert(row), UNCHANGED <<tokens, issued>>
    PROVE  TablesTyped' /\ DataOK' /\ RefusedStep /\ spent \subseteq spent'
  <1>1. CASE UNCHANGED <<users, spent>>
    BY <1>1, TablesKept
  <1>2. CASE \E u \in NextIds : users' = [users EXCEPT ![u] = row] /\ spent' = spent \cup {u}
    <2>1. PICK u \in NextIds : users' = [users EXCEPT ![u] = row] /\ spent' = spent \cup {u}
      BY <1>2
    <2>2. u \in Ids /\ u \notin spent /\ ~ Exists(u)
      BY DEF NextIds, DataOK, SpentOK
    <2>3. TablesTyped' /\ spent \subseteq spent'
      BY <2>1, <2>2 DEF TypeOK, TablesTyped
    <2>4. users'[u] = row /\ row # NoUser /\ \A v \in Ids \ {u} : users'[v] = users[v]
      BY <2>1, <2>2, NoUserIsNoRow DEF TypeOK
    <2>5. AdminRemains'
      <3>1. CASE row.role = "admin"
        BY <3>1, <2>2, <2>4 DEF AdminRemains, IsAdmin, Exists
      <3>2. CASE spent # {}
        BY <3>2, <2>2, <2>4 DEF DataOK, AdminRemains, IsAdmin, Exists
      <3> QED BY <3>1, <3>2
    <2>6. ASSUME NEW k \in Tokens, tokens[k] # NoToken
          PROVE  tokens[k].uid \in Ids \ {u}
      BY <2>6, <2>2 DEF DataOK, IssuedOK, TypeOK
    <2>7. SessionsFollowPassword'
      BY <2>4, <2>6 DEF DataOK, SessionsFollowPassword, Accepted, Exists
    <2>8. SpentOK' /\ IssuedOK'
      BY <2>1, <2>2, <2>4 DEF DataOK, SpentOK, IssuedOK, Exists
    <2>9. RefusedStep
      BY <2>4, <2>6 DEF RefusedStep, Accepted, Exists, TypeOK
    <2> QED BY <2>3, <2>5, <2>7, <2>8, <2>9 DEF DataOK
  <1> QED BY <1>1, <1>2 DEF Insert

\* DELETE FROM api_tokens WHERE user_id = u.
LEMMA RevokeKeeps ==
    ASSUME TypeOK, DataOK, NEW u \in Ids, tokens' = Revoked(u), UNCHANGED <<users, spent, issued>>
    PROVE  TablesTyped' /\ DataOK' /\ RefusedStep
  <1>1. \A k \in Tokens : tokens'[k] = tokens[k] \/ tokens'[k] = NoToken
    BY DEF Revoked
  <1>2. TablesTyped'
    BY DEF TypeOK, TablesTyped, Revoked
  <1>3. SessionsFollowPassword' /\ IssuedOK' /\ RefusedStep
    BY <1>1 DEF TypeOK, DataOK, SessionsFollowPassword, IssuedOK, RefusedStep, Accepted, Exists
  <1>4. AdminRemains' /\ SpentOK'
    BY DEF DataOK, AdminRemains, SpentOK, Exists, IsAdmin
  <1> QED BY <1>2, <1>3, <1>4 DEF DataOK

\* The row after an update is a row, and the fields not mentioned are the old ones.
LEMMA OverlayRow ==
    ASSUME NEW old \in Row, NEW f \in Update
    PROVE  /\ Overlay(old, f) \in Row
           /\ Overlay(old, f).role = IF f.role = Keep THEN old.role ELSE f.role
           /\ Overlay(old, f).pw = IF f.pw = Keep THEN old.pw ELSE f.pw
  BY DEF Overlay, Row, Update

\* UPDATE users together with the revocation a new password entails, when the
\* account stays an administrator, is none, or is not the only one.
LEMMA OverlayKeeps ==
    ASSUME TypeOK, DataOK, NEW u \in Ids, NEW f \in Update, Exists(u),
           users' = [users EXCEPT ![u] = Overlay(@, f)],
           tokens' = IF f.pw = Keep THEN tokens ELSE Revoked(u),
           UNCHANGED <<spent, issued>>,
           \/ f.role \in {Keep, "admin"}
           \/ ~ IsAdmin(u)
           \/ \E v \in Ids \ {u} : IsAdmin(v)
    PROVE  TablesTyped' /\ DataOK' /\ RefusedStep
  <1>1. users[u] \in Row
    BY DEF TypeOK, Exists
  <1>2. /\ users'[u] \in Row
        /\ users'[u].role = IF f.role = Keep THEN users[u].role ELSE f.role
        /\ users'[u].pw = IF f.pw = Keep THEN users[u].pw ELSE f.pw
    BY <1>1, OverlayRow DEF TypeOK
  <1>3. \A v \in Ids \ {u} : users'[v] = users[v]
    BY DEF TypeOK
  <1>4. users' \in [Ids -> Row \cup {NoUser}]
    BY <1>2 DEF TypeOK
  <1>5. tokens' \in [Tokens -> TokenRow \cup {NoToken}]
    BY DEF TypeOK, Revoked
  <1>6. \A v \in Ids : Exists(v)' <=> Exists(v)
    BY <1>2, <1>3, NoUserIsNoRow DEF Exists
  <1>7. \A k \in Tokens : tokens'[k] = tokens[k] \/ tokens'[k] = NoToken
    BY DEF Revoked
  <1>8. AdminRemains'
    <2>1. CASE f.role \in {Keep, "admin"}
      <3>1. \A v \in Ids : IsAdmin(v) => IsAdmin(v)'
        BY <2>1, <1>2, <1>3, <1>6 DEF IsAdmin
      <3> QED BY <3>1 DEF DataOK, AdminRemains
    <2>2. CASE ~ IsAdmin(u) \/ \E v \in Ids \ {u} : IsAdmin(v)
      <3>1. \A v \in Ids \ {u} : IsAdmin(v) => IsAdmin(v)'
        BY <1>3, <1>6 DEF IsAdmin
      <3> QED BY <2>2, <3>1 DEF DataOK, AdminRemains
    <2> QED BY <2>1, <2>2
  <1>9. ASSUME NEW k \in Tokens, Accepted(k)'
        PROVE  tokens'[k].pw = users'[tokens'[k].uid].pw
    <2>1. tokens'[k] = tokens[k] /\ tokens[k] # NoToken /\ tokens[k].uid \in Ids
      BY <1>7, <1>9 DEF Accepted, TypeOK, TokenRow
    <2>2. Accepted(k) /\ tokens[k].pw = users[tokens[k].uid].pw
      BY <2>1, <1>6, <1>9 DEF Accepted, DataOK, SessionsFollowPassword
    <2>3. CASE tokens[k].uid = u
      <3>1. f.pw = Keep
        BY <2>1, <2>3 DEF Revoked
      <3> QED BY <3>1, <2>1, <2>2, <2>3, <1>2
    <2>4. CASE tokens[k].uid # u
      BY <2>1, <2>2, <2>4, <1>3
    <2> QED BY <2>3, <2>4
  <1>10. SessionsFollowPassword'
    BY <1>9 DEF SessionsFollowPassword
  <1>11. SpentOK' /\ IssuedOK'
    BY <1>6, <1>7 DEF DataOK, SpentOK, IssuedOK
  <1>12. RefusedStep
    BY <1>6, <1>7 DEF RefusedStep, Accepted, TypeOK, TokenRow
  <1> QED BY <1>4, <1>5, <1>8, <1>10, <1>11, <1>12 DEF TypeOK, TablesTyped, DataOK

\* DELETE FROM users, when another administrator is left.
LEMMA RemoveKeeps ==
    ASSUME TypeOK, DataOK, NEW u \in Ids, users' = [users EXCEPT ![u] = NoUser],
           UNCHANGED <<spent, tokens, issued>>,
           ~ IsAdmin(u) \/ \E v \in Ids \ {u} : IsAdmin(v)
    PROVE  TablesTyped' /\ DataOK' /\ RefusedStep
  <1>1. users' \in [Ids -> Row \cup {NoUser}] /\ users'[u] = NoUser
    BY DEF TypeOK
  <1>2. \A v \in Ids \ {u} : users'[v] = users[v]
    BY DEF TypeOK
  <1>3. AdminRemains'
    BY <1>2 DEF DataOK, AdminRemains, IsAdmin, Exists
  <1>4. \A v \in Ids : Exists(v)' => Exists(v) /\ users'[v] = users[v]
    BY <1>1, <1>2 DEF Exists
  <1>5. SessionsFollowPassword' /\ RefusedStep
    BY <1>4 DEF TypeOK, TokenRow, DataOK, SessionsFollowPassword, RefusedStep, Accepted
  <1>6. SpentOK' /\ IssuedOK'
    BY <1>4 DEF DataOK, SpentOK, IssuedOK
  <1> QED BY <1>1, <1>3, <1>5, <1>6 DEF TypeOK, TablesTyped, DataOK

\* INSERT INTO api_tokens, of a new value for the password the row has.
LEMMA IssueKeeps ==
    ASSUME TypeOK, DataOK, NEW u \in Ids, NEW n \in Names, NEW p \in Passwords,
           NEW k \in Tokens \ issued, Exists(u), users[u].pw = p,
           tokens' = [tokens EXCEPT ![k] = [uid |-> u, name |-> n, pw |-> p]],
           issued' = issued \cup {k}, UNCHANGED <<users, spent>>
    PROVE  TablesTyped' /\ DataOK' /\ RefusedStep
  <1>1. [uid |-> u, name |-> n, pw |-> p] \in TokenRow
    BY DEF TokenRow
  <1>2. TablesTyped'
    BY <1>1 DEF TypeOK, TablesTyped
  <1>3. tokens'[k] = [uid |-> u, name |-> n, pw |-> p] /\ \A j \in Tokens \ {k} : tokens'[j] = tokens[j]
    BY DEF TypeOK
  <1>4. SessionsFollowPassword'
    BY <1>3 DEF DataOK, SessionsFollowPassword, Accepted, Exists
  <1>5. AdminRemains' /\ SpentOK'
    BY DEF DataOK, AdminRemains, SpentOK, Exists, IsAdmin
  <1>6. IssuedOK'
    BY <1>3 DEF DataOK, SpentOK, IssuedOK
  <1>7. RefusedStep
    BY <1>3 DEF TypeOK, RefusedStep, Accepted, Exists
  <1> QED BY <1>2, <1>4, <1>5, <1>6, <1>7 DEF DataOK

\* A token that is logged out or expires.
LEMMA DropKeeps ==
    ASSUME TypeOK, DataOK, NEW k \in Tokens, tokens' = [tokens EXCEPT ![k] = NoToken],
           UNCHANGED <<users, spent, issued>>
    PROVE  TablesTyped' /\ DataOK' /\ RefusedStep
  <1>1. \A j \in Tokens : tokens'[j] = tokens[j] \/ tokens'[j] = NoToken
    BY DEF TypeOK
  <1>2. TablesTyped'
    BY DEF TypeOK, TablesTyped
  <1>3. SessionsFollowPassword' /\ IssuedOK' /\ RefusedStep
    BY <1>1 DEF TypeOK, DataOK, SessionsFollowPassword, IssuedOK, RefusedStep, Accepted, Exists
  <1>4. AdminRemains' /\ SpentOK'
    BY DEF DataOK, AdminRemains, SpentOK, Exists, IsAdmin
  <1> QED BY <1>2, <1>3, <1>4 DEF DataOK

-----------------------------------------------------------------------------
(* Steps: the tables and the threads put together *)

LEMMA NoRequestIsOne ==
    /\ NoRequest \in Request
    /\ RequestOK("idle", NoRequest) /\ RequestOK("boot", NoRequest)
    /\ RequestOK("resetCreate", NoRequest) /\ RequestOK("reported", NoRequest)
  BY DEF NoRequest, Request, NoUpdate, Update, RequestOK

\* The lock is held by a thread or by nobody.
LEMMA LockTyped ==
    ASSUME TypeOK, NEW t \in Threads, locked' = locked \/ Release(t)
    PROVE  locked' \in Threads \cup {NoThread}
  BY DEF TypeOK, Release

\* A step that leaves users alone and goes anywhere but between count and write.
LEMMA ReaderStep ==
    ASSUME IInv, NEW t \in Threads, NEW l \in PCs \ Counted, NEW r \in Request,
           Goto(t, l, r), RequestOK(l, r), users' = users, spent' = spent,
           locked' = locked \/ Release(t), TablesTyped', DataOK'
    PROVE  IInv'
  <1>1. RequestOK(l, r)'
    BY DEF RequestOK
  <1>2. pc' \in [Threads -> PCs] /\ req' \in [Threads -> Request] /\ RequestsOK'
    BY <1>1, GotoKeeps DEF IInv
  <1>3. LockOK' /\ WriteOK'
    BY ReaderKeeps DEF IInv
  <1>4. TypeOK'
    BY <1>2, LockTyped DEF TablesTyped, TypeOK, IInv
  <1> QED BY <1>2, <1>3, <1>4 DEF IInv

\* The same for a step that writes neither table.
LEMMA ReadStep ==
    ASSUME IInv, NEW t \in Threads, NEW l \in PCs \ Counted, NEW r \in Request,
           Goto(t, l, r), RequestOK(l, r), locked' = locked \/ Release(t),
           UNCHANGED <<users, spent, tokens, issued>>
    PROVE  IInv' /\ RefusedStep
  <1>1. TablesTyped' /\ DataOK' /\ RefusedStep
    BY TablesKept DEF IInv
  <1> QED BY <1>1, ReaderStep

\* A step that writes users and goes anywhere but between count and write.
LEMMA WriterStep ==
    ASSUME IInv, NEW t \in Threads, NEW l \in PCs \ Counted, NEW r \in Request,
           MayWrite(t), Goto(t, l, r), RequestOK(l, r)', spent \subseteq spent',
           locked' = locked \/ Release(t), TablesTyped', DataOK'
    PROVE  IInv'
  <1>1. pc' \in [Threads -> PCs] /\ req' \in [Threads -> Request] /\ RequestsOK'
    BY GotoKeeps DEF IInv
  <1>2. LockOK' /\ WriteOK'
    BY WriterAlone DEF IInv
  <1>3. TypeOK'
    BY <1>1, LockTyped DEF TablesTyped, TypeOK, IInv
  <1> QED BY <1>1, <1>2, <1>3 DEF IInv

-----------------------------------------------------------------------------
(* Actions *)

LEMMA StartupStep == ASSUME IInv, NEW t \in Threads, Startup(t) PROVE IInv' /\ RefusedStep
  <1>1. "boot" \in PCs \ Counted
    BY DEF PCs, Counted
  <1> QED BY <1>1, NoRequestIsOne, ReadStep DEF Startup, Read

LEMMA ReportStep == ASSUME IInv, NEW t \in Threads, Report(t) PROVE IInv' /\ RefusedStep
  <1>1. "idle" \in PCs \ Counted
    BY DEF PCs, Counted
  <1> QED BY <1>1, NoRequestIsOne, ReadStep DEF Report, Read, Return

LEMMA AbortStep == ASSUME IInv, NEW t \in Threads, Abort(t) PROVE IInv' /\ RefusedStep
  <1>1. "idle" \in PCs \ Counted
    BY DEF PCs, Counted
  <1> QED BY <1>1, NoRequestIsOne, ReadStep DEF Abort, Return

LEMMA LoginStep ==
    ASSUME IInv, NEW t \in Threads, NEW n \in Names, NEW p \in Passwords, Login(t, n, p)
    PROVE  IInv' /\ RefusedStep
  <1>1. PICK u \in Ids : Goto(t, IF users[u].weak THEN "rehash" ELSE "issue",
                              [NoRequest EXCEPT !.uid = u, !.fields = Fields(n, p, Keep)])
    BY DEF Login
  <1> DEFINE l == IF users[u].weak THEN "rehash" ELSE "issue"
             r == [NoRequest EXCEPT !.uid = u, !.fields = Fields(n, p, Keep)]
  <1>2. l \in PCs \ Counted /\ l \in {"rehash", "issue"}
    BY DEF PCs, Counted
  <1>3. r \in Request /\ r.uid = u /\ r.fields.name = n /\ r.fields.pw = p
    BY DEF NoRequest, Request, Fields, Update, NoUpdate
  <1>4. RequestOK(l, r)
    BY <1>2, <1>3 DEF RequestOK
  <1> HIDE DEF l, r
  <1> QED BY <1>1, <1>2, <1>3, <1>4, ReadStep DEF Login, Read, l, r

LEMMA SetupStep ==
    ASSUME IInv, NEW t \in Threads, NEW n \in Names, NEW p \in Passwords, Setup(t, n, p)
    PROVE  IInv' /\ RefusedStep
  <1>1. PICK u \in Ids : Goto(t, "setup", [NoRequest EXCEPT !.admin = u, !.fields = Fields(n, p, Keep)])
    BY DEF Setup
  <1> DEFINE r == [NoRequest EXCEPT !.admin = u, !.fields = Fields(n, p, Keep)]
  <1>2. "setup" \in PCs \ Counted
    BY DEF PCs, Counted
  <1>3. r \in Request /\ r.admin = u /\ r.fields = Fields(n, p, Keep)
    BY DEF NoRequest, Request, Fields, Update, NoUpdate
  <1>4. RequestOK("setup", r)
    BY <1>3 DEF RequestOK, Fields
  <1> QED BY <1>1, <1>2, <1>3, <1>4, ReadStep DEF Setup, Read

LEMMA AuthenticateStep ==
    ASSUME IInv, NEW t \in Threads, NEW k \in Tokens, Authenticate(t, k)
    PROVE  IInv' /\ RefusedStep
  <1> DEFINE r == [NoRequest EXCEPT !.token = k, !.fields = Fields(tokens[k].name, Keep, Keep)]
  <1>1. tokens[k].name \in Names
    BY DEF Authenticate, Accepted, IInv, TypeOK, TokenRow
  <1>2. "authed" \in PCs \ Counted
    BY DEF PCs, Counted
  <1>3. r \in Request /\ r.token = k
    BY <1>1 DEF NoRequest, Request, Fields, Update, NoUpdate
  <1>4. RequestOK("authed", r)
    BY <1>3 DEF RequestOK
  <1> QED BY <1>2, <1>3, <1>4, ReadStep DEF Authenticate, Read

LEMMA CreateUserStep ==
    ASSUME IInv, NEW t \in Threads, NEW n \in Names, NEW p \in Passwords, NEW o \in Roles,
           CreateUser(t, n, p, o)
    PROVE  IInv' /\ RefusedStep
  <1> DEFINE r == [NoRequest EXCEPT !.fields = Fields(n, p, o)]
  <1>1. spent # {}
    BY DEF CreateUser, RequireAdmin, CallerIs, Named, IInv, DataOK, SpentOK
  <1>2. "create" \in PCs \ Counted
    BY DEF PCs, Counted
  <1>3. r \in Request /\ r.fields = Fields(n, p, o)
    BY DEF NoRequest, Request, Fields, Update, NoUpdate
  <1>4. RequestOK("create", r)
    BY <1>1, <1>3 DEF RequestOK, Fields
  <1> QED BY <1>2, <1>3, <1>4, ReadStep DEF CreateUser, Read

LEMMA DeleteUserStep ==
    ASSUME IInv, NEW t \in Threads, NEW u \in Ids, DeleteUser(t, u)
    PROVE  IInv' /\ RefusedStep
  <1> DEFINE r == [NoRequest EXCEPT !.kind = "delete", !.uid = u]
  <1>1. "lock" \in PCs \ Counted
    BY DEF PCs, Counted
  <1>2. r \in Request /\ r.uid = u
    BY DEF NoRequest, Request, Update, NoUpdate
  <1>3. RequestOK("lock", r)
    BY <1>2 DEF RequestOK
  <1> QED BY <1>1, <1>2, <1>3, ReadStep DEF DeleteUser, Read

LEMMA UpdateUserStep ==
    ASSUME IInv, NEW t \in Threads, NEW u \in Ids, NEW f \in Updates, UpdateUser(t, u, f)
    PROVE  IInv' /\ RefusedStep
  <1> DEFINE g(c) == IF IsAdmin(c) THEN f ELSE [f EXCEPT !.role = Keep]
             l(c) == IF g(c).role = Keep THEN "update" ELSE "lock"
             r(c) == [NoRequest EXCEPT !.kind = "update", !.uid = u, !.fields = g(c)]
  <1>1. PICK c \in Ids : Goto(t, l(c), r(c))
    BY DEF UpdateUser
  <1>2. g(c) \in Update
    BY UpdatesAssumption DEF Update
  <1>3. l(c) \in PCs \ Counted /\ l(c) \in {"update", "lock"} /\ (l(c) = "update" => g(c).role = Keep)
    BY DEF PCs, Counted
  <1> HIDE DEF g, l
  <1>4. r(c) \in Request /\ r(c).uid = u /\ r(c).fields = g(c)
    BY <1>2 DEF NoRequest, Request
  <1>5. RequestOK(l(c), r(c))
    BY <1>3, <1>4 DEF RequestOK
  <1> HIDE DEF r
  <1>6. UNCHANGED <<users, spent, tokens, issued>> /\ locked' = locked
    BY DEF UpdateUser, Read
  <1> QED BY <1>1, <1>3, <1>4, <1>5, <1>6, ReadStep

LEMMA VerifyDefaultStep == ASSUME IInv, NEW t \in Threads, VerifyDefault(t) PROVE IInv' /\ RefusedStep
  <1> UNCHANGED <<users, spent, tokens, issued>> /\ locked' = locked
    BY DEF VerifyDefault, Read
  <1>1. CASE Return(t)
    <2>1. "idle" \in PCs \ Counted
      BY DEF PCs, Counted
    <2> QED BY <1>1, <2>1, NoRequestIsOne, ReadStep DEF Return
  <1>2. CASE \E u \in Ids : Goto(t, "setupWrite", [req[t] EXCEPT !.uid = u])
    <2>1. PICK u \in Ids : Goto(t, "setupWrite", [req[t] EXCEPT !.uid = u])
      BY <1>2
    <2> DEFINE r == [req[t] EXCEPT !.uid = u]
    <2>2. "setupWrite" \in PCs \ Counted
      BY DEF PCs, Counted
    <2>3. r \in Request /\ r.uid = u /\ r.fields = req[t].fields /\ r.admin = req[t].admin
      BY DEF IInv, TypeOK, Request
    <2>4. RequestOK("setup", req[t])
      BY DEF IInv, RequestsOK, VerifyDefault
    <2>5. RequestOK("setupWrite", r)
      BY <2>3, <2>4 DEF RequestOK
    <2> QED BY <2>1, <2>2, <2>3, <2>5, ReadStep
  <1> QED BY <1>1, <1>2 DEF VerifyDefault

LEMMA FindAdminStep == ASSUME IInv, NEW t \in Threads, FindAdmin(t) PROVE IInv' /\ RefusedStep
  <1> UNCHANGED <<users, spent, tokens, issued>> /\ locked' = locked
    BY DEF FindAdmin, Read
  <1>1. "reset" \in PCs \ Counted /\ "resetCreate" \in PCs \ Counted
    BY DEF PCs, Counted
  <1>2. CASE Goto(t, "resetCreate", NoRequest)
    BY <1>1, <1>2, NoRequestIsOne, ReadStep
  <1>3. CASE \E u \in Ids : Goto(t, "reset", [NoRequest EXCEPT !.uid = u])
    <2>1. PICK u \in Ids : Goto(t, "reset", [NoRequest EXCEPT !.uid = u])
      BY <1>3
    <2> DEFINE r == [NoRequest EXCEPT !.uid = u]
    <2>2. r \in Request /\ r.uid = u
      BY DEF NoRequest, Request, Update, NoUpdate
    <2>3. RequestOK("reset", r)
      BY <2>2 DEF RequestOK
    <2> QED BY <1>1, <2>1, <2>2, <2>3, ReadStep
  <1> QED BY <1>2, <1>3 DEF FindAdmin

LEMMA LogoutStep == ASSUME IInv, NEW t \in Threads, Logout(t) PROVE IInv' /\ RefusedStep
  <1>1. req[t].token \in Tokens
    BY DEF IInv, RequestsOK, RequestOK, Logout
  <1>2. TablesTyped' /\ DataOK' /\ RefusedStep
    BY <1>1, DropKeeps DEF IInv, Logout
  <1>3. "idle" \in PCs \ Counted
    BY DEF PCs, Counted
  <1> QED BY <1>2, <1>3, NoRequestIsOne, ReaderStep DEF Logout, Return

LEMMA ExpireStep == ASSUME IInv, NEW k \in Tokens, ExpireToken(k) PROVE IInv' /\ RefusedStep
  <1>1. TablesTyped' /\ DataOK' /\ RefusedStep
    BY DropKeeps DEF IInv, ExpireToken
  <1>2. TypeOK'
    BY <1>1 DEF IInv, TypeOK, TablesTyped, ExpireToken
  <1>3. RequestsOK'
    BY DEF IInv, RequestsOK, RequestOK, ExpireToken
  <1>4. LockOK' /\ WriteOK'
    BY DEF IInv, LockOK, WriteOK, Exists, LeavesAdmin, IsAdmin, ExpireToken
  <1> QED BY <1>1, <1>2, <1>3, <1>4 DEF IInv

LEMMA IssueTokenStep == ASSUME IInv, NEW t \in Threads, IssueToken(t) PROVE IInv' /\ RefusedStep
  <1>1. req[t].uid \in Ids /\ req[t].fields.name \in Names /\ req[t].fields.pw \in Passwords
    BY DEF IInv, RequestsOK, RequestOK, IssueToken
  <1>2. TablesTyped' /\ DataOK' /\ RefusedStep
    <2>1. CASE UNCHANGED <<tokens, issued>>
      BY <2>1, TablesKept DEF IInv, IssueToken
    <2>2. CASE StillHolds(req[t].uid, req[t].fields) /\
               \E k \in Tokens \ issued :
                  /\ tokens' = [tokens EXCEPT ![k] = [uid |-> req[t].uid, name |-> req[t].fields.name,
                                                       pw |-> req[t].fields.pw]]
                  /\ issued' = issued \cup {k}
      <3>1. Exists(req[t].uid) /\ users[req[t].uid].pw = req[t].fields.pw
        BY <2>2 DEF StillHolds, Named
      <3>2. UNCHANGED <<users, spent>>
        BY DEF IssueToken
      <3> QED BY <1>1, <2>2, <3>1, <3>2, IssueKeeps DEF IInv
    <2> QED BY <2>1, <2>2 DEF IssueToken
  <1>3. "idle" \in PCs \ Counted
    BY DEF PCs, Counted
  <1> QED BY <1>2, <1>3, NoRequestIsOne, ReaderStep DEF IssueToken, Return

LEMMA RehashStep == ASSUME IInv, NEW t \in Threads, Rehash(t) PROVE IInv' /\ RefusedStep
  <1>1. req[t].uid \in Ids /\ RequestOK("issue", req[t]) /\ req[t] \in Request
    BY DEF IInv, RequestsOK, RequestOK, Rehash, TypeOK
  <1>2. "issue" \in PCs \ Counted
    BY DEF PCs, Counted
  <1>3. CASE UNCHANGED users
    BY <1>1, <1>2, <1>3, ReadStep DEF Rehash
  <1>4. CASE users' # users
    <2> DEFINE u == req[t].uid
    <2>1. MayWrite(t) /\ Exists(u) /\ users' = [users EXCEPT ![u].weak = FALSE]
      BY <1>4 DEF Rehash
    <2>2. users[u] \in Row
      BY <1>1, <2>1 DEF IInv, TypeOK, Exists
    <2>3. /\ users'[u] = [users[u] EXCEPT !.weak = FALSE]
          /\ users'[u] \in Row /\ users'[u].role = users[u].role /\ users'[u].pw = users[u].pw
      BY <1>1, <2>1, <2>2 DEF IInv, TypeOK, Row
    <2>4. \A v \in Ids \ {u} : users'[v] = users[v]
      BY <1>1, <2>1 DEF IInv, TypeOK
    <2>5. users' \in [Ids -> Row \cup {NoUser}]
      BY <1>1, <2>1, <2>3 DEF IInv, TypeOK
    <2>6. \A v \in Ids : /\ Exists(v)' <=> Exists(v)
                         /\ users'[v].role = users[v].role /\ users'[v].pw = users[v].pw
      BY <2>1, <2>3, <2>4, NoUserIsNoRow DEF Exists
    <2>7. UNCHANGED <<spent, tokens, issued, locked>>
      BY DEF Rehash
    <2>8. AdminRemains' /\ SpentOK'
      BY <2>6, <2>7 DEF IInv, DataOK, AdminRemains, SpentOK, IsAdmin
    <2>9. SessionsFollowPassword' /\ RefusedStep
      BY <2>6, <2>7 DEF IInv, DataOK, SessionsFollowPassword, RefusedStep, Accepted, TypeOK, TokenRow
    <2>10. IssuedOK' /\ TablesTyped'
      BY <2>5, <2>7 DEF IInv, DataOK, IssuedOK, TypeOK, TablesTyped
    <2>11. RequestOK("issue", req[t])'
      BY <1>1, <2>7, GotoKeeps DEF RequestOK, Rehash, Goto, IInv, TypeOK
    <2>12. Goto(t, "issue", req[t]) /\ DataOK'
      BY <2>8, <2>9, <2>10 DEF Rehash, DataOK
    <2> QED BY <1>1, <1>2, <2>1, <2>7, <2>9, <2>10, <2>11, <2>12, WriterStep DEF RequestOK
  <1> QED BY <1>3, <1>4

LEMMA DefaultAccount == Account(DefaultName, DefaultPw, "admin") \in Row
  BY DefaultsAssumption DEF Account, Row, Roles

LEMMA BootstrapStep == ASSUME IInv, NEW t \in Threads, Bootstrap(t) PROVE IInv' /\ RefusedStep
  <1>1. TablesTyped' /\ DataOK' /\ RefusedStep /\ spent \subseteq spent'
    BY DefaultAccount, InsertKeeps DEF IInv, Bootstrap, Account
  <1>2. "idle" \in PCs \ Counted /\ RequestOK("idle", NoRequest)'
    BY DEF PCs, Counted, RequestOK
  <1> QED BY <1>1, <1>2, NoRequestIsOne, WriterStep DEF Bootstrap, Return

LEMMA InsertUserStep == ASSUME IInv, NEW t \in Threads, InsertUser(t) PROVE IInv' /\ RefusedStep
  <1> DEFINE row == Account(req[t].fields.name, req[t].fields.pw, req[t].fields.role)
  <1>1. row \in Row /\ spent # {}
    BY DEF IInv, RequestsOK, RequestOK, InsertUser, Account, Row
  <1>2. Insert(row) /\ UNCHANGED <<tokens, issued>>
    BY DEF InsertUser
  <1> HIDE DEF row
  <1>3. TablesTyped' /\ DataOK' /\ RefusedStep /\ spent \subseteq spent'
    BY <1>1, <1>2, InsertKeeps DEF IInv
  <1>4. "idle" \in PCs \ Counted /\ RequestOK("idle", NoRequest)'
    BY DEF PCs, Counted, RequestOK
  <1> QED BY <1>3, <1>4, NoRequestIsOne, WriterStep DEF InsertUser, Return

LEMMA ResetCreateStep == ASSUME IInv, NEW t \in Threads, ResetCreate(t) PROVE IInv' /\ RefusedStep
  <1>1. TablesTyped' /\ DataOK' /\ RefusedStep /\ spent \subseteq spent'
    BY DefaultAccount, InsertKeeps DEF IInv, ResetCreate, Account
  <1>2. /\ "idle" \in PCs \ Counted /\ RequestOK("idle", NoRequest)'
        /\ "reported" \in PCs \ Counted /\ RequestOK("reported", NoRequest)'
    BY DEF PCs, Counted, RequestOK
  <1>3. MayWrite(t) /\ locked' = locked
    BY DEF ResetCreate
  <1>4. CASE Goto(t, "reported", NoRequest)
    BY <1>1, <1>2, <1>3, <1>4, NoRequestIsOne, WriterStep
  <1>5. CASE Goto(t, "idle", NoRequest)
    BY <1>1, <1>2, <1>3, <1>5, NoRequestIsOne, WriterStep
  <1> QED BY <1>4, <1>5 DEF ResetCreate, Return

LEMMA LockMembershipStep ==
    ASSUME IInv, NEW t \in Threads, LockMembership(t) PROVE IInv' /\ RefusedStep
  <1>1. TablesTyped' /\ DataOK' /\ RefusedStep
    BY TablesKept DEF IInv, LockMembership
  <1>2. Goto(t, "count", req[t]) /\ "count" \in PCs /\ req[t] \in Request /\ locked' = t
    BY DEF LockMembership, PCs, IInv, TypeOK
  <1>3. RequestOK("lock", req[t])
    BY DEF IInv, RequestsOK, LockMembership
  <1>4. PICK r \in Request : r = req[t]
    BY <1>2
  <1>5. RequestOK("count", r)' /\ spent \subseteq spent' /\ Goto(t, "count", r)
    BY <1>2, <1>3, <1>4 DEF RequestOK, LockMembership
  <1>6. /\ pc' \in [Threads -> PCs] /\ req' \in [Threads -> Request] /\ RequestsOK'
        /\ pc'[t] = "count" /\ \A s \in Threads \ {t} : pc'[s] = pc[s] /\ req'[s] = req[s]
    BY <1>2, <1>5, GotoKeeps DEF IInv
  <1>7. TypeOK'
    BY <1>1, <1>2, <1>6 DEF TypeOK, TablesTyped
  <1>8. \A s \in Threads : pc[s] \notin Counted
    BY ThreadsAssumption DEF IInv, LockOK, LockMembership
  <1>9. LockOK' /\ WriteOK'
    BY <1>2, <1>6, <1>8 DEF LockOK, WriteOK, Counted
  <1> QED BY <1>1, <1>6, <1>7, <1>9 DEF IInv

LEMMA CountAdminsStep ==
    ASSUME IInv, NEW t \in Threads, CountAdmins(t) PROVE IInv' /\ RefusedStep
  <1>1. UNCHANGED <<users, spent, tokens, issued>>
    BY DEF CountAdmins
  <1>2. CASE Return(t) /\ Release(t)
    <2>1. "idle" \in PCs \ Counted
      BY DEF PCs, Counted
    <2> QED BY <1>1, <1>2, <2>1, NoRequestIsOne, ReadStep DEF Return
  <1>3. CASE Exists(req[t].uid) /\ LeavesAdmin(t) /\ Goto(t, "write", req[t]) /\ UNCHANGED locked
    <2>1. TablesTyped' /\ DataOK' /\ RefusedStep
      BY <1>1, TablesKept DEF IInv
    <2>2. "write" \in PCs /\ req[t] \in Request /\ RequestOK("count", req[t])
      BY DEF PCs, IInv, TypeOK, RequestsOK, CountAdmins
    <2>3. PICK r \in Request : r = req[t]
      BY <2>2
    <2>4. RequestOK("write", r)' /\ spent \subseteq spent' /\ Goto(t, "write", r)
      BY <1>1, <1>3, <2>2, <2>3 DEF RequestOK
    <2>5. /\ pc' \in [Threads -> PCs] /\ req' \in [Threads -> Request] /\ RequestsOK'
          /\ pc'[t] = "write" /\ req'[t] = r
          /\ \A s \in Threads \ {t} : pc'[s] = pc[s] /\ req'[s] = req[s]
      BY <2>2, <2>4, GotoKeeps DEF IInv
    <2>6. TypeOK'
      BY <1>3, <2>1, <2>5 DEF TypeOK, TablesTyped, IInv
    <2>7. LockOK'
      BY <1>3, <2>5 DEF LockOK, Counted, IInv, CountAdmins
    <2>8. \A s \in Threads : req'[s] = req[s]
      BY <2>3, <2>5
    <2>9. WriteOK'
      BY <1>1, <1>3, <2>5, <2>8 DEF WriteOK, Exists, LeavesAdmin, IsAdmin, IInv
    <2> QED BY <2>1, <2>5, <2>6, <2>7, <2>9 DEF IInv
  <1> QED BY <1>2, <1>3 DEF CountAdmins

LEMMA WriteUserStep == ASSUME IInv, NEW t \in Threads, WriteUser(t) PROVE IInv' /\ RefusedStep
  <1> DEFINE u == req[t].uid
             f == req[t].fields
  <1>1. u \in Ids /\ f \in Update
    BY DEF IInv, RequestsOK, RequestOK, WriteUser, TypeOK, Request
  <1>2. \/ f.role \in {Keep, "admin"}
        \/ ~ IsAdmin(u)
        \/ \E v \in Ids \ {u} : IsAdmin(v)
    BY DEF IInv, RequestsOK, RequestOK, WriteOK, LeavesAdmin, WriteUser
  <1>3. UNCHANGED <<spent, issued>> /\ MayWrite(t) /\ Release(t) /\ Goto(t, "idle", NoRequest)
    BY DEF WriteUser, Return
  <1>4. TablesTyped' /\ DataOK' /\ RefusedStep
    <2>1. CASE UNCHANGED <<users, tokens>>
      BY <1>3, <2>1, TablesKept DEF IInv
    <2>2. CASE /\ Exists(u)
               /\ users' = [users EXCEPT ![u] = Overlay(@, f)]
               /\ tokens' = IF f.pw = Keep THEN tokens ELSE Revoked(u)
      BY <1>1, <1>2, <1>3, <2>2, OverlayKeeps DEF IInv
    <2> QED BY <2>1, <2>2 DEF WriteUser
  <1>5. "idle" \in PCs \ Counted /\ RequestOK("idle", NoRequest)'
    BY DEF PCs, Counted, RequestOK
  <1> QED BY <1>3, <1>4, <1>5, NoRequestIsOne, WriterStep

LEMMA RemoveUserStep == ASSUME IInv, NEW t \in Threads, RemoveUser(t) PROVE IInv' /\ RefusedStep
  <1>1. req[t].uid \in Ids
    BY DEF IInv, RequestsOK, RequestOK, RemoveUser
  <1>2. ~ IsAdmin(req[t].uid) \/ \E v \in Ids \ {req[t].uid} : IsAdmin(v)
    BY DEF IInv, WriteOK, LeavesAdmin, RemoveUser
  <1>3. TablesTyped' /\ DataOK' /\ RefusedStep
    BY <1>1, <1>2, RemoveKeeps DEF IInv, RemoveUser
  <1>4. "idle" \in PCs \ Counted /\ RequestOK("idle", NoRequest)'
    BY DEF PCs, Counted, RequestOK
  <1>5. spent \subseteq spent'
    BY DEF RemoveUser
  <1> QED BY <1>3, <1>4, <1>5, NoRequestIsOne, WriterStep DEF RemoveUser, Return

\* Setup and reset replace the credentials of an account that may be gone.
LEMMA ReplaceKeeps ==
    ASSUME TypeOK, DataOK, NEW u \in Ids, NEW f \in Update, f.pw \in Passwords, f.role = Keep,
           users' = IF Exists(u) THEN [users EXCEPT ![u] = Overlay(@, f)] ELSE users,
           tokens' = Revoked(u), UNCHANGED <<spent, issued>>
    PROVE  TablesTyped' /\ DataOK' /\ RefusedStep
  <1>1. CASE Exists(u)
    <2>1. tokens' = IF f.pw = Keep THEN tokens ELSE Revoked(u)
      BY KeepAssumption
    <2> QED BY <1>1, <2>1, OverlayKeeps
  <1>2. CASE ~ Exists(u)
    BY <1>2, RevokeKeeps
  <1> QED BY <1>1, <1>2

LEMMA ReplaceDefaultStep ==
    ASSUME IInv, NEW t \in Threads, ReplaceDefault(t) PROVE IInv' /\ RefusedStep
  <1>1. RequestOK("setupWrite", req[t]) /\ req[t] \in Request /\ req[t].fields \in Update
    BY DEF IInv, RequestsOK, ReplaceDefault, TypeOK, Request
  <1>2. UNCHANGED <<spent, issued, locked>> /\ MayWrite(t)
    BY DEF ReplaceDefault
  <1>3. CASE UNCHANGED <<users, tokens>> /\ Return(t)
    <2>1. "idle" \in PCs \ Counted
      BY DEF PCs, Counted
    <2> QED BY <1>2, <1>3, <2>1, NoRequestIsOne, ReadStep DEF Return
  <1>4. CASE LET u == req[t].uid
                 f == req[t].fields
             IN /\ users' = IF Exists(u) THEN [users EXCEPT ![u] = Overlay(@, f)] ELSE users
                /\ tokens' = Revoked(u)
                /\ Goto(t, "issue", [req[t] EXCEPT !.uid = req[t].admin])
    <2> DEFINE r == [req[t] EXCEPT !.uid = req[t].admin]
    <2>1. req[t].uid \in Ids /\ req[t].fields.pw \in Passwords /\ req[t].fields.role = Keep
      BY <1>1 DEF RequestOK
    <2>2. TablesTyped' /\ DataOK' /\ RefusedStep
      BY <1>1, <1>2, <1>4, <2>1, ReplaceKeeps DEF IInv
    <2>3. r \in Request /\ r.uid = req[t].admin /\ r.fields = req[t].fields
      BY <1>1 DEF RequestOK, Request
    <2>4. PICK q \in Request : q = r
      BY <2>3
    <2>5. Goto(t, "issue", q) /\ q.uid \in Ids /\ q.fields.name \in Names /\ q.fields.pw \in Passwords
      BY <1>1, <1>4, <2>3, <2>4 DEF RequestOK
    <2>6. "issue" \in PCs \ Counted /\ RequestOK("issue", q)' /\ spent \subseteq spent'
      BY <1>2, <2>5 DEF PCs, Counted, RequestOK
    <2> QED BY <1>2, <2>2, <2>5, <2>6, WriterStep
  <1> QED BY <1>3, <1>4 DEF ReplaceDefault

LEMMA ResetAdminStep ==
    ASSUME IInv, NEW t \in Threads, ResetAdmin(t) PROVE IInv' /\ RefusedStep
  <1>1. req[t].uid \in Ids /\ req[t] \in Request
    BY DEF IInv, RequestsOK, RequestOK, ResetAdmin, TypeOK
  <1>2. UNCHANGED <<spent, issued, locked>> /\ MayWrite(t)
    BY DEF ResetAdmin
  <1>3. CASE UNCHANGED <<users, tokens>> /\ Return(t)
    <2>1. "idle" \in PCs \ Counted
      BY DEF PCs, Counted
    <2> QED BY <1>2, <1>3, <2>1, NoRequestIsOne, ReadStep DEF Return
  <1>4. CASE LET u == req[t].uid
             IN /\ users' = IF Exists(u) THEN [users EXCEPT ![u] = Overlay(@, DefaultFields)] ELSE users
                /\ tokens' = Revoked(u)
                /\ Goto(t, "reported", req[t])
    <2>1. DefaultFields \in Update /\ DefaultFields.pw \in Passwords /\ DefaultFields.role = Keep
      BY DefaultsAssumption DEF DefaultFields, Fields, Update
    <2>2. TablesTyped' /\ DataOK' /\ RefusedStep
      BY <1>1, <1>2, <1>4, <2>1, ReplaceKeeps DEF IInv
    <2>3. PICK q \in Request : q = req[t]
      BY <1>1
    <2>4. Goto(t, "reported", q) /\ RequestOK("reported", q)' /\ spent \subseteq spent'
      BY <1>2, <1>4, <2>3 DEF RequestOK
    <2>5. "reported" \in PCs \ Counted
      BY DEF PCs, Counted
    <2> QED BY <1>2, <2>2, <2>4, <2>5, WriterStep
  <1> QED BY <1>3, <1>4 DEF ResetAdmin

-----------------------------------------------------------------------------
(* The invariant *)

LEMMA InitIInv == Init => IInv
  <1> SUFFICES ASSUME Init PROVE IInv
    OBVIOUS
  <1>1. users \in [Ids -> Row \cup {NoUser}]
    BY TablesAssumption DEF Init
  <1>2. TypeOK
    BY <1>1, NoRequestIsOne DEF Init, TypeOK, PCs
  <1>3. RequestsOK /\ LockOK /\ WriteOK
    BY NoRequestIsOne DEF Init, RequestsOK, LockOK, WriteOK, Counted
  <1>4. AdminRemains
    <2>1. \/ \A u \in Ids : users[u] = NoUser
          \/ \E u \in Ids : users[u].role = "admin"
      BY TablesAssumption DEF Init
    <2> QED BY <2>1, NoUserIsNoRow DEF Init, AdminRemains, IsAdmin, Exists
  <1>5. SessionsFollowPassword /\ SpentOK /\ IssuedOK
    BY DEF Init, SessionsFollowPassword, Accepted, SpentOK, IssuedOK, Exists
  <1> QED BY <1>2, <1>3, <1>4, <1>5 DEF IInv, DataOK

LEMMA ThreadStep == ASSUME IInv, NEW t \in Threads, Thread(t) PROVE IInv' /\ RefusedStep
  <1>1. CASE Startup(t) \/ Bootstrap(t) \/ Rehash(t) \/ IssueToken(t) \/ Logout(t)
    BY <1>1, StartupStep, BootstrapStep, RehashStep, IssueTokenStep, LogoutStep
  <1>2. CASE \E n \in Names, p \in Passwords : Login(t, n, p) \/ Setup(t, n, p)
    BY <1>2, LoginStep, SetupStep
  <1>3. CASE \E k \in Tokens : Authenticate(t, k)
    BY <1>3, AuthenticateStep
  <1>4. CASE \E n \in Names, p \in Passwords, r \in Roles : CreateUser(t, n, p, r)
    BY <1>4, CreateUserStep
  <1>5. CASE \E u \in Ids, f \in Updates : UpdateUser(t, u, f)
    BY <1>5, UpdateUserStep
  <1>6. CASE \E u \in Ids : DeleteUser(t, u)
    BY <1>6, DeleteUserStep
  <1>7. CASE InsertUser(t) \/ LockMembership(t) \/ CountAdmins(t) \/ WriteUser(t) \/ RemoveUser(t)
    BY <1>7, InsertUserStep, LockMembershipStep, CountAdminsStep, WriteUserStep, RemoveUserStep
  <1>8. CASE VerifyDefault(t) \/ ReplaceDefault(t)
    BY <1>8, VerifyDefaultStep, ReplaceDefaultStep
  <1>9. CASE FindAdmin(t) \/ ResetAdmin(t) \/ ResetCreate(t) \/ Report(t) \/ Abort(t)
    BY <1>9, FindAdminStep, ResetAdminStep, ResetCreateStep, ReportStep, AbortStep
  <1> QED BY <1>1, <1>2, <1>3, <1>4, <1>5, <1>6, <1>7, <1>8, <1>9 DEF Thread

LEMMA NextIInv == IInv /\ [Next]_vars => IInv' /\ RefusedStep
  <1> SUFFICES ASSUME IInv, [Next]_vars PROVE IInv' /\ RefusedStep
    OBVIOUS
  <1>1. CASE Next
    BY <1>1, ThreadStep, ExpireStep DEF Next
  <1>2. CASE UNCHANGED vars
    <2>1. IInv'
      BY <1>2 DEF vars, IInv, TypeOK, RequestsOK, RequestOK, LockOK, WriteOK, DataOK, AdminRemains,
                  SessionsFollowPassword, SpentOK, IssuedOK, Exists, IsAdmin, LeavesAdmin, Accepted
    <2>2. RefusedStep
      BY <1>2 DEF vars, RefusedStep, Accepted, Exists
    <2> QED BY <2>1, <2>2
  <1> QED BY <1>1, <1>2

LEMMA InductiveInvariant == Spec => []IInv
  <1>1. IInv /\ [Next]_vars => IInv'
    BY NextIInv
  <1> QED BY <1>1, InitIInv, PTL DEF Spec

\* Every state of users, tokens and requests is one of the declared ones.
THEOREM AccountsTyped == Spec => []TypeOK
  <1>1. IInv => TypeOK
    BY DEF IInv
  <1> QED BY <1>1, InductiveInvariant, PTL

\* protectLastAdmin is enough: from the first user on there is always an
\* administrator, for any number of users and of concurrent requests.
THEOREM AdminKept == Spec => []AdminRemains
  <1>1. IInv => AdminRemains
    BY DEF IInv, DataOK
  <1> QED BY <1>1, InductiveInvariant, PTL

\* Every accepted session was opened with the password its owner has now:
\* no login that raced a replacement of the password keeps a session.
THEOREM SessionsCurrent == Spec => []SessionsFollowPassword
  <1>1. IInv => SessionsFollowPassword
    BY DEF IInv, DataOK
  <1> QED BY <1>1, InductiveInvariant, PTL

\* A token that was refused once is refused for ever, although the rows of a
\* deleted user's tokens stay in api_tokens.
THEOREM RefusedIsFinal == Spec => RefusedForever
  <1>1. IInv /\ [Next]_vars => [\A k \in issued : ~ Accepted(k) => ~ Accepted(k)']_vars
    BY NextIInv DEF RefusedStep
  <1> QED BY <1>1, InductiveInvariant, PTL DEF Spec, RefusedForever
=============================================================================
