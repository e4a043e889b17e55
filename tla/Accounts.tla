------------------------------ MODULE Accounts ------------------------------
(***************************************************************************)
(* User accounts and sessions of OAM: the tables users and api_tokens, the *)
(* requests that read and write them (internal/services/user_service.go,   *)
(* behind internal/handlers/handler.go and internal/middleware), the first *)
(* start of a fresh installation (main.go) and the break-glass reset       *)
(* (cmd/reset_admin), each running in a thread of its own.                 *)
(*                                                                         *)
(* PostgreSQL runs every statement on the latest committed state, so a     *)
(* request that reads in one statement and writes in another is two steps  *)
(* here.  A transaction is one step when its first statement takes the     *)
(* lock on the users row it writes and nothing it touches is written by    *)
(* others without that lock.  The table lock of protectLastAdmin is        *)
(* explicit, in `locked': while a thread holds it nobody else inserts,     *)
(* updates or deletes a user.                                              *)
(*                                                                         *)
(* Left out: e-mail addresses and the flags the setup page shows, the      *)
(* role in a token's claims (no authorization reads it), and the rules on  *)
(* a password's characters: Passwords are the ones that satisfy them.      *)
(***************************************************************************)
CONSTANTS Ids,          \* values of the identity column users.id
          Names,        \* user names
          Passwords,    \* passwords that pass the character rules
          DefaultName,  \* the name of the bootstrap administrator, "admin"
          DefaultPw,    \* OAM_DEFAULT_ADMIN_PASSWORD
          Tokens,       \* values of issued tokens, all different by their jti
          Threads,      \* requests, server starts and reset processes under way
          NoThread,     \* nobody holds the lock on the users table
          Keep,         \* a field an update does not mention
          Updates,      \* the payloads of PUT /oam/users/:id
          InitialTables \* the users tables OAM may start with

ASSUME DefaultsAssumption == DefaultName \in Names /\ DefaultPw \in Passwords
ASSUME ThreadsAssumption == NoThread \notin Threads

Roles == {"admin", "operator", "viewer", "user"}

ASSUME KeepAssumption == Keep \notin Names \cup Passwords \cup Roles

\* The legacy role "user" is an alias of operator.
NormalizeRole(r) == IF r = "user" THEN "operator" ELSE r

(***************************************************************************)
(* A row of users.  `weak' is a hash that does not use the current PBKDF2  *)
(* parameters; NoUser stands for an id without a row.                      *)
(***************************************************************************)
Row == [name : Names, pw : Passwords, role : Roles, weak : BOOLEAN]
NoUser == [name |-> Keep, pw |-> Keep, role |-> Keep, weak |-> FALSE]
Account(n, p, r) == [name |-> n, pw |-> p, role |-> r, weak |-> FALSE]

(***************************************************************************)
(* A row of api_tokens that has not expired: the id of its owner, the user *)
(* name in the token's claims, and, for the properties only, the password  *)
(* the session was opened with.                                            *)
(***************************************************************************)
TokenRow == [uid : Ids, name : Names, pw : Passwords]
NoToken == [uid |-> Keep, name |-> Keep, pw |-> Keep]

Update == [name : Names \cup {Keep}, pw : Passwords \cup {Keep}, role : Roles \cup {Keep}]
NoUpdate == [name |-> Keep, pw |-> Keep, role |-> Keep]

ASSUME UpdatesAssumption == Updates \subseteq Update

\* An installation that was used before has an administrator.
ASSUME TablesAssumption ==
    \A table \in InitialTables :
        /\ table \in [Ids -> Row \cup {NoUser}]
        /\ \/ \A u \in Ids : table[u] = NoUser
           \/ \E u \in Ids : table[u].role = "admin"

PCs == {"idle", "boot", "rehash", "issue", "authed", "create", "lock", "count",
        "write", "update", "setup", "setupWrite", "reset", "resetCreate", "reported"}

\* What a thread has read and been asked: the account it works on, the id the
\* setup handler read, the fields it is to write, and the token it came with.
Request == [kind : {"none", "update", "delete"}, uid : Ids \cup {Keep}, admin : Ids \cup {Keep},
            fields : Update, token : Tokens \cup {Keep}]
NoRequest == [kind |-> "none", uid |-> Keep, admin |-> Keep, fields |-> NoUpdate, token |-> Keep]
Fields(n, p, r) == [name |-> n, pw |-> p, role |-> r]

VARIABLES users,   \* the table users
          spent,   \* ids the identity column has handed out
          tokens,  \* the table api_tokens
          issued,  \* token values generated so far
          locked,  \* the thread holding LOCK TABLE users IN SHARE ROW EXCLUSIVE MODE
          pc,      \* where each thread is
          req      \* its request

vars == <<users, spent, tokens, issued, locked, pc, req>>

TypeOK ==
    /\ users \in [Ids -> Row \cup {NoUser}]
    /\ spent \subseteq Ids
    /\ tokens \in [Tokens -> TokenRow \cup {NoToken}]
    /\ issued \subseteq Tokens
    /\ locked \in Threads \cup {NoThread}
    /\ pc \in [Threads -> PCs]
    /\ req \in [Threads -> Request]

Init ==
    /\ users \in InitialTables
    /\ spent = {u \in Ids : users[u] # NoUser}
    /\ tokens = [k \in Tokens |-> NoToken]
    /\ issued = {}
    /\ locked = NoThread
    /\ pc = [t \in Threads |-> "idle"]
    /\ req = [t \in Threads |-> NoRequest]

-----------------------------------------------------------------------------
Exists(u) == users[u] # NoUser
Named(u, n) == Exists(u) /\ users[u].name = n
Free(n) == \A u \in Ids : ~ Named(u, n)
FreeFor(n, self) == \A u \in Ids : Named(u, n) => u = self
IsAdmin(u) == Exists(u) /\ users[u].role = "admin"

\* The rows a session lookup joins: the token is stored and its owner exists.
Accepted(k) == tokens[k] # NoToken /\ Exists(tokens[k].uid)

\* Mutant: the id of a deleted user is given to a new one.
BugNextIds == {u \in Ids : ~ Exists(u)}

\* GENERATED BY DEFAULT AS IDENTITY never hands out a value twice.
NextIds == Ids \ spent

\* Writes to users wait for a holder of the table lock.
MayWrite(t) == locked \in {NoThread, t}
Release(t) == locked' = IF locked = t THEN NoThread ELSE locked

\* DELETE FROM api_tokens WHERE user_id = u
Revoked(u) == [k \in Tokens |-> IF tokens[k].uid = u THEN NoToken ELSE tokens[k]]

\* validatePassword refuses the current password of the account named n.
PasswordFresh(n, p) == \A u \in Ids : Named(u, n) => users[u].pw # p

Goto(t, l, r) == pc' = [pc EXCEPT ![t] = l] /\ req' = [req EXCEPT ![t] = r]
Return(t) == Goto(t, "idle", NoRequest)
Read == UNCHANGED <<users, spent, tokens, issued, locked>>

\* INSERT INTO users; the unique index on username refuses a taken name.
Insert(row) ==
    \/ /\ Free(row.name)
       /\ \E u \in NextIds : users' = [users EXCEPT ![u] = row] /\ spent' = spent \cup {u}
    \/ ~ Free(row.name) /\ UNCHANGED <<users, spent>>

\* The row after SET with the fields of f.
Overlay(old, f) ==
    [name |-> IF f.name = Keep THEN old.name ELSE f.name,
     pw   |-> IF f.pw = Keep THEN old.pw ELSE f.pw,
     role |-> IF f.role = Keep THEN old.role ELSE f.role,
     weak |-> IF f.pw = Keep THEN old.weak ELSE FALSE]

-----------------------------------------------------------------------------
(* First start: setupInitialAdminIfNeeded *)

Startup(t) ==
    /\ pc[t] = "idle"
    /\ \A u \in Ids : ~ Exists(u)
    /\ Goto(t, "boot", NoRequest)
    /\ Read

Bootstrap(t) ==
    /\ pc[t] = "boot" /\ MayWrite(t)
    /\ Insert(Account(DefaultName, DefaultPw, "admin"))
    /\ Return(t)
    /\ UNCHANGED <<tokens, issued, locked>>

(* Login *)

\* ValidateUser; a wrong name or password changes nothing here.
Login(t, n, p) ==
    /\ pc[t] = "idle"
    /\ \E u \in Ids :
         /\ Named(u, n) /\ users[u].pw = p
         /\ Goto(t, IF users[u].weak THEN "rehash" ELSE "issue",
                 [NoRequest EXCEPT !.uid = u, !.fields = Fields(n, p, Keep)])
    /\ Read

\* The upgrade of a weak hash is conditional on the hash that was verified, and
\* a failure to store it is only logged.
Rehash(t) ==
    /\ pc[t] = "rehash"
    /\ \/ /\ MayWrite(t)
          /\ LET u == req[t].uid IN
             users' = IF Exists(u) /\ users[u].weak /\ users[u].pw = req[t].fields.pw
                      THEN [users EXCEPT ![u].weak = FALSE] ELSE users
       \/ UNCHANGED users
    /\ Goto(t, "issue", req[t])
    /\ UNCHANGED <<spent, tokens, issued, locked>>

\* Mutant: the earlier check of the password is enough.
BugStillHolds(u, f) == Named(u, f.name)

\* The locked row must still carry the name and the password that were verified.
StillHolds(u, f) == Named(u, f.name) /\ users[u].pw = f.pw

\* SaveTokenForCredentials
IssueToken(t) ==
    /\ pc[t] = "issue"
    /\ LET u == req[t].uid
           f == req[t].fields
       IN \/ /\ StillHolds(u, f)
             /\ \E k \in Tokens \ issued :
                  /\ tokens' = [tokens EXCEPT ![k] = [uid |-> u, name |-> f.name, pw |-> f.pw]]
                  /\ issued' = issued \cup {k}
          \/ ~ StillHolds(u, f) /\ UNCHANGED <<tokens, issued>>
    /\ Return(t)
    /\ UNCHANGED <<users, spent, locked>>

(* Sessions *)

\* TokenAuthMiddleware
Authenticate(t, k) ==
    /\ pc[t] = "idle"
    /\ Accepted(k)
    /\ Goto(t, "authed", [NoRequest EXCEPT !.token = k, !.fields = Fields(tokens[k].name, Keep, Keep)])
    /\ Read

Logout(t) ==
    /\ pc[t] = "authed"
    /\ tokens' = [tokens EXCEPT ![req[t].token] = NoToken]
    /\ Return(t)
    /\ UNCHANGED <<users, spent, issued, locked>>

ExpireToken(k) ==
    /\ tokens[k] # NoToken
    /\ tokens' = [tokens EXCEPT ![k] = NoToken]
    /\ UNCHANGED <<users, spent, issued, locked, pc, req>>

-----------------------------------------------------------------------------
(* User administration.  The caller is the account named in the claims. *)

CallerIs(t, c) == Named(c, req[t].fields.name)
RequireAdmin(t) == \E c \in Ids : CallerIs(t, c) /\ users[c].role = "admin"

CreateUser(t, n, p, r) ==
    /\ pc[t] = "authed"
    /\ RequireAdmin(t)
    /\ Goto(t, "create", [NoRequest EXCEPT !.fields = Fields(n, p, r)])
    /\ Read

InsertUser(t) ==
    /\ pc[t] = "create" /\ MayWrite(t)
    /\ LET f == req[t].fields IN Insert(Account(f.name, f.pw, f.role))
    /\ Return(t)
    /\ UNCHANGED <<tokens, issued, locked>>

\* A caller who is not an administrator updates only the own account, and may
\* name only the role it has, which is then dropped.
MayUpdate(c, u, f) ==
    \/ IsAdmin(c)
    \/ /\ c = u
       /\ (f.role = Keep \/ NormalizeRole(f.role) = NormalizeRole(users[c].role))

UpdateUser(t, u, f) ==
    /\ pc[t] = "authed"
    /\ \E c \in Ids :
         LET g == IF IsAdmin(c) THEN f ELSE [f EXCEPT !.role = Keep] IN
         /\ CallerIs(t, c)
         /\ MayUpdate(c, u, f)
         /\ g # NoUpdate
         /\ Exists(u)
         /\ g.pw = Keep \/ PasswordFresh(IF g.name = Keep THEN users[u].name ELSE g.name, g.pw)
         /\ Goto(t, IF g.role = Keep THEN "update" ELSE "lock",
                 [NoRequest EXCEPT !.kind = "update", !.uid = u, !.fields = g])
    /\ Read

DeleteUser(t, u) ==
    /\ pc[t] = "authed"
    /\ RequireAdmin(t)
    /\ Goto(t, "lock", [NoRequest EXCEPT !.kind = "delete", !.uid = u])
    /\ Read

\* Mutant: the administrators are counted without the table lock.
BugLockMembership(t) ==
    /\ pc[t] = "lock"
    /\ Goto(t, "count", req[t])
    /\ Read

\* protectLastAdmin: first the table lock, ...
LockMembership(t) ==
    /\ pc[t] = "lock"
    /\ locked = NoThread
    /\ locked' = t
    /\ Goto(t, "count", req[t])
    /\ UNCHANGED <<users, spent, tokens, issued>>

LeavesAdmin(t) ==
    LET u == req[t].uid IN
    \/ ~ IsAdmin(u)
    \/ req[t].kind = "update" /\ req[t].fields.role = "admin"
    \/ \E v \in Ids \ {u} : IsAdmin(v)

\* ... then the count, on which the write of the same transaction relies.
CountAdmins(t) ==
    /\ pc[t] = "count"
    /\ \/ /\ Exists(req[t].uid) /\ LeavesAdmin(t)
          /\ Goto(t, "write", req[t])
          /\ UNCHANGED locked
       \/ /\ ~ (Exists(req[t].uid) /\ LeavesAdmin(t))
          /\ Return(t)
          /\ Release(t)
    /\ UNCHANGED <<users, spent, tokens, issued>>

\* UPDATE users, and for a new password DELETE FROM api_tokens.  A row that
\* vanished is no error; a taken name is.
WriteUser(t) ==
    /\ \/ pc[t] = "update"
       \/ pc[t] = "write" /\ req[t].kind = "update"
    /\ MayWrite(t)
    /\ LET u == req[t].uid
           f == req[t].fields
       IN IF Exists(u) /\ (f.name = Keep \/ FreeFor(f.name, u))
          THEN /\ users' = [users EXCEPT ![u] = Overlay(@, f)]
               /\ tokens' = IF f.pw = Keep THEN tokens ELSE Revoked(u)
          ELSE UNCHANGED <<users, tokens>>
    /\ Release(t)
    /\ Return(t)
    /\ UNCHANGED <<spent, issued>>

\* The tokens of a deleted user stay in the table.
RemoveUser(t) ==
    /\ pc[t] = "write" /\ req[t].kind = "delete"
    /\ MayWrite(t)
    /\ users' = [users EXCEPT ![req[t].uid] = NoUser]
    /\ Release(t)
    /\ Return(t)
    /\ UNCHANGED <<spent, tokens, issued>>

-----------------------------------------------------------------------------
(* POST /oam/setup/update-admin *)

IsDefaultAdmin(u) == Named(u, DefaultName) /\ IsAdmin(u) /\ users[u].pw = DefaultPw

\* The handler's gate: CheckDefaultAdminCredentials.
Setup(t, n, p) ==
    /\ pc[t] = "idle"
    /\ \E u \in Ids :
         /\ IsDefaultAdmin(u)
         /\ Goto(t, "setup", [NoRequest EXCEPT !.admin = u, !.fields = Fields(n, p, Keep)])
    /\ Read

\* UpdateAdminCredentials reads the account again, without a row lock ...
VerifyDefault(t) ==
    /\ pc[t] = "setup"
    /\ LET f == req[t].fields
           Ready(u) == IsDefaultAdmin(u) /\ PasswordFresh(f.name, f.pw) /\ FreeFor(f.name, u)
       IN \/ \E u \in Ids : Ready(u) /\ Goto(t, "setupWrite", [req[t] EXCEPT !.uid = u])
          \/ (\A u \in Ids : ~ Ready(u)) /\ Return(t)
    /\ Read

\* ... and replaces its credentials and revokes its sessions.  The session the
\* handler opens next is for the id its own gate read.
ReplaceDefault(t) ==
    /\ pc[t] = "setupWrite" /\ MayWrite(t)
    /\ LET u == req[t].uid
           f == req[t].fields
       IN \/ /\ FreeFor(f.name, u)
             /\ users' = IF Exists(u) THEN [users EXCEPT ![u] = Overlay(@, f)] ELSE users
             /\ tokens' = Revoked(u)
             /\ Goto(t, "issue", [req[t] EXCEPT !.uid = req[t].admin])
          \/ /\ ~ FreeFor(f.name, u)
             /\ UNCHANGED <<users, tokens>>
             /\ Return(t)
    /\ UNCHANGED <<spent, issued, locked>>

(* The break-glass reset: ResetAdminToDefault *)

\* SELECT ... WHERE role = 'admin' LIMIT 1, in no particular order.
FindAdmin(t) ==
    /\ pc[t] = "idle"
    /\ \/ \E u \in Ids : IsAdmin(u) /\ Goto(t, "reset", [NoRequest EXCEPT !.uid = u])
       \/ (\A u \in Ids : ~ IsAdmin(u)) /\ Goto(t, "resetCreate", NoRequest)
    /\ Read

DefaultFields == Fields(DefaultName, DefaultPw, Keep)

ResetAdmin(t) ==
    /\ pc[t] = "reset" /\ MayWrite(t)
    /\ LET u == req[t].uid
       IN \/ /\ FreeFor(DefaultName, u)
             /\ users' = IF Exists(u) THEN [users EXCEPT ![u] = Overlay(@, DefaultFields)] ELSE users
             /\ tokens' = Revoked(u)
             /\ Goto(t, "reported", req[t])
          \/ /\ ~ FreeFor(DefaultName, u)
             /\ UNCHANGED <<users, tokens>>
             /\ Return(t)
    /\ UNCHANGED <<spent, issued, locked>>

ResetCreate(t) ==
    /\ pc[t] = "resetCreate" /\ MayWrite(t)
    /\ Insert(Account(DefaultName, DefaultPw, "admin"))
    /\ IF Free(DefaultName) THEN Goto(t, "reported", NoRequest) ELSE Return(t)
    /\ UNCHANGED <<tokens, issued, locked>>

\* The process prints ADMIN RESET SUCCESSFUL and ends.
Report(t) ==
    /\ pc[t] = "reported"
    /\ Return(t)
    /\ Read

\* A request whose database connection fails: its transaction is rolled back.
Abort(t) ==
    /\ pc[t] # "idle"
    /\ Release(t)
    /\ Return(t)
    /\ UNCHANGED <<users, spent, tokens, issued>>

-----------------------------------------------------------------------------
Thread(t) ==
    \/ Startup(t) \/ Bootstrap(t)
    \/ \E n \in Names, p \in Passwords : Login(t, n, p) \/ Setup(t, n, p)
    \/ Rehash(t) \/ IssueToken(t)
    \/ \E k \in Tokens : Authenticate(t, k)
    \/ Logout(t)
    \/ \E n \in Names, p \in Passwords, r \in Roles : CreateUser(t, n, p, r)
    \/ InsertUser(t)
    \/ \E u \in Ids, f \in Updates : UpdateUser(t, u, f)
    \/ \E u \in Ids : DeleteUser(t, u)
    \/ LockMembership(t) \/ CountAdmins(t) \/ WriteUser(t) \/ RemoveUser(t)
    \/ VerifyDefault(t) \/ ReplaceDefault(t)
    \/ FindAdmin(t) \/ ResetAdmin(t) \/ ResetCreate(t) \/ Report(t)
    \/ Abort(t)

Next ==
    \/ \E t \in Threads : Thread(t)
    \/ \E k \in Tokens : ExpireToken(k)

Spec == Init /\ [][Next]_vars

-----------------------------------------------------------------------------
(* Properties *)

\* protectLastAdmin: from the first user on there is always an administrator,
\* whatever demotions, deletions, setups and resets run at the same time.
AdminRemains == spent # {} => \E u \in Ids : IsAdmin(u)

\* UpdateUser, UpdateAdminCredentials and ResetAdminToDefault revoke sessions in
\* the transaction that replaces the password, and a login that verified the
\* old one gets none afterwards: every session TokenAuthMiddleware accepts was
\* opened with the password its owner has now.
SessionsFollowPassword ==
    \A k \in Tokens : Accepted(k) => tokens[k].pw = users[tokens[k].uid].pw

\* A token that was refused once (logged out, expired, revoked, or its owner
\* deleted, whose token rows DeleteUser leaves behind) is refused for ever.
RefusedForever ==
    [][\A k \in issued : ~ Accepted(k) => ~ Accepted(k)']_vars
=============================================================================
