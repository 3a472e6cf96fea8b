------------------------------ MODULE Accounts ------------------------------
(***************************************************************************)
(* The accounts of the CRM: signing in with a lock after failed attempts,  *)
(* refresh tokens, password reset by a mailed code, two-factor setup,      *)
(* invitations, and what administrators do to a row of table users.        *)
(*                                                                         *)
(* AuthService, UsersService and OwnerService open no transaction.  As in  *)
(* Payments a handler is one action per awaited statement, `task[h]` says  *)
(* which statement handler h awaits next and holds what it has read, and   *)
(* a request rejected before its first write has no action.                *)
(***************************************************************************)
EXTENDS Integers, FiniteSets, Combinatorics

CONSTANTS
    Users,          \* the (email, tenant) pairs: a unique index admits one row for each
    Passwords,      \* what people type
    Handlers,       \* HTTP requests that can be in flight at the same time
    Endpoints,      \* the endpoints that clients call
    Overlapping,    \* may a request start while another is in flight?
    MaxRequests,    \* bound: requests that arrive
    MaxFailures,    \* bound: statements that fail, or crashes of a handler
    None            \* SQL NULL, and "no user", "no status"

SignedInEndpoints == {"logout", "change-password", "2fa/setup", "2fa/enable", "2fa/disable"}

AllEndpoints == SignedInEndpoints \cup
    {"register", "login", "refresh", "forgot-password", "verify-otp", "reset-password",
     "accept-invite", "create-user", "create-student", "invite", "delete", "set-status"}

Statuses == {"active", "inactive", "suspended", "pending", "blocked"}

ASSUME AccountsAssumption ==
    /\ IsFiniteSet(Handlers) /\ Handlers # {}
    /\ Endpoints \subseteq AllEndpoints
    /\ MaxRequests \in Nat /\ MaxFailures \in Nat
    /\ Overlapping \in BOOLEAN
    /\ None \notin Users \cup Passwords /\ None \notin Statuses

VARIABLES
    users,      \* table users
    holds,      \* the users who have been given tokens
    task,       \* the request each handler is executing
    arrived,    \* how many requests have arrived
    failures,   \* how many statements have failed
    misses,     \* history: failed logins since the last good one, or since a lock ended
    fails,      \* history: failed logins, all of them
    loggedOut,  \* history: users who logged out and have not logged in since
    mails,      \* history: codes mailed to a user
    resets,     \* history: passwords set with a mailed code
    verdict,    \* history: the status an administrator last gave a user
    turnedAway, \* history: users refused by the second factor, whatever their code
    rushed      \* history: handlers about to restore a row that was restored meanwhile

history == <<misses, fails, loggedOut, mails, resets, verdict, turnedAway, rushed>>
vars    == <<users, holds, task, arrived, failures, history>>

LockAfter == 5

\* `password` is the word the stored hash matches, None if none does; `locked` is
\* lockedUntil > now, `fresh` is otpExpiresAt > now, `slot` is refreshToken # ''.
Row == [exists : {"absent", "live", "deleted"}, status : Statuses,
        password : Passwords \cup {None}, attempts : Nat, locked : BOOLEAN,
        slot : BOOLEAN, code : {"none", "otp", "token"}, fresh : BOOLEAN,
        twoFa : BOOLEAN, secret : BOOLEAN, invite : BOOLEAN]

NoRow == [exists |-> "absent", status |-> "pending", password |-> None, attempts |-> 0,
          locked |-> FALSE, slot |-> FALSE, code |-> "none", fresh |-> FALSE,
          twoFa |-> FALSE, secret |-> FALSE, invite |-> FALSE]

NewUserNull(status, password, invite) ==     \* a mistake, see below
    [NoRow EXCEPT !.exists = "live", !.status = status, !.password = password,
                  !.invite = invite, !.attempts = None]

NewUser(status, password, invite) ==
    [NoRow EXCEPT !.exists = "live", !.status = status, !.password = password,
                  !.invite = invite]

Steps == {"idle", "miss", "forgive", "slot", "activate", "rotate",
          "clearSlot", "readPassword", "writePassword", "writeSecret", "readSecret",
          "enable", "clearSecret", "writeCode", "writeToken", "reset", "accept",
          "insert", "lookDeleted", "restore", "delete", "writeStatus"}

\* u is the user the request is about, row what was read (or is to be inserted), and
\* next what follows a statement that several endpoints share: a step, or a status.
Task == {t \in [at : Steps, u : Users \cup {None}, row : Row,
                next : Steps \cup Statuses] :
           /\ t.at # "idle" <=> t.u \in Users
           /\ t.at = "writeStatus" => t.next \in Statuses}

Idle == [at |-> "idle", u |-> None, row |-> NoRow, next |-> "idle"]

Live == {u \in Users : users[u].exists = "live"}

Busy(h) == task[h].at # "idle"
Quiet   == \A h \in Handlers : ~Busy(h)

Arrives(h, e) ==
    /\ ~Busy(h)
    /\ e \in Endpoints
    /\ Overlapping \/ Quiet
    /\ arrived < MaxRequests
    /\ arrived' = arrived + 1

At(h, step)      == task[h].at = step
Goto(h, step)    == task' = [task EXCEPT ![h].at = step]
Finish(h)        == task' = [task EXCEPT ![h] = Idle]
Begin(h, step, u, row, next) ==
    task' = [task EXCEPT ![h] = [at |-> step, u |-> u, row |-> row, next |-> next]]

\* The seeds may have inserted some accounts, with a password that is hashed once.
Init ==
    /\ \E seeded \in SUBSET Users, pw \in Passwords :
         users = [u \in Users |->
                    IF u \in seeded THEN NewUser("active", pw, FALSE) ELSE NoRow]
    /\ holds = {}
    /\ task = [h \in Handlers |-> Idle]
    /\ arrived = 0
    /\ failures = 0
    /\ misses = [u \in Users |-> 0]
    /\ fails = [u \in Users |-> 0]
    /\ loggedOut = {}
    /\ mails = [u \in Users |-> 0]
    /\ resets = [u \in Users |-> 0]
    /\ verdict = [u \in Users |-> None]
    /\ turnedAway = {}
    /\ rushed = {}

-----------------------------------------------------------------------------
(* Mistakes a change of the code could make, each against one property: a   *)
(* default or a guard left out, a limit off by one, a column not reset.     *)

LoginMissAt(h, limit) ==
    LET u == task[h].u
        attempts == task[h].row.attempts + 1
    IN  /\ At(h, "miss")
        /\ users' = [users EXCEPT ![u].attempts = attempts,
                                  ![u].locked = @ \/ attempts >= limit]
        /\ misses' = [misses EXCEPT ![u] = @ + 1]
        /\ fails' = [fails EXCEPT ![u] = @ + 1]
        /\ Finish(h)
        /\ UNCHANGED <<holds, arrived, failures, loggedOut, mails, resets, verdict, turnedAway, rushed>>

LoginMissEarly(h) == LoginMissAt(h, LockAfter - 1)
LoginMissLate(h)  == LoginMissAt(h, LockAfter + 1)

RefusedButBlocked == {"suspended", "pending"}

RefreshFindAnyone(h) ==
    /\ Arrives(h, "refresh")
    /\ \E u \in holds \cap Live : Begin(h, "rotate", u, users[u], "idle")
    /\ UNCHANGED <<users, holds, failures, history>>

ResetWriteKeepsCode(h) ==
    LET u == task[h].u IN
    /\ At(h, "reset")
    /\ \E pw \in Passwords : users' = [users EXCEPT ![u].password = pw]
    /\ resets' = [resets EXCEPT ![u] = @ + 1]
    /\ Finish(h)
    /\ UNCHANGED <<holds, arrived, failures, misses, fails, loggedOut, mails, verdict, turnedAway, rushed>>

InviteLookAnyRow(h) ==
    /\ At(h, "lookDeleted")
    /\ Goto(h, IF users[task[h].u].exists # "absent" THEN "restore" ELSE "insert")
    /\ rushed' = rushed \ {h}
    /\ UNCHANGED <<users, holds, arrived, failures, misses, fails, loggedOut, mails, resets, verdict, turnedAway>>

-----------------------------------------------------------------------------
(* POST /auth/login                                                        *)

\* One SELECT by email, and the comparison of the password.  The tenant is not asked
\* for: which row it finds when two tenants have the email, nobody says.
LoginFind(h) ==
    /\ Arrives(h, "login")
    /\ \E u \in Live, pw \in Passwords :
         /\ ~users[u].locked
         /\ Begin(h, IF users[u].password = pw THEN "forgive" ELSE "miss", u, users[u], "idle")
    /\ UNCHANGED <<users, holds, failures, history>>

\* The counter that was read, plus one; the fifth miss locks for 15 minutes.
LoginMiss(h) ==
    LET u == task[h].u
        attempts == task[h].row.attempts + 1
    IN  /\ At(h, "miss")
        /\ users' = [users EXCEPT ![u].attempts = attempts,
                                  ![u].locked = @ \/ attempts >= LockAfter]
        /\ misses' = [misses EXCEPT ![u] = @ + 1]
        /\ fails' = [fails EXCEPT ![u] = @ + 1]
        /\ Finish(h)
        /\ UNCHANGED <<holds, arrived, failures, loggedOut, mails, resets, verdict, turnedAway, rushed>>

\* The statuses login() refuses, after the counter was set back.
Refused == {"suspended", "blocked", "pending"}

\* The counter is set back, then the status that was read decides.  The secret of the
\* second factor was not selected, so that its verification always throws.
LoginForgive(h) ==
    LET u == task[h].u
        row == task[h].row
    IN  /\ At(h, "forgive")
        /\ users' = [users EXCEPT ![u].attempts = 0, ![u].locked = FALSE]
        /\ misses' = [misses EXCEPT ![u] = 0]
        /\ IF row.status \in Refused \/ row.twoFa THEN Finish(h)
           ELSE task' = [task EXCEPT ![h].at = "slot", ![h].next = "activate"]
        /\ turnedAway' = IF row.status \notin Refused /\ row.twoFa
                         THEN turnedAway \cup {u} ELSE turnedAway
        /\ UNCHANGED <<holds, arrived, failures, fails, loggedOut, mails, resets, verdict, rushed>>

\* generateTokens, which login and register share: the hash of the refresh token.
GenerateTokens(h) ==
    LET u == task[h].u IN
    /\ At(h, "slot")
    /\ users' = [users EXCEPT ![u].slot = TRUE]
    /\ loggedOut' = loggedOut \ {u}
    /\ IF task[h].next = "activate"
       THEN Goto(h, "activate") /\ UNCHANGED holds
       ELSE Finish(h) /\ holds' = holds \cup {u}
    /\ UNCHANGED <<arrived, failures, misses, fails, mails, resets, verdict, turnedAway, rushed>>

\* lastLoginAt, lastLoginIp and status ACTIVE, whatever the status is by now.
LoginActivate(h) ==
    /\ At(h, "activate")
    /\ users' = [users EXCEPT ![task[h].u].status = "active"]
    /\ holds' = holds \cup {task[h].u}
    /\ Finish(h)
    /\ UNCHANGED <<arrived, failures, history>>

-----------------------------------------------------------------------------
(* POST /auth/refresh                                                      *)

\* Every refresh token of a user matches the hash of any other: bcrypt compares the
\* first 72 bytes, which hold the header of the JWT and half the user's id.
RefreshFind(h) ==
    /\ Arrives(h, "refresh")
    /\ \E u \in holds \cap Live :
         /\ users[u].slot
         /\ Begin(h, "rotate", u, users[u], "idle")
    /\ UNCHANGED <<users, holds, failures, history>>

RefreshRotate(h) ==
    /\ At(h, "rotate")
    /\ users' = [users EXCEPT ![task[h].u].slot = TRUE]
    /\ Finish(h)
    /\ UNCHANGED <<holds, arrived, failures, history>>

-----------------------------------------------------------------------------
(* The endpoints behind JwtStrategy                                        *)

\* What the handler does once the strategy has let it in.  The existence check of
\* setup2FA repeats the strategy's and is no step of its own.
FirstStep == [e \in SignedInEndpoints |->
    CASE e = "logout"          -> "clearSlot"
      [] e = "change-password" -> "readPassword"
      [] e = "2fa/setup"       -> "writeSecret"
      [] e = "2fa/enable"      -> "readSecret"
      [] e = "2fa/disable"     -> "clearSecret"]

Authenticate(h) ==
    /\ \E e \in SignedInEndpoints, u \in holds \cap Live :
         /\ Arrives(h, e)
         /\ users[u].status = "active"
         /\ Begin(h, FirstStep[e], u, users[u], "idle")
    /\ UNCHANGED <<users, holds, failures, history>>

LogoutClear(h) ==
    /\ At(h, "clearSlot")
    /\ users' = [users EXCEPT ![task[h].u].slot = FALSE]
    /\ loggedOut' = loggedOut \cup {task[h].u}
    /\ Finish(h)
    /\ UNCHANGED <<holds, arrived, failures, misses, fails, mails, resets, verdict, turnedAway, rushed>>

\* The row is read once more; the current password is right, or it is not.
ChangeRead(h) ==
    /\ At(h, "readPassword")
    /\ \/ task[h].u \in Live /\ users[task[h].u].password # None /\ Goto(h, "writePassword")
       \/ Finish(h)
    /\ UNCHANGED <<users, holds, arrived, failures, history>>

ChangeWrite(h) ==
    /\ At(h, "writePassword")
    /\ \E pw \in Passwords : users' = [users EXCEPT ![task[h].u].password = pw]
    /\ Finish(h)
    /\ UNCHANGED <<holds, arrived, failures, history>>

SetupSecret(h) ==
    /\ At(h, "writeSecret")
    /\ users' = [users EXCEPT ![task[h].u].secret = TRUE]
    /\ Finish(h)
    /\ UNCHANGED <<holds, arrived, failures, history>>

EnableRead(h) ==
    /\ At(h, "readSecret")
    /\ \/ task[h].u \in Live /\ users[task[h].u].secret /\ Goto(h, "enable")
       \/ Finish(h)
    /\ UNCHANGED <<users, holds, arrived, failures, history>>

EnableWrite(h) ==
    /\ At(h, "enable")
    /\ users' = [users EXCEPT ![task[h].u].twoFa = TRUE]
    /\ Finish(h)
    /\ UNCHANGED <<holds, arrived, failures, history>>

DisableWrite(h) ==
    /\ At(h, "clearSecret")
    /\ users' = [users EXCEPT ![task[h].u].twoFa = FALSE, ![task[h].u].secret = FALSE]
    /\ Finish(h)
    /\ UNCHANGED <<holds, arrived, failures, history>>

-----------------------------------------------------------------------------
(* POST /auth/forgot-password, /auth/verify-otp, /auth/reset-password      *)

ForgotFind(h) ==
    /\ Arrives(h, "forgot-password")
    /\ \E u \in Live : Begin(h, "writeCode", u, users[u], "idle")
    /\ UNCHANGED <<users, holds, failures, history>>

\* The code is stored and mailed; a mail that does not go out changes nothing here.
ForgotWrite(h) ==
    LET u == task[h].u IN
    /\ At(h, "writeCode")
    /\ users' = [users EXCEPT ![u].code = "otp", ![u].fresh = TRUE]
    /\ mails' = [mails EXCEPT ![u] = @ + 1]
    /\ Finish(h)
    /\ UNCHANGED <<holds, arrived, failures, misses, fails, loggedOut, resets, verdict, turnedAway, rushed>>

VerifyFind(h) ==
    /\ Arrives(h, "verify-otp")
    /\ \E u \in Live :
         /\ users[u].code = "otp" /\ users[u].fresh
         /\ Begin(h, "writeToken", u, users[u], "idle")
    /\ UNCHANGED <<users, holds, failures, history>>

VerifyWrite(h) ==
    LET u == task[h].u IN
    /\ At(h, "writeToken")
    /\ users' = [users EXCEPT ![u].code = "token", ![u].fresh = TRUE]
    /\ Finish(h)
    /\ UNCHANGED <<holds, arrived, failures, history>>

\* The row is looked up by the column both codes are stored in.
ResetFind(h) ==
    /\ Arrives(h, "reset-password")
    /\ \E u \in Live :
         /\ users[u].code # "none" /\ users[u].fresh
         /\ Begin(h, "reset", u, users[u], "idle")
    /\ UNCHANGED <<users, holds, failures, history>>

ResetWrite(h) ==
    LET u == task[h].u IN
    /\ At(h, "reset")
    /\ \E pw \in Passwords :
         users' = [users EXCEPT ![u].password = pw, ![u].code = "none", ![u].fresh = FALSE]
    /\ resets' = [resets EXCEPT ![u] = @ + 1]
    /\ Finish(h)
    /\ UNCHANGED <<holds, arrived, failures, misses, fails, loggedOut, mails, verdict, turnedAway, rushed>>

-----------------------------------------------------------------------------
(* How rows come and go                                                    *)

\* The endpoints that look for a live row with the email and insert one if there is
\* none.  register, and the creation of a student or teacher, hash the password and
\* hand the hash to an entity whose @BeforeInsert hashes it again.
CreateFind(h) ==
    /\ \E u \in Users \ Live :
         \/ /\ Arrives(h, "register")
            /\ Begin(h, "insert", u, NewUser("active", None, FALSE), "slot")
         \/ /\ Arrives(h, "create-user")
            /\ \E pw \in Passwords :
                 Begin(h, "insert", u, NewUser("pending", pw, FALSE), "idle")
         \/ /\ Arrives(h, "create-student")
            /\ Begin(h, "insert", u, NewUser("active", None, FALSE), "idle")
    /\ UNCHANGED <<users, holds, failures, history>>

InviteFind(h) ==
    /\ Arrives(h, "invite")
    /\ \E u \in Users \ Live, pw \in Passwords :
         Begin(h, "lookDeleted", u, NewUser("pending", pw, TRUE), "idle")
    /\ UNCHANGED <<users, holds, failures, history>>

InviteLook(h) ==
    /\ At(h, "lookDeleted")
    /\ Goto(h, IF users[task[h].u].exists = "deleted" THEN "restore" ELSE "insert")
    /\ rushed' = rushed \ {h}
    /\ UNCHANGED <<users, holds, arrived, failures, misses, fails, loggedOut, mails, resets, verdict, turnedAway>>

\* The unique index on (email, tenant) counts deleted rows too.
Insert(h) ==
    LET u == task[h].u
        free == users[u].exists = "absent"
    IN  /\ At(h, "insert")
        /\ users' = IF free THEN [users EXCEPT ![u] = task[h].row] ELSE users
        /\ verdict' = IF free THEN [verdict EXCEPT ![u] = None] ELSE verdict
        /\ IF free /\ task[h].next = "slot" THEN Goto(h, "slot") ELSE Finish(h)
        /\ UNCHANGED <<holds, arrived, failures, misses, fails, loggedOut, mails, resets, turnedAway, rushed>>

\* A deleted row comes back with a new password, role and token, and all else as it was.
Restore(h) ==
    LET u == task[h].u
        row == task[h].row
    IN  /\ At(h, "restore")
        /\ users' = [users EXCEPT ![u].exists = "live", ![u].password = row.password,
                                  ![u].status = "pending", ![u].invite = TRUE]
        /\ verdict' = [verdict EXCEPT ![u] = None]
        /\ rushed' = rushed \cup {g \in Handlers \ {h} : At(g, "restore") /\ task[g].u = u}
        /\ Finish(h)
        /\ UNCHANGED <<holds, arrived, failures, misses, fails, loggedOut, mails, resets, turnedAway>>

AcceptFind(h) ==
    /\ Arrives(h, "accept-invite")
    /\ \E u \in Live :
         /\ users[u].invite /\ users[u].status = "pending"
         /\ Begin(h, "accept", u, users[u], "idle")
    /\ UNCHANGED <<users, holds, failures, history>>

AcceptWrite(h) ==
    LET u == task[h].u IN
    /\ At(h, "accept")
    /\ users' = [users EXCEPT ![u].status = "active", ![u].invite = FALSE]
    /\ Finish(h)
    /\ UNCHANGED <<holds, arrived, failures, history>>

DeleteFind(h) ==
    /\ Arrives(h, "delete")
    /\ \E u \in Live : Begin(h, "delete", u, users[u], "idle")
    /\ UNCHANGED <<users, holds, failures, history>>

DeleteWrite(h) ==
    /\ At(h, "delete")
    /\ users' = [users EXCEPT ![task[h].u].exists = "deleted"]
    /\ Finish(h)
    /\ UNCHANGED <<holds, arrived, failures, history>>

\* hrOperations hires and fires, the students' and teachers' PATCH sets any status;
\* and both reach the rows of deleted users, whose students and teachers live on.
StatusFind(h) ==
    /\ Arrives(h, "set-status")
    /\ \E u \in Users, s \in Statuses :
         /\ users[u].exists # "absent"
         /\ Begin(h, "writeStatus", u, users[u], s)
    /\ UNCHANGED <<users, holds, failures, history>>

StatusWrite(h) ==
    LET u == task[h].u IN
    /\ At(h, "writeStatus")
    /\ users' = [users EXCEPT ![u].status = task[h].next]
    /\ verdict' = [verdict EXCEPT ![u] = task[h].next]
    /\ Finish(h)
    /\ UNCHANGED <<holds, arrived, failures, misses, fails, loggedOut, mails, resets, turnedAway, rushed>>

-----------------------------------------------------------------------------
(* What happens around the handlers                                        *)

LockExpires(u) ==
    /\ users[u].locked
    /\ users' = [users EXCEPT ![u].locked = FALSE]
    /\ misses' = [misses EXCEPT ![u] = 0]
    /\ UNCHANGED <<holds, task, arrived, failures, fails, loggedOut, mails, resets, verdict, turnedAway, rushed>>

CodeExpires(u) ==
    /\ users[u].fresh
    /\ users' = [users EXCEPT ![u].fresh = FALSE]
    /\ UNCHANGED <<holds, task, arrived, failures, history>>

\* The awaited statement fails, or the process dies: what is committed stays.
HandlerFails(h) ==
    /\ Busy(h)
    /\ failures < MaxFailures
    /\ failures' = failures + 1
    /\ Finish(h)
    /\ UNCHANGED <<users, holds, arrived, history>>

Request(h) ==
    \/ LoginFind(h) \/ RefreshFind(h) \/ Authenticate(h)
    \/ ForgotFind(h) \/ VerifyFind(h) \/ ResetFind(h)
    \/ CreateFind(h) \/ InviteFind(h) \/ AcceptFind(h) \/ DeleteFind(h) \/ StatusFind(h)

Proceed(h) ==
    \/ LoginMiss(h) \/ LoginForgive(h) \/ GenerateTokens(h) \/ LoginActivate(h)
    \/ RefreshRotate(h) \/ LogoutClear(h)
    \/ ChangeRead(h) \/ ChangeWrite(h)
    \/ SetupSecret(h) \/ EnableRead(h) \/ EnableWrite(h) \/ DisableWrite(h)
    \/ ForgotWrite(h) \/ VerifyWrite(h) \/ ResetWrite(h)
    \/ Insert(h) \/ InviteLook(h) \/ Restore(h) \/ AcceptWrite(h) \/ DeleteWrite(h)
    \/ StatusWrite(h)

Next ==
    \/ \E h \in Handlers : Request(h) \/ Proceed(h) \/ HandlerFails(h)
    \/ \E u \in Users : LockExpires(u) \/ CodeExpires(u)

Spec == Init /\ [][Next]_vars

-----------------------------------------------------------------------------
(* Properties                                                              *)

TypeOK ==
    /\ users \in [Users -> Row]
    /\ holds \subseteq Users
    /\ task \in [Handlers -> Task]
    /\ arrived \in Nat /\ failures \in Nat
    /\ misses \in [Users -> Nat]
    /\ fails \in [Users -> Nat]
    /\ loggedOut \subseteq Users
    /\ mails \in [Users -> Nat]
    /\ resets \in [Users -> Nat]
    /\ verdict \in [Users -> Statuses \cup {None}]
    /\ turnedAway \subseteq Users
    /\ rushed \subseteq Handlers

\* However requests overlap and fail, nobody is locked out who has not failed to
\* log in five times: validateUser never counts an attempt that was not made.
LockedOnlyAfterFive == \A u \in Users : users[u].locked => fails[u] >= LockAfter

\* What overlap costs the lock of validateUser: a handler that read the counter early
\* sets it back, so that k handlers let through (4+k over k) - 1 misses in a row, 4 for
\* one, 14 for two, and not one more.
LockoutOvershoot ==
    LET k == Cardinality(Handlers) IN
    \A u \in Users :
        misses[u] > choose(LockAfter - 1 + k, k) - 1 => users[u].locked

\* An account that some password opens never loses it for none, and while it is live no
\* creation replaces it: its owner does, with the old password or a mailed code, or an
\* invitation that saw the row deleted before another invitation brought it back.
KeepsPassword ==
    [][\A u \in Users : users[u].password # None =>
         /\ users'[u].password # None
         /\ u \in Live /\ users'[u].password # users[u].password =>
              \E h \in Handlers :
                 /\ task[h].u = u /\ ~Busy(h)'
                 /\ \/ At(h, "writePassword") \/ At(h, "reset")
                    \/ At(h, "restore") /\ h \in rushed]_vars

\* "After 5 failed login attempts, account is locked": five misses with no good login
\* between them lock the account.
FiveMissesLock == \A u \in Users : misses[u] >= LockAfter => users[u].locked

\* "Your account has been blocked": a user whom an administrator suspended or blocked
\* stays so until an administrator says otherwise, whatever the user is doing.
BlockedStaysBlocked ==
    \A u \in Users : verdict[u] \in {"suspended", "blocked"} => users[u].status = verdict[u]

\* "Logout and invalidate token": after a logout no refresh token is accepted until
\* the user logs in again.
LogoutEndsSession == \A u \in loggedOut : ~users[u].slot

\* A mailed code resets the password once: the code and the token it is exchanged for
\* are one and the same chance.
ResetsWithinMails == \A u \in Users : resets[u] <= mails[u]

\* Two-factor is only on where there is a secret to verify against.
TwoFaHasSecret == \A u \in Users : users[u].twoFa => users[u].secret

\* Two-factor login: with the right password and a valid code the user gets in.
TwoFaLogsIn == turnedAway = {}

=============================================================================
