--------------------------- MODULE AccountsProofs ---------------------------
(* Theorems about Accounts, for every value of its constants: what holds   *)
(* of every execution, and last what holds when requests come one at a     *)
(* time, also when any statement fails: every violation that overlapping   *)
(* requests reach is due to the overlap, and to nothing else.              *)
EXTENDS Accounts, SumProofs

LEMMA RowTypes == NoRow \in Row /\ Idle \in Task
<1>1. NoRow \in Row
  BY DEF NoRow, Row, Statuses
<1> QED
  BY <1>1, AccountsAssumption DEF Idle, Steps, Task

\* An account as it is inserted.
LEMMA NewUserType ==
    ASSUME NEW status \in Statuses, NEW pw \in Passwords \cup {None}, NEW invite \in BOOLEAN
    PROVE  NewUser(status, pw, invite) \in Row /\ NewUser(status, pw, invite).attempts = 0
  BY DEF NewUser, NoRow, Row

\* Writing the columns that one statement writes leaves a well-typed row.
LEMMA RowWrite ==
    ASSUME NEW r \in Row
    PROVE  /\ \A n \in Nat, b \in BOOLEAN : [r EXCEPT !.attempts = n, !.locked = b] \in Row
           /\ \A b \in BOOLEAN : [r EXCEPT !.slot = b] \in Row
           /\ \A s \in Statuses : [r EXCEPT !.status = s] \in Row
           /\ \A pw \in Passwords : [r EXCEPT !.password = pw] \in Row
           /\ [r EXCEPT !.secret = TRUE] \in Row
           /\ [r EXCEPT !.twoFa = TRUE] \in Row
           /\ [r EXCEPT !.twoFa = FALSE, !.secret = FALSE] \in Row
           /\ \A c \in {"otp", "token"} : [r EXCEPT !.code = c, !.fresh = TRUE] \in Row
           /\ \A pw \in Passwords :
                [r EXCEPT !.password = pw, !.code = "none", !.fresh = FALSE] \in Row
           /\ [r EXCEPT !.status = "active", !.invite = FALSE] \in Row
           /\ [r EXCEPT !.exists = "deleted"] \in Row
           /\ [r EXCEPT !.locked = FALSE] \in Row
           /\ [r EXCEPT !.fresh = FALSE] \in Row
  BY DEF Row, Statuses

LEMMA RestoreWrite ==
    ASSUME NEW r \in Row, NEW pw \in Passwords \cup {None}
    PROVE  [r EXCEPT !.exists = "live", !.password = pw, !.status = "pending",
                     !.invite = TRUE] \in Row
  BY DEF Row, Statuses

\* Writing one row leaves the table well typed.
LEMMA TableWrite ==
    ASSUME NEW I, NEW T, NEW f \in [I -> T], NEW i \in I, NEW r \in T
    PROVE  [f EXCEPT ![i] = r] \in [I -> T]
  OBVIOUS

LEMMA CountWrite ==
    ASSUME NEW f \in [Users -> Nat], NEW u \in Users
    PROVE  [f EXCEPT ![u] = @ + 1] \in [Users -> Nat] /\ [f EXCEPT ![u] = 0] \in [Users -> Nat]
<1>1. f[u] + 1 \in Nat
  OBVIOUS
<1> QED
  BY <1>1

\* What a step of handler h does to its task.
LEMMA TaskStep ==
    ASSUME TypeOK, NEW h \in Handlers
    PROVE  /\ task[h] \in Task
           /\ Busy(h) => task[h].u \in Users
           /\ Finish(h) => task' \in [Handlers -> Task]
           /\ \A step \in Steps \ {"idle", "writeStatus"} :
                Busy(h) /\ Goto(h, step) => task' \in [Handlers -> Task]
           /\ \A step \in Steps \ {"idle"}, u \in Users, row \in Row,
                 next \in Steps \cup Statuses :
                /\ step = "writeStatus" => next \in Statuses
                /\ Begin(h, step, u, row, next)
                => task' \in [Handlers -> Task]
<1>1. task \in [Handlers -> Task] /\ task[h] \in Task
  BY DEF TypeOK
<1>2. Busy(h) => task[h].u \in Users
  BY <1>1 DEF Busy, Task
<1>3. Finish(h) => task' \in [Handlers -> Task]
  BY <1>1, RowTypes DEF Finish
<1>4. ASSUME NEW step \in Steps \ {"idle", "writeStatus"}, Busy(h), Goto(h, step)
      PROVE  task' \in [Handlers -> Task]
  <2>1. [task[h] EXCEPT !.at = step] \in Task
    BY <1>1, <1>2, <1>4 DEF Task
  <2> QED
    BY <1>1, <1>4, <2>1 DEF Goto
<1>5. ASSUME NEW step \in Steps \ {"idle"}, NEW u \in Users, NEW row \in Row,
             NEW next \in Steps \cup Statuses, step = "writeStatus" => next \in Statuses,
             Begin(h, step, u, row, next)
      PROVE  task' \in [Handlers -> Task]
  <2>1. [at |-> step, u |-> u, row |-> row, next |-> next] \in Task
    BY <1>5 DEF Task
  <2> QED
    BY <1>1, <1>5, <2>1 DEF Begin
<1> QED
  BY <1>1, <1>2, <1>3, <1>4, <1>5

LEMMA InitType == Init => TypeOK
<1> SUFFICES ASSUME Init PROVE TypeOK
  OBVIOUS
<1>1. users \in [Users -> Row]
  <2>1. PICK seeded \in SUBSET Users, pw \in Passwords :
          users = [u \in Users |-> IF u \in seeded THEN NewUser("active", pw, FALSE) ELSE NoRow]
    BY DEF Init
  <2>2. NewUser("active", pw, FALSE) \in Row
    BY NewUserType DEF Statuses
  <2> QED
    BY <2>1, <2>2, RowTypes
<1> QED
  BY <1>1, RowTypes DEF Init, TypeOK

\* A request that starts reads, and writes no column.
LEMMA RequestReads ==
    ASSUME NEW h \in Handlers, Request(h)
    PROVE  /\ ~Busy(h)
           /\ arrived' = arrived + 1
           /\ UNCHANGED <<users, holds, failures, misses, fails, loggedOut, mails, resets, verdict>>
           /\ Overlapping \/ Quiet
  BY DEF Request, LoginFind, RefreshFind, Authenticate, ForgotFind, VerifyFind, ResetFind,
     CreateFind, InviteFind, AcceptFind, DeleteFind, StatusFind, Arrives, history

LEMMA RequestType ==
    ASSUME TypeOK, NEW h \in Handlers, Request(h)
    PROVE  TypeOK'
<1>0. arrived' \in Nat
  BY RequestReads DEF TypeOK
<1>1. Live \subseteq Users /\ \A u \in Users : users[u] \in Row
  BY DEF TypeOK, Live
<1> USE DEF Steps
<1>2. task' \in [Handlers -> Task]
  <2>1. CASE LoginFind(h)
    BY <1>1, <2>1, TaskStep DEF LoginFind
  <2>2. CASE RefreshFind(h)
    BY <1>1, <2>2, TaskStep DEF RefreshFind
  <2>3. CASE Authenticate(h)
    <3>1. PICK e \in SignedInEndpoints, u \in holds \cap Live :
            Begin(h, FirstStep[e], u, users[u], "idle")
      BY <2>3 DEF Authenticate
    <3>2. FirstStep[e] \in Steps \ {"idle", "writeStatus"}
      BY DEF FirstStep, SignedInEndpoints
    <3> QED
      BY <1>1, <3>1, <3>2, TaskStep
  <2>4. CASE ForgotFind(h)
    BY <1>1, <2>4, TaskStep DEF ForgotFind
  <2>5. CASE VerifyFind(h)
    BY <1>1, <2>5, TaskStep DEF VerifyFind
  <2>6. CASE ResetFind(h)
    BY <1>1, <2>6, TaskStep DEF ResetFind
  <2>7. CASE CreateFind(h)
    <3>1. \A pw \in Passwords \cup {None} :
            NewUser("active", pw, FALSE) \in Row /\ NewUser("pending", pw, FALSE) \in Row
      BY NewUserType DEF Statuses
    <3> QED
      BY <2>7, <3>1, TaskStep DEF CreateFind
  <2>8. CASE InviteFind(h)
    <3>1. \A pw \in Passwords : NewUser("pending", pw, TRUE) \in Row
      BY NewUserType DEF Statuses
    <3> QED
      BY <2>8, <3>1, TaskStep DEF InviteFind
  <2>9. CASE AcceptFind(h)
    BY <1>1, <2>9, TaskStep DEF AcceptFind
  <2>10. CASE DeleteFind(h)
    BY <1>1, <2>10, TaskStep DEF DeleteFind
  <2>11. CASE StatusFind(h)
    BY <1>1, <2>11, TaskStep DEF StatusFind
  <2> QED
    BY <2>1, <2>2, <2>3, <2>4, <2>5, <2>6, <2>7, <2>8, <2>9, <2>10, <2>11 DEF Request
<1>3. turnedAway' = turnedAway /\ rushed' = rushed
  BY DEF Request, LoginFind, RefreshFind, Authenticate, ForgotFind, VerifyFind, ResetFind,
     CreateFind, InviteFind, AcceptFind, DeleteFind, StatusFind, history
<1> QED
  BY <1>0, <1>2, <1>3, RequestReads DEF TypeOK

\* The steps that write one row, and the value each writes.
LEMMA ProceedType ==
    ASSUME TypeOK, NEW h \in Handlers, Proceed(h)
    PROVE  TypeOK'
<1> DEFINE u == task[h].u
<1>u. Busy(h) /\ u \in Users /\ users \in [Users -> Row] /\ users[u] \in Row
  <2>1. Busy(h)
    BY DEF Proceed, LoginMiss, LoginForgive, GenerateTokens, LoginActivate, RefreshRotate,
       LogoutClear, ChangeRead, ChangeWrite, SetupSecret, EnableRead, EnableWrite,
       DisableWrite, ForgotWrite, VerifyWrite, ResetWrite, Insert, InviteLook, Restore,
       AcceptWrite, DeleteWrite, StatusWrite, At, Busy
  <2> QED
    BY <2>1, TaskStep DEF TypeOK
<1>t. /\ task[h] \in Task
      /\ task[h].row \in Row
      /\ Finish(h) => task' \in [Handlers -> Task]
      /\ \A step \in Steps \ {"idle", "writeStatus"} : Goto(h, step) => task' \in [Handlers -> Task]
  BY <1>u, TaskStep DEF Task
<1> HIDE DEF u
<1> USE DEF TypeOK
<1>1. CASE LoginActivate(h)
  <2>1. [users[u] EXCEPT !.status = "active"] \in Row
    BY <1>u, RowWrite DEF Statuses
  <2>2. users' = [users EXCEPT ![u] = [users[u] EXCEPT !.status = "active"]]
    BY <1>1, <1>u DEF LoginActivate, u
  <2>3. users' \in [Users -> Row]
    BY <1>u, <2>1, <2>2, TableWrite
  <2> QED
    BY <1>1, <1>t, <1>u, <2>3 DEF LoginActivate, history, u
<1>2. CASE RefreshRotate(h)
  <2>1. [users[u] EXCEPT !.slot = TRUE] \in Row
    BY <1>u, RowWrite
  <2>2. users' = [users EXCEPT ![u] = [users[u] EXCEPT !.slot = TRUE]]
    BY <1>2, <1>u DEF RefreshRotate, u
  <2>3. users' \in [Users -> Row]
    BY <1>u, <2>1, <2>2, TableWrite
  <2> QED
    BY <1>2, <1>t, <1>u, <2>3 DEF RefreshRotate, history, u
<1>3. CASE LogoutClear(h)
  <2>1. [users[u] EXCEPT !.slot = FALSE] \in Row
    BY <1>u, RowWrite
  <2>2. users' = [users EXCEPT ![u] = [users[u] EXCEPT !.slot = FALSE]]
    BY <1>3, <1>u DEF LogoutClear, u
  <2>3. users' \in [Users -> Row]
    BY <1>u, <2>1, <2>2, TableWrite
  <2> QED
    BY <1>3, <1>t, <1>u, <2>3 DEF LogoutClear, history, u
<1>4. CASE SetupSecret(h)
  <2>1. [users[u] EXCEPT !.secret = TRUE] \in Row
    BY <1>u, RowWrite
  <2>2. users' = [users EXCEPT ![u] = [users[u] EXCEPT !.secret = TRUE]]
    BY <1>4, <1>u DEF SetupSecret, u
  <2>3. users' \in [Users -> Row]
    BY <1>u, <2>1, <2>2, TableWrite
  <2> QED
    BY <1>4, <1>t, <1>u, <2>3 DEF SetupSecret, history, u
<1>5. CASE EnableWrite(h)
  <2>1. [users[u] EXCEPT !.twoFa = TRUE] \in Row
    BY <1>u, RowWrite
  <2>2. users' = [users EXCEPT ![u] = [users[u] EXCEPT !.twoFa = TRUE]]
    BY <1>5, <1>u DEF EnableWrite, u
  <2>3. users' \in [Users -> Row]
    BY <1>u, <2>1, <2>2, TableWrite
  <2> QED
    BY <1>5, <1>t, <1>u, <2>3 DEF EnableWrite, history, u
<1>6. CASE DisableWrite(h)
  <2>1. [users[u] EXCEPT !.twoFa = FALSE, !.secret = FALSE] \in Row
    BY <1>u, RowWrite
  <2>2. users' = [users EXCEPT ![u] = [users[u] EXCEPT !.twoFa = FALSE, !.secret = FALSE]]
    BY <1>6, <1>u DEF DisableWrite, u
  <2>3. users' \in [Users -> Row]
    BY <1>u, <2>1, <2>2, TableWrite
  <2> QED
    BY <1>6, <1>t, <1>u, <2>3 DEF DisableWrite, history, u
<1>7. CASE ForgotWrite(h)
  <2>1. [users[u] EXCEPT !.code = "otp", !.fresh = TRUE] \in Row
    BY <1>u, RowWrite
  <2>2. users' = [users EXCEPT ![u] = [users[u] EXCEPT !.code = "otp", !.fresh = TRUE]]
    BY <1>7, <1>u DEF ForgotWrite, u
  <2>3. users' \in [Users -> Row]
    BY <1>u, <2>1, <2>2, TableWrite
  <2> QED
    BY <1>7, <1>t, <1>u, <2>3, CountWrite DEF ForgotWrite, history, u
<1>8. CASE VerifyWrite(h)
  <2>1. [users[u] EXCEPT !.code = "token", !.fresh = TRUE] \in Row
    BY <1>u, RowWrite
  <2>2. users' = [users EXCEPT ![u] = [users[u] EXCEPT !.code = "token", !.fresh = TRUE]]
    BY <1>8, <1>u DEF VerifyWrite, u
  <2>3. users' \in [Users -> Row]
    BY <1>u, <2>1, <2>2, TableWrite
  <2> QED
    BY <1>8, <1>t, <1>u, <2>3 DEF VerifyWrite, history, u
<1>9. CASE AcceptWrite(h)
  <2>1. [users[u] EXCEPT !.status = "active", !.invite = FALSE] \in Row
    BY <1>u, RowWrite
  <2>2. users' = [users EXCEPT ![u] = [users[u] EXCEPT !.status = "active", !.invite = FALSE]]
    BY <1>9, <1>u DEF AcceptWrite, u
  <2>3. users' \in [Users -> Row]
    BY <1>u, <2>1, <2>2, TableWrite
  <2> QED
    BY <1>9, <1>t, <1>u, <2>3 DEF AcceptWrite, history, u
<1>10. CASE DeleteWrite(h)
  <2>1. [users[u] EXCEPT !.exists = "deleted"] \in Row
    BY <1>u, RowWrite
  <2>2. users' = [users EXCEPT ![u] = [users[u] EXCEPT !.exists = "deleted"]]
    BY <1>10, <1>u DEF DeleteWrite, u
  <2>3. users' \in [Users -> Row]
    BY <1>u, <2>1, <2>2, TableWrite
  <2> QED
    BY <1>10, <1>t, <1>u, <2>3 DEF DeleteWrite, history, u
<1>11. CASE ChangeWrite(h)
  <2>1. PICK pw \in Passwords : users' = [users EXCEPT ![u] = [users[u] EXCEPT !.password = pw]]
    BY <1>11, <1>u DEF ChangeWrite, u
  <2>2. [users[u] EXCEPT !.password = pw] \in Row
    BY <1>u, RowWrite
  <2>3. users' \in [Users -> Row]
    BY <1>u, <2>1, <2>2, TableWrite
  <2> QED
    BY <1>11, <1>t, <1>u, <2>3 DEF ChangeWrite, history, u
<1>12. CASE ResetWrite(h)
  <2>1. PICK pw \in Passwords : users' = [users EXCEPT ![u] = [users[u] EXCEPT !.password = pw, !.code = "none", !.fresh = FALSE]]
    BY <1>12, <1>u DEF ResetWrite, u
  <2>2. [users[u] EXCEPT !.password = pw, !.code = "none", !.fresh = FALSE] \in Row
    BY <1>u, RowWrite
  <2>3. users' \in [Users -> Row]
    BY <1>u, <2>1, <2>2, TableWrite
  <2> QED
    BY <1>12, <1>t, <1>u, <2>3, CountWrite DEF ResetWrite, history, u
<1>13. CASE ChangeRead(h)
  BY <1>13, <1>t DEF ChangeRead, history, Steps
<1>14. CASE EnableRead(h)
  BY <1>14, <1>t DEF EnableRead, history, Steps
<1>15. CASE InviteLook(h)
  BY <1>15, <1>t DEF InviteLook, history, Steps
<1>16. CASE LoginMiss(h)
  <2> DEFINE attempts == task[h].row.attempts + 1
             locked   == users[u].locked \/ attempts >= LockAfter
  <2>1. attempts \in Nat /\ locked \in BOOLEAN
    BY <1>u, <1>t DEF Row, LockAfter
  <2>2. users' = [users EXCEPT ![u] = [users[u] EXCEPT !.attempts = attempts, !.locked = locked]]
    BY <1>16, <1>u DEF LoginMiss, u
  <2>3. users' \in [Users -> Row]
    <3> HIDE DEF attempts, locked
    <3>1. [users[u] EXCEPT !.attempts = attempts, !.locked = locked] \in Row
      BY <1>u, <2>1, RowWrite
    <3> QED
      BY <1>u, <2>2, <3>1, TableWrite
  <2> QED
    BY <1>16, <1>t, <1>u, <2>3, CountWrite DEF LoginMiss, u
<1>17. CASE LoginForgive(h)
  <2>1. [users[u] EXCEPT !.attempts = 0, !.locked = FALSE] \in Row
    BY <1>u, RowWrite
  <2>2. users' = [users EXCEPT ![u] = [users[u] EXCEPT !.attempts = 0, !.locked = FALSE]]
    BY <1>17, <1>u DEF LoginForgive, u
  <2>3. users' \in [Users -> Row]
    BY <1>u, <2>1, <2>2, TableWrite
  <2>4. task' \in [Handlers -> Task]
    <3>1. [task[h] EXCEPT !.at = "slot", !.next = "activate"] \in Task
      BY <1>t, <1>u DEF Task, Steps, u
    <3> QED
      BY <1>17, <1>t, <3>1 DEF LoginForgive
  <2>5. misses' \in [Users -> Nat]
    BY <1>17, <1>u, CountWrite DEF LoginForgive, u
  <2>6. turnedAway' \subseteq Users
    BY <1>17, <1>u DEF LoginForgive, u
  <2> QED
    BY <1>17, <2>3, <2>4, <2>5, <2>6 DEF LoginForgive
<1>18. CASE GenerateTokens(h)
  <2>1. [users[u] EXCEPT !.slot = TRUE] \in Row
    BY <1>u, RowWrite
  <2>2. users' = [users EXCEPT ![u] = [users[u] EXCEPT !.slot = TRUE]]
    BY <1>18, <1>u DEF GenerateTokens, u
  <2>3. users' \in [Users -> Row]
    BY <1>u, <2>1, <2>2, TableWrite
  <2>4. task' \in [Handlers -> Task] /\ holds' \subseteq Users
    BY <1>18, <1>t, <1>u DEF GenerateTokens, Steps, u
  <2> QED
    BY <1>18, <2>3, <2>4 DEF GenerateTokens
<1>19. CASE Insert(h)
  <2>1. users' \in [Users -> Row]
    BY <1>19, <1>t, <1>u, TableWrite DEF Insert, u
  <2>2. verdict' \in [Users -> Statuses \cup {None}]
    BY <1>19, <1>u DEF Insert, u
  <2>3. task' \in [Handlers -> Task]
    BY <1>19, <1>t DEF Insert, Steps
  <2> QED
    BY <1>19, <2>1, <2>2, <2>3 DEF Insert
<1>20. CASE Restore(h)
  <2> DEFINE pw == task[h].row.password
  <2>1. pw \in Passwords \cup {None}
    BY <1>t DEF Row
  <2>2. users' = [users EXCEPT ![u] = [users[u] EXCEPT !.exists = "live", !.password = pw,
                                         !.status = "pending", !.invite = TRUE]]
    BY <1>20, <1>u DEF Restore, u
  <2>3. users' \in [Users -> Row]
    <3> HIDE DEF pw
    <3> QED
      BY <1>u, <2>1, <2>2, RestoreWrite, TableWrite
  <2>4. verdict' \in [Users -> Statuses \cup {None}]
    BY <1>20, <1>u DEF Restore, u
  <2> QED
    BY <1>20, <1>t, <2>3, <2>4 DEF Restore
<1>21. CASE StatusWrite(h)
  <2> DEFINE s == task[h].next
  <2>1. s \in Statuses
    BY <1>21, <1>t DEF StatusWrite, At, Task
  <2>2. users' = [users EXCEPT ![u] = [users[u] EXCEPT !.status = s]]
    BY <1>21, <1>u DEF StatusWrite, u
  <2>3. verdict' = [verdict EXCEPT ![u] = s]
    BY <1>21 DEF StatusWrite, u
  <2> HIDE DEF s
  <2>4. users' \in [Users -> Row]
    BY <1>u, <2>1, <2>2, RowWrite, TableWrite
  <2> QED
    BY <1>21, <1>t, <1>u, <2>1, <2>3, <2>4 DEF StatusWrite
<1> QED
  BY <1>1, <1>2, <1>3, <1>4, <1>5, <1>6, <1>7, <1>8, <1>9, <1>10, <1>11, <1>12, <1>13, <1>14, <1>15, <1>16, <1>17, <1>18, <1>19, <1>20, <1>21 DEF Proceed

LEMMA NextType == TypeOK /\ [Next]_vars => TypeOK'
<1> SUFFICES ASSUME TypeOK, [Next]_vars PROVE TypeOK'
  OBVIOUS
<1>1. CASE \E h \in Handlers : Request(h)
  BY <1>1, RequestType
<1>2. CASE \E h \in Handlers : Proceed(h)
  BY <1>2, ProceedType
<1>3. ASSUME NEW h \in Handlers, HandlerFails(h) PROVE TypeOK'
  BY <1>3, TaskStep DEF HandlerFails, history, TypeOK
<1>4. ASSUME NEW u \in Users, LockExpires(u) \/ CodeExpires(u) PROVE TypeOK'
  <2>1. users[u] \in Row /\ users \in [Users -> Row]
    BY DEF TypeOK
  <2>2. users' \in [Users -> Row]
    <3>1. [users[u] EXCEPT !.locked = FALSE] \in Row /\ [users[u] EXCEPT !.fresh = FALSE] \in Row
      BY <2>1, RowWrite
    <3>2. \/ users' = [users EXCEPT ![u] = [users[u] EXCEPT !.locked = FALSE]]
          \/ users' = [users EXCEPT ![u] = [users[u] EXCEPT !.fresh = FALSE]]
      BY <1>4, <2>1 DEF LockExpires, CodeExpires
    <3> QED
      BY <2>1, <3>1, <3>2, TableWrite
  <2> QED
    BY <1>4, <2>2, CountWrite DEF LockExpires, CodeExpires, history, TypeOK
<1>5. CASE UNCHANGED vars
  BY <1>5 DEF vars, history, TypeOK
<1> QED
  BY <1>1, <1>2, <1>3, <1>4, <1>5 DEF Next

\* Every reachable state is well typed: no counter, column or handler leaves its range.
THEOREM TypeCorrect == Spec => []TypeOK
  BY InitType, NextType, PTL DEF Spec

-----------------------------------------------------------------------------
(* What a step leaves alone.                                               *)

\* A step of one handler leaves the tasks of the others alone.
LEMMA Others ==
    ASSUME TypeOK, NEW h \in Handlers, Request(h) \/ Proceed(h) \/ HandlerFails(h)
    PROVE  \A g \in Handlers \ {h} : task'[g] = task[g]
<1>0. task \in [Handlers -> Task]
  BY DEF TypeOK
<1>1. CASE Request(h)
  <2>1. CASE ~Authenticate(h)
    BY <1>0, <1>1, <2>1 DEF Request, LoginFind, RefreshFind, ForgotFind, VerifyFind, ResetFind,
       CreateFind, InviteFind, AcceptFind, DeleteFind, StatusFind, Begin
  <2>2. CASE Authenticate(h)
    <3>1. PICK e \in SignedInEndpoints, u \in holds \cap Live :
            Begin(h, FirstStep[e], u, users[u], "idle")
      BY <2>2 DEF Authenticate
    <3> QED
      BY <1>0, <3>1 DEF Begin
  <2> QED
    BY <2>1, <2>2
<1>2. CASE Proceed(h)
  BY <1>0, <1>2 DEF Proceed, LoginMiss, LoginForgive, GenerateTokens, LoginActivate,
     RefreshRotate, LogoutClear, ChangeRead, ChangeWrite, SetupSecret, EnableRead, EnableWrite,
     DisableWrite, ForgotWrite, VerifyWrite, ResetWrite, Insert, InviteLook, Restore,
     AcceptWrite, DeleteWrite, StatusWrite, Goto, Finish
<1>3. CASE HandlerFails(h)
  BY <1>0, <1>3 DEF HandlerFails, Finish
<1> QED
  BY <1>1, <1>2, <1>3

\* The columns of v that a step of handler h may write, by where h stands.
Kept(h, v) ==
    LET at == task[h].at IN
    /\ at \notin {"insert", "restore", "delete"} => users'[v].exists = users[v].exists
    /\ at \notin {"miss", "forgive", "insert"} =>
         users'[v].attempts = users[v].attempts /\ users'[v].locked = users[v].locked
    /\ at \notin {"activate", "accept", "restore", "writeStatus", "insert"} =>
         users'[v].status = users[v].status
    /\ at \notin {"slot", "rotate", "clearSlot", "insert"} => users'[v].slot = users[v].slot
    /\ at \notin {"writeCode", "writeToken", "reset", "insert"} => users'[v].code = users[v].code
    /\ at \notin {"enable", "clearSecret", "insert"} => users'[v].twoFa = users[v].twoFa
    /\ at \notin {"writeSecret", "clearSecret", "insert"} => users'[v].secret = users[v].secret

LEMMA RowFrame ==
    ASSUME TypeOK, NEW h \in Handlers, Proceed(h), NEW v \in Users
    PROVE  /\ v # task[h].u => users'[v] = users[v]
           /\ Kept(h, v)
<1> DEFINE u == task[h].u
           Goal == (v # u => users'[v] = users[v]) /\ Kept(h, v)
<1>0. users \in [Users -> Row] /\ users[v] \in Row
  BY DEF TypeOK
<1>1. ASSUME users' = users PROVE Goal
  BY <1>1 DEF Kept
<1>2. ASSUME NEW r, users' = [users EXCEPT ![u] = r], v = u => Kept(h, v) PROVE Goal
  <2>1. CASE v # u
    BY <1>0, <1>2, <2>1 DEF Kept
  <2>2. CASE v = u
    BY <1>2, <2>2
  <2> QED
    BY <2>1, <2>2
<1>3. ASSUME NEW r, users' = [users EXCEPT ![u] = r], v = u PROVE users'[v] = r
  BY <1>0, <1>3
<1>4. CASE LoginActivate(h)
  <2>1. users' = [users EXCEPT ![u] = [users[u] EXCEPT !.status = "active"]]
    BY <1>0, <1>4 DEF LoginActivate
  <2>2. v = u => Kept(h, v)
    BY <1>0, <1>3, <1>4, <2>1 DEF LoginActivate, At, Kept, Row
  <2> QED
    BY <1>2, <2>1, <2>2
<1>5. CASE RefreshRotate(h)
  <2>1. users' = [users EXCEPT ![u] = [users[u] EXCEPT !.slot = TRUE]]
    BY <1>0, <1>5 DEF RefreshRotate
  <2>2. v = u => Kept(h, v)
    BY <1>0, <1>3, <1>5, <2>1 DEF RefreshRotate, At, Kept, Row
  <2> QED
    BY <1>2, <2>1, <2>2
<1>6. CASE GenerateTokens(h)
  <2>1. users' = [users EXCEPT ![u] = [users[u] EXCEPT !.slot = TRUE]]
    BY <1>0, <1>6 DEF GenerateTokens
  <2>2. v = u => Kept(h, v)
    BY <1>0, <1>3, <1>6, <2>1 DEF GenerateTokens, At, Kept, Row
  <2> QED
    BY <1>2, <2>1, <2>2
<1>7. CASE LogoutClear(h)
  <2>1. users' = [users EXCEPT ![u] = [users[u] EXCEPT !.slot = FALSE]]
    BY <1>0, <1>7 DEF LogoutClear
  <2>2. v = u => Kept(h, v)
    BY <1>0, <1>3, <1>7, <2>1 DEF LogoutClear, At, Kept, Row
  <2> QED
    BY <1>2, <2>1, <2>2
<1>8. CASE SetupSecret(h)
  <2>1. users' = [users EXCEPT ![u] = [users[u] EXCEPT !.secret = TRUE]]
    BY <1>0, <1>8 DEF SetupSecret
  <2>2. v = u => Kept(h, v)
    BY <1>0, <1>3, <1>8, <2>1 DEF SetupSecret, At, Kept, Row
  <2> QED
    BY <1>2, <2>1, <2>2
<1>9. CASE EnableWrite(h)
  <2>1. users' = [users EXCEPT ![u] = [users[u] EXCEPT !.twoFa = TRUE]]
    BY <1>0, <1>9 DEF EnableWrite
  <2>2. v = u => Kept(h, v)
    BY <1>0, <1>3, <1>9, <2>1 DEF EnableWrite, At, Kept, Row
  <2> QED
    BY <1>2, <2>1, <2>2
<1>10. CASE DisableWrite(h)
  <2>1. users' = [users EXCEPT ![u] = [users[u] EXCEPT !.twoFa = FALSE, !.secret = FALSE]]
    BY <1>0, <1>10 DEF DisableWrite
  <2>2. v = u => Kept(h, v)
    BY <1>0, <1>3, <1>10, <2>1 DEF DisableWrite, At, Kept, Row
  <2> QED
    BY <1>2, <2>1, <2>2
<1>11. CASE ForgotWrite(h)
  <2>1. users' = [users EXCEPT ![u] = [users[u] EXCEPT !.code = "otp", !.fresh = TRUE]]
    BY <1>0, <1>11 DEF ForgotWrite
  <2>2. v = u => Kept(h, v)
    BY <1>0, <1>3, <1>11, <2>1 DEF ForgotWrite, At, Kept, Row
  <2> QED
    BY <1>2, <2>1, <2>2
<1>12. CASE VerifyWrite(h)
  <2>1. users' = [users EXCEPT ![u] = [users[u] EXCEPT !.code = "token", !.fresh = TRUE]]
    BY <1>0, <1>12 DEF VerifyWrite
  <2>2. v = u => Kept(h, v)
    BY <1>0, <1>3, <1>12, <2>1 DEF VerifyWrite, At, Kept, Row
  <2> QED
    BY <1>2, <2>1, <2>2
<1>13. CASE AcceptWrite(h)
  <2>1. users' = [users EXCEPT ![u] = [users[u] EXCEPT !.status = "active", !.invite = FALSE]]
    BY <1>0, <1>13 DEF AcceptWrite
  <2>2. v = u => Kept(h, v)
    BY <1>0, <1>3, <1>13, <2>1 DEF AcceptWrite, At, Kept, Row
  <2> QED
    BY <1>2, <2>1, <2>2
<1>14. CASE DeleteWrite(h)
  <2>1. users' = [users EXCEPT ![u] = [users[u] EXCEPT !.exists = "deleted"]]
    BY <1>0, <1>14 DEF DeleteWrite
  <2>2. v = u => Kept(h, v)
    BY <1>0, <1>3, <1>14, <2>1 DEF DeleteWrite, At, Kept, Row
  <2> QED
    BY <1>2, <2>1, <2>2
<1>15. CASE LoginForgive(h)
  <2>1. users' = [users EXCEPT ![u] = [users[u] EXCEPT !.attempts = 0, !.locked = FALSE]]
    BY <1>0, <1>15 DEF LoginForgive
  <2>2. v = u => Kept(h, v)
    BY <1>0, <1>3, <1>15, <2>1 DEF LoginForgive, At, Kept, Row
  <2> QED
    BY <1>2, <2>1, <2>2
<1>16. CASE StatusWrite(h)
  <2>1. users' = [users EXCEPT ![u] = [users[u] EXCEPT !.status = task[h].next]]
    BY <1>0, <1>16 DEF StatusWrite
  <2>2. v = u => Kept(h, v)
    BY <1>0, <1>3, <1>16, <2>1 DEF StatusWrite, At, Kept, Row
  <2> QED
    BY <1>2, <2>1, <2>2
<1>17. CASE Restore(h)
  <2> DEFINE pw == task[h].row.password
  <2>1. users' = [users EXCEPT ![u] = [users[u] EXCEPT !.exists = "live", !.password = pw,
                                         !.status = "pending", !.invite = TRUE]]
    BY <1>0, <1>17 DEF Restore
  <2>2. task[h].at = "restore"
    BY <1>17 DEF Restore, At
  <2> HIDE DEF pw
  <2>3. v = u => users'[v] = [users[v] EXCEPT !.exists = "live", !.password = pw,
                                !.status = "pending", !.invite = TRUE]
    BY <1>0, <2>1
  <2>4. v = u => Kept(h, v)
    BY <1>0, <2>2, <2>3 DEF Kept, Row
  <2> QED
    BY <1>2, <2>1, <2>4
<1>18. CASE LoginMiss(h)
  <2>1. users' = [users EXCEPT ![u] = [users[u] EXCEPT !.attempts = task[h].row.attempts + 1,
                    !.locked = @ \/ task[h].row.attempts + 1 >= LockAfter]]
    BY <1>0, <1>18 DEF LoginMiss
  <2>2. v = u => Kept(h, v)
    BY <1>0, <1>3, <1>18, <2>1 DEF LoginMiss, At, Kept, Row
  <2> QED
    BY <1>2, <2>1, <2>2
<1>19. CASE ChangeWrite(h)
  <2>1. PICK pw \in Passwords : users' = [users EXCEPT ![u] = [users[u] EXCEPT !.password = pw]]
    BY <1>0, <1>19 DEF ChangeWrite
  <2>2. v = u => Kept(h, v)
    BY <1>0, <1>3, <1>19, <2>1 DEF ChangeWrite, At, Kept, Row
  <2> QED
    BY <1>2, <2>1, <2>2
<1>20. CASE ResetWrite(h)
  <2>1. PICK pw \in Passwords : users' = [users EXCEPT ![u] = [users[u] EXCEPT !.password = pw, !.code = "none", !.fresh = FALSE]]
    BY <1>0, <1>20 DEF ResetWrite
  <2>2. v = u => Kept(h, v)
    BY <1>0, <1>3, <1>20, <2>1 DEF ResetWrite, At, Kept, Row
  <2> QED
    BY <1>2, <2>1, <2>2
<1>21. CASE Insert(h)
  <2>1. v = u => Kept(h, v)
    BY <1>21 DEF Insert, At, Kept
  <2> QED
    BY <1>1, <1>2, <1>21, <2>1 DEF Insert
<1>22. CASE ChangeRead(h) \/ EnableRead(h) \/ InviteLook(h)
  BY <1>1, <1>22 DEF ChangeRead, EnableRead, InviteLook
<1> QED
  BY <1>4, <1>5, <1>6, <1>7, <1>8, <1>9, <1>10, <1>11, <1>12, <1>13, <1>14, <1>15, <1>16, <1>17, <1>18, <1>19, <1>20, <1>21, <1>22 DEF Proceed

\* The histories a step of handler h may change, by where h stands.
LEMMA HistoryFrame ==
    ASSUME NEW h \in Handlers, Proceed(h)
    PROVE  LET at == task[h].at IN
           /\ at # "miss" => fails' = fails
           /\ at \notin {"miss", "forgive"} => misses' = misses
           /\ at \notin {"slot", "clearSlot"} => loggedOut' = loggedOut
           /\ at # "writeCode" => mails' = mails
           /\ at # "reset" => resets' = resets
           /\ at \notin {"insert", "restore", "writeStatus"} => verdict' = verdict
           /\ at \notin {"lookDeleted", "restore"} => rushed' = rushed
           /\ at = "lookDeleted" => rushed' = rushed \ {h}
           /\ at = "restore" =>
                rushed' = rushed \cup {g \in Handlers \ {h} :
                                        At(g, "restore") /\ task[g].u = task[h].u}
  BY DEF Proceed, LoginMiss, LoginForgive, GenerateTokens, LoginActivate, RefreshRotate,
     LogoutClear, ChangeRead, ChangeWrite, SetupSecret, EnableRead, EnableWrite, DisableWrite,
     ForgotWrite, VerifyWrite, ResetWrite, Insert, InviteLook, Restore, AcceptWrite,
     DeleteWrite, StatusWrite, At, history

-----------------------------------------------------------------------------
(* What a handler knows about the row when it is about to write it.        *)

Fresh(row) == /\ row.attempts = 0 /\ ~row.locked
              /\ ~row.slot /\ row.code = "none" /\ ~row.twoFa

LEMMA RequestSees ==
    ASSUME TypeOK, NEW h \in Handlers, Request(h)
    PROVE  LET t == task'[h] IN
           /\ t.at \in {"miss", "forgive"} =>
                t.u \in Users /\ t.row = users[t.u] /\ users[t.u].exists = "live"
           /\ t.at = "rotate" => users[t.u].slot
           /\ t.at \in {"writeToken", "reset"} => users[t.u].code # "none"
           /\ t.at = "accept" => users[t.u].status = "pending"
           /\ t.at \in {"insert", "lookDeleted"} => Fresh(t.row)
           /\ t.at \notin {"slot", "activate", "enable", "restore"}
<1> DEFINE t == task'[h]
<1>0. task \in [Handlers -> Task]
  BY DEF TypeOK
<1>1. \A step, u, row, next :
        Begin(h, step, u, row, next) => t.at = step /\ t.u = u /\ t.row = row /\ t.next = next
  BY <1>0 DEF Begin
<1> HIDE DEF t
<1>2. CASE LoginFind(h)
  <2>1. PICK u \in Live : \E step \in {"miss", "forgive"} : Begin(h, step, u, users[u], "idle")
    BY <1>2 DEF LoginFind
  <2>2. t.at \in {"miss", "forgive"} /\ t.u = u /\ t.row = users[u]
    BY <1>1, <2>1
  <2> QED
    BY <2>2 DEF Live, t
<1>3. CASE Authenticate(h)
  <2>1. PICK e \in SignedInEndpoints, u \in holds \cap Live :
          Begin(h, FirstStep[e], u, users[u], "idle")
    BY <1>3 DEF Authenticate
  <2>2. t.at = FirstStep[e]
    BY <1>1, <2>1
  <2>3. FirstStep[e] \in {"clearSlot", "readPassword", "writeSecret", "readSecret", "clearSecret"}
    BY DEF FirstStep, SignedInEndpoints
  <2> QED
    BY <2>2, <2>3 DEF t
<1>4. CASE RefreshFind(h)
  <2>1. PICK u \in Live : users[u].slot /\ Begin(h, "rotate", u, users[u], "idle")
    BY <1>4 DEF RefreshFind
  <2>2. t.at = "rotate" /\ t.u = u
    BY <1>1, <2>1
  <2> QED
    BY <2>1, <2>2 DEF t
<1>5. CASE VerifyFind(h) \/ ResetFind(h)
  <2>1. PICK u \in Live, step \in {"writeToken", "reset"} :
          users[u].code # "none" /\ Begin(h, step, u, users[u], "idle")
    BY <1>5 DEF VerifyFind, ResetFind
  <2>2. t.at \in {"writeToken", "reset"} /\ t.u = u
    BY <1>1, <2>1
  <2> QED
    BY <2>1, <2>2 DEF t
<1>6. CASE AcceptFind(h)
  <2>1. PICK u \in Live : users[u].status = "pending" /\ Begin(h, "accept", u, users[u], "idle")
    BY <1>6 DEF AcceptFind
  <2>2. t.at = "accept" /\ t.u = u
    BY <1>1, <2>1
  <2> QED
    BY <2>1, <2>2 DEF t
<1>7. CASE ForgotFind(h) \/ DeleteFind(h) \/ StatusFind(h)
  <2>1. PICK u \in Users, step \in {"writeCode", "delete", "writeStatus"},
             next \in Statuses \cup {"idle"} : Begin(h, step, u, users[u], next)
    BY <1>7 DEF ForgotFind, DeleteFind, StatusFind, Live
  <2>2. t.at \in {"writeCode", "delete", "writeStatus"}
    BY <1>1, <2>1
  <2> QED
    BY <2>2 DEF t
<1>8. CASE CreateFind(h) \/ InviteFind(h)
  <2>1. PICK u \in Users, step \in {"insert", "lookDeleted"}, status \in Statuses,
             pw \in Passwords \cup {None}, invite \in BOOLEAN, next \in {"slot", "idle"} :
          Begin(h, step, u, NewUser(status, pw, invite), next)
    BY <1>8 DEF CreateFind, InviteFind, Statuses
  <2>2. t.at \in {"insert", "lookDeleted"} /\ t.row = NewUser(status, pw, invite)
    BY <1>1, <2>1
  <2>3. Fresh(NewUser(status, pw, invite))
    BY DEF Fresh, NewUser, NoRow
  <2> QED
    BY <2>2, <2>3 DEF t
<1> QED
  BY <1>2, <1>3, <1>4, <1>5, <1>6, <1>7, <1>8 DEF Request

LEMMA ProceedSees ==
    ASSUME TypeOK, NEW h \in Handlers, Proceed(h)
    PROVE  LET t == task'[h] IN
           \/ t.at \in {"idle", "writePassword"}
           \/ /\ t.at = "slot" /\ t.next = "activate" /\ t.u = task[h].u
              /\ task[h].at = "forgive" /\ task[h].row.status \notin Refused
           \/ t.at = "slot" /\ t.next = "slot"
           \/ /\ t.at = "activate" /\ t.u = task[h].u
              /\ task[h].at = "slot" /\ task[h].next = "activate"
           \/ /\ t.at = "enable" /\ t.u = task[h].u
              /\ task[h].at = "readSecret" /\ users[t.u].secret
           \/ /\ t.at \in {"restore", "insert"} /\ t.row = task[h].row
              /\ task[h].at = "lookDeleted"
<1> DEFINE t == task'[h]
<1>0. task \in [Handlers -> Task] /\ task[h] \in Task
  BY DEF TypeOK
<1>1. Finish(h) => t.at = "idle"
  BY <1>0 DEF Finish, Idle
<1>2. ASSUME NEW step, Goto(h, step)
      PROVE  t.at = step /\ t.u = task[h].u /\ t.row = task[h].row /\ t.next = task[h].next
  BY <1>0, <1>2 DEF Goto, Task
<1>3. CASE LoginForgive(h)
  <2>1. CASE task' = [task EXCEPT ![h].at = "slot", ![h].next = "activate"]
    <3>1. t = [task[h] EXCEPT !.at = "slot", !.next = "activate"]
      BY <1>0, <2>1
    <3>2. t.at = "slot" /\ t.next = "activate" /\ t.u = task[h].u
      BY <1>0, <3>1 DEF Task
    <3>3. Finish(h) => t.at = "idle"
      BY <1>1
    <3> QED
      BY <1>3, <3>2, <3>3 DEF LoginForgive, At
  <2> QED
    BY <1>1, <1>3, <2>1 DEF LoginForgive
<1>4. CASE GenerateTokens(h) \/ ChangeRead(h) \/ EnableRead(h)
  BY <1>1, <1>2, <1>4 DEF GenerateTokens, ChangeRead, EnableRead, At
<1>5. CASE InviteLook(h) \/ Insert(h)
  BY <1>1, <1>2, <1>5 DEF InviteLook, Insert, At
<1>6. CASE \/ LoginMiss(h) \/ LoginActivate(h) \/ RefreshRotate(h) \/ LogoutClear(h)
           \/ ChangeWrite(h) \/ SetupSecret(h) \/ EnableWrite(h) \/ DisableWrite(h)
           \/ ForgotWrite(h) \/ VerifyWrite(h) \/ ResetWrite(h)
           \/ Restore(h) \/ AcceptWrite(h) \/ DeleteWrite(h) \/ StatusWrite(h)
  BY <1>1, <1>6 DEF LoginMiss, LoginActivate, RefreshRotate, LogoutClear, ChangeWrite,
     SetupSecret, EnableWrite, DisableWrite, ForgotWrite, VerifyWrite, ResetWrite, Restore,
     AcceptWrite, DeleteWrite, StatusWrite
<1> QED
  BY <1>3, <1>4, <1>5, <1>6 DEF Proceed

\* What the steps write that change the counter of failed logins.
LEMMA CounterWrites ==
    ASSUME TypeOK, NEW h \in Handlers, Proceed(h)
    PROVE  LET u == task[h].u
               new == users'[u]
           IN  /\ u \in Users
               /\ task[h].at = "miss" =>
                    /\ new.attempts = task[h].row.attempts + 1
                    /\ new.locked = (users[u].locked \/ new.attempts >= LockAfter)
                    /\ fails' = [fails EXCEPT ![u] = @ + 1]
                    /\ misses' = [misses EXCEPT ![u] = @ + 1]
               /\ task[h].at = "forgive" =>
                    /\ new.attempts = 0 /\ ~new.locked
                    /\ misses' = [misses EXCEPT ![u] = 0]
               /\ task[h].at = "insert" => new = users[u] \/ new = task[h].row
<1> DEFINE u == task[h].u
<1>1. Busy(h) /\ u \in Users /\ users \in [Users -> Row] /\ users[u] \in Row
  <2>1. Busy(h)
    BY DEF Proceed, LoginMiss, LoginForgive, GenerateTokens, LoginActivate, RefreshRotate,
       LogoutClear, ChangeRead, ChangeWrite, SetupSecret, EnableRead, EnableWrite,
       DisableWrite, ForgotWrite, VerifyWrite, ResetWrite, Insert, InviteLook, Restore,
       AcceptWrite, DeleteWrite, StatusWrite, At, Busy
  <2> QED
    BY <2>1, TaskStep DEF TypeOK
<1>2. CASE LoginMiss(h)
  <2> DEFINE attempts == task[h].row.attempts + 1
             locked   == users[u].locked \/ attempts >= LockAfter
  <2>1. users' = [users EXCEPT ![u] = [users[u] EXCEPT !.attempts = attempts, !.locked = locked]]
    BY <1>1, <1>2 DEF LoginMiss
  <2>2. users'[u].attempts = attempts /\ users'[u].locked = locked
    <3> HIDE DEF attempts, locked
    <3> QED
      BY <1>1, <2>1 DEF Row
  <2> QED
    BY <1>1, <1>2, <2>2 DEF LoginMiss, At
<1>3. CASE LoginForgive(h)
  <2>1. users' = [users EXCEPT ![u] = [users[u] EXCEPT !.attempts = 0, !.locked = FALSE]]
    BY <1>1, <1>3 DEF LoginForgive
  <2> QED
    BY <1>1, <1>3, <2>1 DEF LoginForgive, At, Row
<1>4. CASE Insert(h)
  BY <1>1, <1>4 DEF Insert, At
<1>5. CASE ~(LoginMiss(h) \/ LoginForgive(h) \/ Insert(h))
  BY <1>1, <1>5 DEF Proceed, GenerateTokens, LoginActivate, RefreshRotate, LogoutClear,
     ChangeRead, ChangeWrite, SetupSecret, EnableRead, EnableWrite, DisableWrite, ForgotWrite,
     VerifyWrite, ResetWrite, InviteLook, Restore, AcceptWrite, DeleteWrite, StatusWrite, At
<1> QED
  BY <1>2, <1>3, <1>4, <1>5

\* The time limits of a lock and of a code run out.
LEMMA Expiry ==
    ASSUME TypeOK, NEW u \in Users, LockExpires(u) \/ CodeExpires(u), NEW v \in Users
    PROVE  /\ UNCHANGED <<task, holds, fails, loggedOut, mails, resets, verdict>>
           /\ users'[v] = users[v] \/ users'[v] = [users[v] EXCEPT !.locked = FALSE]
                                  \/ users'[v] = [users[v] EXCEPT !.fresh = FALSE]
           /\ misses' = misses \/ misses' = [misses EXCEPT ![u] = 0]
           /\ \/ users'[v].locked = users[v].locked
              \/ v = u /\ misses'[v] = 0 /\ ~users'[v].locked
<1>1. users \in [Users -> Row] /\ users[v] \in Row /\ misses \in [Users -> Nat]
  BY DEF TypeOK
<1>2. CASE LockExpires(u)
  <2>1. users' = [users EXCEPT ![u] = [users[u] EXCEPT !.locked = FALSE]]
    BY <1>1, <1>2 DEF LockExpires
  <2>2. v # u => users'[v] = users[v]
    BY <1>1, <2>1
  <2>3. v = u => users'[v] = [users[v] EXCEPT !.locked = FALSE]
    BY <1>1, <2>1
  <2>4. v = u => ~users'[v].locked /\ misses'[v] = 0
    BY <1>1, <1>2, <2>3 DEF LockExpires, Row
  <2>5. UNCHANGED <<task, holds, fails, loggedOut, mails, resets, verdict>>
        /\ misses' = [misses EXCEPT ![u] = 0]
    BY <1>2 DEF LockExpires
  <2>6. CASE v # u
    BY <2>2, <2>5, <2>6
  <2>7. CASE v = u
    BY <2>3, <2>4, <2>5, <2>7
  <2> QED
    BY <2>6, <2>7
<1>3. CASE CodeExpires(u)
  <2>1. users' = [users EXCEPT ![u] = [users[u] EXCEPT !.fresh = FALSE]]
    BY <1>1, <1>3 DEF CodeExpires
  <2>2. v # u => users'[v] = users[v]
    BY <1>1, <2>1
  <2>3. v = u => users'[v] = [users[v] EXCEPT !.fresh = FALSE]
    BY <1>1, <2>1
  <2>4. users'[v].locked = users[v].locked
    BY <1>1, <2>2, <2>3 DEF Row
  <2>5. UNCHANGED <<task, holds, fails, loggedOut, mails, resets, verdict, misses>>
    BY <1>3 DEF CodeExpires, history
  <2>6. CASE v # u
    BY <2>2, <2>5, <2>6
  <2>7. CASE v = u
    BY <2>3, <2>4, <2>5, <2>7
  <2> QED
    BY <2>6, <2>7
<1> QED
  BY <1>2, <1>3

\* Setting one of the two flags of a row leaves its other columns.
LEMMA FlagWrite ==
    ASSUME NEW r \in Row
    PROVE  /\ \A f \in {"exists", "status", "password", "attempts", "slot", "code",
                        "twoFa", "secret", "invite"} :
                /\ [r EXCEPT !.locked = FALSE][f] = r[f]
                /\ [r EXCEPT !.fresh = FALSE][f] = r[f]
           /\ ~[r EXCEPT !.locked = FALSE].locked
           /\ [r EXCEPT !.fresh = FALSE].locked = r.locked
  BY DEF Row

\* The columns that neither the end of a lock nor the end of a code touches.
LEMMA ExpiryKeeps ==
    ASSUME TypeOK, NEW u \in Users, LockExpires(u) \/ CodeExpires(u), NEW v \in Users
    PROVE  /\ users'[v].attempts = users[v].attempts /\ users'[v].exists = users[v].exists
           /\ users'[v].status = users[v].status /\ users'[v].slot = users[v].slot
           /\ users'[v].code = users[v].code /\ users'[v].twoFa = users[v].twoFa
           /\ users'[v].secret = users[v].secret /\ users'[v].password = users[v].password
           /\ users'[v].locked => users[v].locked
<1>1. users[v] \in Row
  BY DEF TypeOK
<1>2. \/ users'[v] = users[v]
      \/ users'[v] = [users[v] EXCEPT !.locked = FALSE]
      \/ users'[v] = [users[v] EXCEPT !.fresh = FALSE]
  BY Expiry
<1>3. CASE users'[v] = users[v]
  BY <1>3
<1>4. CASE users'[v] = [users[v] EXCEPT !.locked = FALSE]
  BY <1>1, <1>4, FlagWrite
<1>5. CASE users'[v] = [users[v] EXCEPT !.fresh = FALSE]
  BY <1>1, <1>5, FlagWrite
<1> QED
  BY <1>2, <1>3, <1>4, <1>5

-----------------------------------------------------------------------------
(* Nobody is locked out without five failed logins.  The counter of a row    *)
(* may lose misses to overlapping requests, and so may the copy of it that   *)
(* a handler is about to write; neither ever holds more than were made.      *)

Rightly(u) ==
    /\ users[u].attempts <= fails[u]
    /\ users[u].locked => fails[u] >= LockAfter

ReadRightly(h) ==
    /\ At(h, "miss") => task[h].row.attempts <= fails[task[h].u]
    /\ At(h, "insert") \/ At(h, "lookDeleted") => Fresh(task[h].row)

Counted ==
    /\ TypeOK
    /\ \A u \in Users : Rightly(u)
    /\ \A h \in Handlers : ReadRightly(h)

LEMMA InitCounted == Init => Counted
<1> SUFFICES ASSUME Init PROVE Counted
  OBVIOUS
<1>1. \A u \in Users : Rightly(u)
  <2>1. \A u \in Users : users[u].attempts = 0 /\ ~users[u].locked
    BY DEF Init, NewUser, NoRow
  <2>2. \A u \in Users : fails[u] = 0
    BY DEF Init
  <2> QED
    BY <2>1, <2>2 DEF Rightly
<1>2. \A h \in Handlers : ReadRightly(h)
  BY DEF Init, Idle, ReadRightly, At
<1> QED
  BY <1>1, <1>2, InitType DEF Counted

LEMMA CountedProceed ==
    ASSUME Counted, NEW h \in Handlers, Proceed(h)
    PROVE  /\ \A v \in Users : fails'[v] >= fails[v]
           /\ \A v \in Users : Rightly(v)'
           /\ ReadRightly(h)'
<1> DEFINE u == task[h].u
           at == task[h].at
<1>0. /\ TypeOK /\ task[h] \in Task /\ u \in Users /\ fails \in [Users -> Nat]
      /\ task[h].row.attempts \in Nat
      /\ \A v \in Users : users[v].attempts \in Nat
  BY CounterWrites DEF Counted, TypeOK, Task, Row
<1>1. \A v \in Users : fails'[v] >= fails[v]
  <2>1. CASE at = "miss"
    BY <1>0, <2>1, CounterWrites
  <2>2. CASE at # "miss"
    BY <1>0, <2>2, HistoryFrame
  <2> QED
    BY <2>1, <2>2
<1>2. ASSUME NEW v \in Users PROVE Rightly(v)'
  <2>0. Rightly(v) /\ fails'[v] >= fails[v] /\ fails'[v] \in Nat
    BY <1>0, <1>1, ProceedType DEF Counted, TypeOK
  <2>1. CASE v # u \/ at \notin {"miss", "forgive", "insert"}
    <3>1. users'[v].attempts = users[v].attempts /\ users'[v].locked = users[v].locked
      BY <1>0, <2>1, RowFrame DEF Kept
    <3> QED
      BY <1>0, <2>0, <3>1 DEF Rightly, LockAfter
  <2>2. CASE v = u /\ at = "miss"
    <3>1. /\ users'[u].attempts = task[h].row.attempts + 1
          /\ users'[u].locked = (users[u].locked \/ users'[u].attempts >= LockAfter)
          /\ fails'[u] = fails[u] + 1
      BY <1>0, <2>2, CounterWrites
    <3>2. task[h].row.attempts <= fails[u]
      BY <2>2 DEF Counted, ReadRightly, At
    <3>3. fails[u] \in Nat /\ users[u].locked => fails[u] >= LockAfter
      BY <1>0, <2>0, <2>2 DEF Rightly
    <3>4. users'[u].attempts <= fails'[u]
      BY <1>0, <3>1, <3>2, <3>3
    <3>5. users'[u].locked => fails'[u] >= LockAfter
      <4>1. users'[u].locked => users[u].locked \/ users'[u].attempts >= LockAfter
        BY <3>1, Zenon
      <4>2. users[u].locked => fails'[u] >= LockAfter
        BY <1>0, <3>1, <3>3 DEF LockAfter
      <4>3. users'[u].attempts >= LockAfter => fails'[u] >= LockAfter
        BY <1>0, <2>0, <2>2, <3>1, <3>4 DEF LockAfter
      <4> QED
        BY <4>1, <4>2, <4>3
    <3> QED
      BY <2>2, <3>4, <3>5 DEF Rightly
  <2>3. CASE v = u /\ at = "forgive"
    BY <1>0, <2>0, <2>3, CounterWrites DEF Rightly
  <2>4. CASE v = u /\ at = "insert"
    <3>1. users'[u] = users[u] \/ users'[u] = task[h].row
      BY <1>0, <2>4, CounterWrites
    <3>2. Fresh(task[h].row)
      BY <2>4 DEF Counted, ReadRightly, At
    <3> QED
      BY <1>0, <2>0, <2>4, <3>1, <3>2 DEF Rightly, Fresh, LockAfter
  <2> QED
    BY <2>1, <2>2, <2>3, <2>4
<1>3. ReadRightly(h)'
  BY <1>0, ProceedSees DEF Counted, ReadRightly, At
<1> QED
  BY <1>1, <1>2, <1>3

LEMMA CountedStep == Counted /\ [Next]_vars => Counted'
<1> SUFFICES ASSUME Counted, [Next]_vars PROVE Counted'
  OBVIOUS
<1>0. TypeOK /\ TypeOK'
  BY NextType DEF Counted
<1>1. ASSUME NEW h \in Handlers, NEW g \in Handlers, task'[g] = task[g],
             \A v \in Users : fails'[v] >= fails[v]
      PROVE  ReadRightly(g)'
  <2>1. ReadRightly(g) /\ task[g] \in Task
    BY <1>0 DEF Counted, TypeOK
  <2>2. CASE At(g, "miss")
    <3>1. task[g].u \in Users /\ task[g].row.attempts \in Nat
      BY <2>1, <2>2 DEF Task, At, Row
    <3>2. fails[task[g].u] \in Nat /\ fails'[task[g].u] \in Nat
      BY <1>0, <3>1 DEF TypeOK
    <3> QED
      BY <1>1, <2>1, <2>2, <3>1, <3>2 DEF ReadRightly, At
  <2>3. CASE ~At(g, "miss")
    BY <1>1, <2>1, <2>3 DEF ReadRightly, At
  <2> QED
    BY <2>2, <2>3
<1>2. ASSUME NEW h \in Handlers, Proceed(h) PROVE Counted'
  BY <1>0, <1>1, <1>2, CountedProceed, Others DEF Counted
<1>3. ASSUME NEW h \in Handlers, Request(h) \/ HandlerFails(h) PROVE Counted'
  <2>1. users' = users /\ fails' = fails
    BY <1>3, RequestReads DEF HandlerFails, history
  <2>2. \A v \in Users : Rightly(v)'
    BY <2>1 DEF Counted, Rightly
  <2>3. ReadRightly(h)'
    <3>1. CASE HandlerFails(h)
      BY <1>0, <3>1 DEF HandlerFails, Finish, TypeOK, Idle, ReadRightly, At
    <3>2. CASE Request(h)
      BY <1>0, <2>1, <3>2, RequestSees DEF Counted, Rightly, ReadRightly, At
    <3> QED
      BY <1>3, <3>1, <3>2
  <2>4. \A v \in Users : fails'[v] >= fails[v]
    BY <1>0, <2>1 DEF TypeOK
  <2> QED
    BY <1>0, <1>1, <1>3, <2>2, <2>3, <2>4, Others DEF Counted
<1>4. ASSUME NEW u \in Users, LockExpires(u) \/ CodeExpires(u) PROVE Counted'
  <2>1. task' = task /\ fails' = fails
    BY <1>0, <1>4, Expiry
  <2>2. ASSUME NEW v \in Users PROVE Rightly(v)'
    <3>1. users'[v].attempts = users[v].attempts /\ (users'[v].locked => users[v].locked)
      BY <1>0, <1>4, ExpiryKeeps
    <3> QED
      BY <2>1, <3>1 DEF Counted, Rightly
  <2>3. \A h \in Handlers : ReadRightly(h)'
    BY <2>1 DEF Counted, ReadRightly, At
  <2> QED
    BY <1>0, <2>2, <2>3 DEF Counted
<1>5. CASE UNCHANGED vars
  BY <1>0, <1>5 DEF vars, history, Counted, Rightly, ReadRightly, At
<1> QED
  BY <1>2, <1>3, <1>4, <1>5 DEF Next

\* Whatever requests overlap or fail, a user is only locked out after five failed
\* logins: validateUser may lose attempts, and never counts one that was not made.
THEOREM LockedOnlyAfterFiveHolds == Spec => []LockedOnlyAfterFive
<1>1. Counted => LockedOnlyAfterFive
  BY DEF Counted, Rightly, LockedOnlyAfterFive
<1> QED
  BY <1>1, InitCounted, CountedStep, PTL DEF Spec

-----------------------------------------------------------------------------
(* No account loses its password.  A statement that sets one finds the row   *)
(* it was read from, deleted or not, since no row is ever removed; the two   *)
(* that write a whole row, or a row that is deleted, carry a password where  *)
(* the row they meet has one.  A handler that is to restore a row finds it   *)
(* deleted, unless another one has restored it since: nothing else brings a  *)
(* deleted row back.                                                         *)

Unopened(u) == users[u].exists = "absent" => users[u].password = None

AboutRow(h) ==
    Busy(h) /\ task[h].at \notin {"insert", "lookDeleted"} => users[task[h].u].exists # "absent"

Carries(h) ==
    /\ At(h, "insert") \/ At(h, "lookDeleted") => task[h].row.exists = "live"
    /\ At(h, "lookDeleted") \/ At(h, "restore") => task[h].row.password # None

Overtaken(h) ==
    At(h, "restore") => h \in rushed \/ users[task[h].u].exists = "deleted"

Opened ==
    /\ TypeOK
    /\ \A u \in Users : Unopened(u)
    /\ \A h \in Handlers : AboutRow(h) /\ Carries(h) /\ Overtaken(h)

\* What a step of handler h, or of no handler, may do to the password of an account.
MayWrite(h, u) ==
    /\ task[h].u = u /\ ~Busy(h)'
    /\ At(h, "writePassword") \/ At(h, "reset") \/ (At(h, "restore") /\ h \in rushed)

KeptFor(u) ==
    users[u].password # None =>
      /\ users'[u].password # None
      /\ u \in Live /\ users'[u].password # users[u].password => \E h \in Handlers : MayWrite(h, u)

LEMMA InitOpened == Init => Opened
<1> SUFFICES ASSUME Init PROVE Opened
  OBVIOUS
<1>1. \A u \in Users : Unopened(u)
  BY DEF Init, NewUser, NoRow, Unopened
<1>2. \A h \in Handlers : AboutRow(h) /\ Carries(h) /\ Overtaken(h)
  BY DEF Init, Idle, AboutRow, Carries, Overtaken, Busy, At
<1> QED
  BY <1>1, <1>2, InitType DEF Opened

\* A request starts on a row that exists, or carries the row that it is to insert.
LEMMA RequestOpens ==
    ASSUME TypeOK, NEW h \in Handlers, Request(h)
    PROVE  LET t == task'[h] IN
           /\ t.at \notin {"insert", "lookDeleted"} => users[t.u].exists # "absent"
           /\ t.at \in {"insert", "lookDeleted"} => t.row.exists = "live"
           /\ t.at = "lookDeleted" => t.row.password # None
           /\ t.at # "restore"
<1> DEFINE t == task'[h]
<1>0. task \in [Handlers -> Task]
  BY DEF TypeOK
<1>1. \A step, u, row, next :
        Begin(h, step, u, row, next) => t.at = step /\ t.u = u /\ t.row = row
  BY <1>0 DEF Begin
<1> HIDE DEF t
<1>2. CASE ~(CreateFind(h) \/ InviteFind(h))
  <2>1. PICK u \in Users, step \in Steps, next \in Steps \cup Statuses :
          /\ users[u].exists # "absent"
          /\ step \notin {"insert", "lookDeleted", "restore"}
          /\ Begin(h, step, u, users[u], next)
    <3> USE DEF Steps
    <3>1. \A e \in SignedInEndpoints :
            FirstStep[e] \in Steps \ {"insert", "lookDeleted", "restore"}
      BY DEF FirstStep, SignedInEndpoints
    <3>2. CASE Authenticate(h)
      BY <3>1, <3>2 DEF Authenticate, Live
    <3>3. CASE LoginFind(h)
      <4>1. PICK u \in Live, step \in {"miss", "forgive"} : Begin(h, step, u, users[u], "idle")
        BY <3>3 DEF LoginFind
      <4> QED
        BY <4>1 DEF Live
    <3>4. CASE RefreshFind(h) \/ ForgotFind(h) \/ VerifyFind(h) \/ ResetFind(h)
      BY <3>4 DEF RefreshFind, ForgotFind, VerifyFind, ResetFind, Live
    <3>5. CASE AcceptFind(h) \/ DeleteFind(h) \/ StatusFind(h)
      BY <3>5 DEF AcceptFind, DeleteFind, StatusFind, Live
    <3> QED
      BY <1>2, <3>2, <3>3, <3>4, <3>5 DEF Request
  <2>2. t.at = step /\ t.u = u
    BY <1>1, <2>1
  <2> QED
    BY <2>1, <2>2 DEF t
<1>3. CASE CreateFind(h)
  <2>1. PICK u \in Users, status \in Statuses, pw \in Passwords \cup {None},
             next \in {"slot", "idle"} :
          Begin(h, "insert", u, NewUser(status, pw, FALSE), next)
    BY <1>3 DEF CreateFind, Statuses
  <2>2. t.at = "insert" /\ t.row = NewUser(status, pw, FALSE)
    BY <1>1, <2>1
  <2>3. t.row.exists = "live"
    BY <2>2 DEF NewUser, NoRow
  <2> QED
    BY <2>2, <2>3 DEF t
<1>4. CASE InviteFind(h)
  <2>1. PICK u \in Users, pw \in Passwords :
          Begin(h, "lookDeleted", u, NewUser("pending", pw, TRUE), "idle")
    BY <1>4 DEF InviteFind
  <2>2. t.at = "lookDeleted" /\ t.row = NewUser("pending", pw, TRUE)
    BY <1>1, <2>1
  <2>3. t.row.exists = "live" /\ t.row.password = pw /\ pw # None
    BY <2>1, <2>2, AccountsAssumption DEF NewUser, NoRow
  <2> QED
    BY <2>2, <2>3 DEF t
<1> QED
  BY <1>2, <1>3, <1>4

\* What becomes of the task of a handler that takes a step.
LEMMA ProceedTask ==
    ASSUME TypeOK, NEW h \in Handlers, Proceed(h)
    PROVE  LET t == task'[h]
               u == task[h].u
           IN  \/ t.at = "idle"
               \/ /\ t.u = u /\ t.row = task[h].row
                  /\ task[h].at \notin {"insert", "restore"}
                  /\ t.at \notin {"lookDeleted"}
                  /\ t.at \in {"insert", "restore"} <=> task[h].at = "lookDeleted"
                  /\ t.at = "restore" => users[u].exists = "deleted"
               \/ /\ t.at = "slot" /\ t.u = u /\ task[h].at = "insert"
                  /\ users'[u] = task[h].row
<1> DEFINE t == task'[h]
<1>0. task \in [Handlers -> Task] /\ task[h] \in Task /\ users \in [Users -> Row]
  BY DEF TypeOK
<1>1. Finish(h) => t.at = "idle"
  BY <1>0 DEF Finish, Idle
<1>2. ASSUME NEW step, Goto(h, step)
      PROVE  t.at = step /\ t.u = task[h].u /\ t.row = task[h].row
  BY <1>0, <1>2 DEF Goto, Task
<1>3. CASE LoginForgive(h)
  <2>1. CASE task' = [task EXCEPT ![h].at = "slot", ![h].next = "activate"]
    <3>1. t = [task[h] EXCEPT !.at = "slot", !.next = "activate"]
      BY <1>0, <2>1
    <3>2. t.at = "slot" /\ t.u = task[h].u /\ t.row = task[h].row
      BY <1>0, <3>1 DEF Task
    <3> QED
      BY <1>3, <3>2 DEF LoginForgive, At
  <2> QED
    BY <1>1, <1>3, <2>1 DEF LoginForgive
<1>4. CASE GenerateTokens(h) \/ ChangeRead(h) \/ EnableRead(h)
  BY <1>1, <1>2, <1>4 DEF GenerateTokens, ChangeRead, EnableRead, At
<1>5. CASE InviteLook(h)
  BY <1>2, <1>5 DEF InviteLook, At
<1>6. CASE Insert(h)
  <2>1. task[h].u \in Users
    BY <1>0, <1>6 DEF Insert, At, Task
  <2> QED
    BY <1>0, <1>1, <1>2, <1>6, <2>1 DEF Insert, At
<1>7. CASE \/ LoginMiss(h) \/ LoginActivate(h) \/ RefreshRotate(h) \/ LogoutClear(h)
           \/ ChangeWrite(h) \/ SetupSecret(h) \/ EnableWrite(h) \/ DisableWrite(h)
           \/ ForgotWrite(h) \/ VerifyWrite(h) \/ ResetWrite(h)
           \/ Restore(h) \/ AcceptWrite(h) \/ DeleteWrite(h) \/ StatusWrite(h)
  BY <1>1, <1>7 DEF LoginMiss, LoginActivate, RefreshRotate, LogoutClear, ChangeWrite,
     SetupSecret, EnableWrite, DisableWrite, ForgotWrite, VerifyWrite, ResetWrite, Restore,
     AcceptWrite, DeleteWrite, StatusWrite
<1> QED
  BY <1>3, <1>4, <1>5, <1>6, <1>7 DEF Proceed

\* What a step does to the password of the row it writes.
LEMMA PasswordWrites ==
    ASSUME TypeOK, NEW h \in Handlers, Proceed(h)
    PROVE  LET u   == task[h].u
               at  == task[h].at
               new == users'[u]
           IN  /\ u \in Users /\ Busy(h)
               /\ at \notin {"writePassword", "reset", "insert", "restore"} =>
                    new.password = users[u].password
               /\ at \in {"writePassword", "reset"} => new.password # None
               /\ at = "insert" => \/ new = users[u]
                                   \/ new = task[h].row /\ users[u].exists = "absent"
               /\ at = "restore" => new.exists = "live" /\ new.password = task[h].row.password
               /\ at = "delete" => new.exists = "deleted"
<1> DEFINE u == task[h].u
           at == task[h].at
           Same == users'[u].password = users[u].password
<1>0. Busy(h) /\ u \in Users /\ users \in [Users -> Row] /\ users[u] \in Row
  <2>1. Busy(h)
    BY DEF Proceed, LoginMiss, LoginForgive, GenerateTokens, LoginActivate, RefreshRotate,
       LogoutClear, ChangeRead, ChangeWrite, SetupSecret, EnableRead, EnableWrite,
       DisableWrite, ForgotWrite, VerifyWrite, ResetWrite, Insert, InviteLook, Restore,
       AcceptWrite, DeleteWrite, StatusWrite, At, Busy
  <2> QED
    BY <2>1, TaskStep DEF TypeOK
<1>1. CASE LoginMiss(h)
  BY <1>0, <1>1 DEF LoginMiss, At, Row
<1>2. CASE LoginForgive(h) \/ LoginActivate(h)
  BY <1>0, <1>2 DEF LoginForgive, LoginActivate, At, Row
<1>3. CASE GenerateTokens(h) \/ RefreshRotate(h) \/ LogoutClear(h)
  BY <1>0, <1>3 DEF GenerateTokens, RefreshRotate, LogoutClear, At, Row
<1>4. CASE SetupSecret(h) \/ EnableWrite(h) \/ DisableWrite(h)
  BY <1>0, <1>4 DEF SetupSecret, EnableWrite, DisableWrite, At, Row
<1>5. CASE ForgotWrite(h) \/ VerifyWrite(h)
  BY <1>0, <1>5 DEF ForgotWrite, VerifyWrite, At, Row
<1>6. CASE AcceptWrite(h) \/ StatusWrite(h)
  BY <1>0, <1>6 DEF AcceptWrite, StatusWrite, At, Row
<1>7. CASE DeleteWrite(h)
  BY <1>0, <1>7 DEF DeleteWrite, At, Row
<1>8. CASE ChangeRead(h) \/ EnableRead(h) \/ InviteLook(h)
  BY <1>0, <1>8 DEF ChangeRead, EnableRead, InviteLook, At
<1>9. CASE ChangeWrite(h)
  <2>1. PICK pw \in Passwords : users' = [users EXCEPT ![u] = [users[u] EXCEPT !.password = pw]]
    BY <1>0, <1>9 DEF ChangeWrite
  <2>2. users'[u].password = pw
    BY <1>0, <2>1 DEF Row
  <2> QED
    BY <1>0, <1>9, <2>2, AccountsAssumption DEF ChangeWrite, At
<1>10. CASE ResetWrite(h)
  <2>1. PICK pw \in Passwords :
          users' = [users EXCEPT ![u] = [users[u] EXCEPT !.password = pw, !.code = "none",
                                                         !.fresh = FALSE]]
    BY <1>0, <1>10 DEF ResetWrite
  <2>2. users'[u].password = pw
    BY <1>0, <2>1 DEF Row
  <2> QED
    BY <1>0, <1>10, <2>2, AccountsAssumption DEF ResetWrite, At
<1>11. CASE Insert(h)
  BY <1>0, <1>11 DEF Insert, At
<1>12. CASE Restore(h)
  <2> DEFINE pw == task[h].row.password
  <2>1. users' = [users EXCEPT ![u] = [users[u] EXCEPT !.exists = "live", !.password = pw,
                                         !.status = "pending", !.invite = TRUE]]
    BY <1>0, <1>12 DEF Restore
  <2>2. users'[u].exists = "live" /\ users'[u].password = pw
    <3> HIDE DEF pw
    <3> QED
      BY <1>0, <2>1 DEF Row
  <2> QED
    BY <1>0, <1>12, <2>2 DEF Restore, At
<1> QED
  BY <1>1, <1>2, <1>3, <1>4, <1>5, <1>6, <1>7, <1>8, <1>9, <1>10, <1>11, <1>12 DEF Proceed

\* The statements that replace a password are the last of their handlers.
LEMMA WriterEnds ==
    ASSUME TypeOK, NEW h \in Handlers, Proceed(h),
           task[h].at \in {"writePassword", "reset", "restore"}
    PROVE  ~Busy(h)'
<1>1. task \in [Handlers -> Task]
  BY DEF TypeOK
<1>2. ChangeWrite(h) \/ ResetWrite(h) \/ Restore(h)
  BY DEF Proceed, LoginMiss, LoginForgive, GenerateTokens, LoginActivate, RefreshRotate,
     LogoutClear, ChangeRead, SetupSecret, EnableRead, EnableWrite, DisableWrite, ForgotWrite,
     VerifyWrite, Insert, InviteLook, AcceptWrite, DeleteWrite, StatusWrite, At
<1>3. Finish(h)
  BY <1>2 DEF ChangeWrite, ResetWrite, Restore
<1> QED
  BY <1>1, <1>3 DEF Finish, Idle, Busy

\* One step of a handler: it keeps the password of every account, and Opened for its own task.
LEMMA OpenedProceed ==
    ASSUME Opened, NEW h \in Handlers, Proceed(h)
    PROVE  /\ \A v \in Users : users[v].exists # "absent" => users'[v].exists # "absent"
           /\ \A v \in Users : KeptFor(v)
           /\ \A v \in Users : Unopened(v)'
           /\ AboutRow(h)' /\ Carries(h)' /\ Overtaken(h)'
           /\ \A g \in Handlers \ {h} : Overtaken(g)'
<1> DEFINE u == task[h].u
           at == task[h].at
           row == task[h].row
           new == users'[u]
<1>0. /\ TypeOK /\ Unopened(u) /\ u \in Users /\ Busy(h)
      /\ \A v \in Users : Unopened(v)
      /\ at \notin {"insert", "lookDeleted"} => users[u].exists # "absent"
      /\ at \in {"insert", "lookDeleted"} => row.exists = "live"
      /\ at = "restore" => row.password # None
      /\ at = "lookDeleted" => row.password # None
  BY PasswordWrites DEF Opened, AboutRow, Carries, At
<1>1. \A v \in Users \ {u} : users'[v] = users[v]
  BY <1>0, RowFrame
<1>2. /\ at \notin {"writePassword", "reset", "insert", "restore"} =>
           new.password = users[u].password
      /\ at \in {"writePassword", "reset"} => new.password # None
      /\ at = "insert" => new = users[u] \/ (new = row /\ users[u].exists = "absent")
      /\ at = "restore" => new.exists = "live" /\ new.password = row.password
      /\ at = "delete" => new.exists = "deleted"
      /\ at \notin {"insert", "restore", "delete"} => new.exists = users[u].exists
  BY <1>0, PasswordWrites, RowFrame DEF Kept
<1>3. users[u].exists # "absent" => new.exists # "absent"
  BY <1>0, <1>2
<1>4. users[u].password # None => new.password # None
  BY <1>0, <1>2 DEF Unopened
<1>5. new.exists = "absent" => new.password = None
  BY <1>0, <1>2 DEF Unopened
<1>6. AboutRow(h)' /\ Carries(h)'
  <2> DEFINE t == task'[h]
  <2>1. \/ t.at = "idle"
        \/ /\ t.u = u /\ t.row = row /\ at \notin {"insert", "restore"}
           /\ t.at \notin {"lookDeleted"}
           /\ t.at \in {"insert", "restore"} <=> at = "lookDeleted"
           /\ t.at = "restore" => users[u].exists = "deleted"
        \/ t.at = "slot" /\ t.u = u /\ at = "insert" /\ new = row
    BY <1>0, ProceedTask
  <2>2. AboutRow(h)'
    <3>1. t.at \notin {"idle", "insert", "lookDeleted"} => users'[t.u].exists # "absent"
      BY <1>0, <1>3, <2>1
    <3> QED
      BY <3>1 DEF AboutRow, Busy
  <2>3. Carries(h)'
    BY <1>0, <2>1 DEF Carries, At
  <2> QED
    BY <2>2, <2>3
<1>7. Overtaken(h)'
  BY <1>0, <1>1, <1>2, ProceedTask, HistoryFrame DEF Overtaken, At
<1>8. ASSUME NEW g \in Handlers \ {h} PROVE Overtaken(g)'
  <2>1. task'[g] = task[g] /\ Overtaken(g) /\ AboutRow(g) /\ task[g].u \in Users \cup {None}
    BY <1>0, Others, TaskStep DEF Opened, Task, TypeOK
  <2>2. CASE At(g, "restore") /\ g \notin rushed
    <3>1. users[task[g].u].exists = "deleted" /\ task[g].u \in Users
      BY <1>0, <2>1, <2>2, TaskStep DEF Overtaken, At, Busy
    <3>2. CASE task[g].u = u
      BY <1>2, <2>1, <2>2, <3>1, <3>2, HistoryFrame DEF Overtaken, At
    <3>3. CASE task[g].u # u
      BY <1>1, <2>1, <3>1, <3>3 DEF Overtaken, At
    <3> QED
      BY <3>2, <3>3
  <2>3. CASE g \in rushed
    BY <2>3, HistoryFrame DEF Overtaken
  <2> QED
    BY <2>1, <2>2, <2>3 DEF Overtaken, At
<1>9. ASSUME u \in Live, users[u].password # None, new.password # users[u].password
      PROVE  MayWrite(h, u)
  <2>1. users[u].exists = "live"
    BY <1>9 DEF Live
  <2>2. at \in {"writePassword", "reset", "restore"}
    BY <1>2, <1>9, <2>1
  <2>3. ~Busy(h)'
    BY <1>0, <2>2, WriterEnds
  <2>4. at = "restore" => h \in rushed
    BY <2>1 DEF Opened, Overtaken, At
  <2> QED
    BY <2>2, <2>3, <2>4 DEF MayWrite, At
<1>10. KeptFor(u)
  BY <1>4, <1>9 DEF KeptFor
<1>11. \A v \in Users \ {u} : KeptFor(v)
  BY <1>1 DEF KeptFor
<1> QED
  BY <1>1, <1>3, <1>5, <1>6, <1>7, <1>8, <1>10, <1>11, <1>0 DEF Unopened

LEMMA OpenedStep ==
    ASSUME Opened, [Next]_vars
    PROVE  /\ Opened'
           /\ \A u \in Users : KeptFor(u)
<1> DEFINE Kept1 == \A u \in Users : KeptFor(u)
<1>0. TypeOK /\ TypeOK'
  BY NextType DEF Opened
<1>1. ASSUME NEW g \in Handlers, task'[g] = task[g],
             \A v \in Users : users[v].exists # "absent" => users'[v].exists # "absent"
      PROVE  AboutRow(g)' /\ Carries(g)'
  <2>1. AboutRow(g) /\ Carries(g) /\ task[g] \in Task
    BY <1>0 DEF Opened, TypeOK
  <2>2. Busy(g) => task[g].u \in Users
    BY <1>0, TaskStep
  <2> QED
    BY <1>1, <2>1, <2>2 DEF AboutRow, Carries, Busy, At
<1>6. ASSUME NEW g \in Handlers, task'[g] = task[g], rushed' = rushed,
             \A v \in Users : users'[v].exists = users[v].exists
      PROVE  Overtaken(g)'
  <2>1. Overtaken(g) /\ (Busy(g) => task[g].u \in Users)
    BY <1>0, TaskStep DEF Opened
  <2> QED
    BY <1>6, <2>1 DEF Overtaken, Busy, At
<1>7. ASSUME NEW v \in Users, users'[v].password = users[v].password PROVE KeptFor(v)
  BY <1>7 DEF KeptFor
<1>2. ASSUME NEW h \in Handlers, Proceed(h) PROVE Opened' /\ Kept1
  BY <1>0, <1>1, <1>2, OpenedProceed, Others DEF Opened
<1>3. ASSUME NEW h \in Handlers, Request(h) \/ HandlerFails(h) PROVE Opened' /\ Kept1
  <2>1. users' = users /\ rushed' = rushed
    <3>1. CASE HandlerFails(h)
      BY <3>1 DEF HandlerFails, history
    <3>2. CASE Request(h)
      BY <3>2, RequestReads DEF Request, LoginFind, RefreshFind, Authenticate, ForgotFind,
         VerifyFind, ResetFind, CreateFind, InviteFind, AcceptFind, DeleteFind, StatusFind, history
    <3> QED
      BY <1>3, <3>1, <3>2
  <2>2. \A v \in Users : Unopened(v)'
    BY <2>1 DEF Opened, Unopened
  <2>3. AboutRow(h)' /\ Carries(h)' /\ Overtaken(h)'
    <3>1. CASE HandlerFails(h)
      BY <1>0, <3>1 DEF HandlerFails, Finish, TypeOK, Idle, AboutRow, Carries, Overtaken, Busy, At
    <3>2. CASE Request(h)
      BY <1>0, <2>1, <3>2, RequestOpens DEF AboutRow, Carries, Overtaken, Busy, At
    <3> QED
      BY <1>3, <3>1, <3>2
  <2> QED
    BY <1>0, <1>1, <1>3, <1>6, <1>7, <2>1, <2>2, <2>3, Others DEF Opened
<1>4. ASSUME NEW u \in Users, LockExpires(u) \/ CodeExpires(u) PROVE Opened' /\ Kept1
  <2>1. task' = task /\ rushed' = rushed
    BY <1>0, <1>4, Expiry DEF LockExpires, CodeExpires, history
  <2>2. ASSUME NEW v \in Users
        PROVE  users'[v].exists = users[v].exists /\ users'[v].password = users[v].password
    BY <1>0, <1>4, ExpiryKeeps
  <2>3. \A v \in Users : Unopened(v)'
    BY <2>2 DEF Opened, Unopened
  <2> QED
    BY <1>0, <1>1, <1>6, <1>7, <2>1, <2>2, <2>3 DEF Opened
<1>5. CASE UNCHANGED vars
  <2>1. users' = users /\ task' = task /\ rushed' = rushed
    BY <1>5 DEF vars, history
  <2> QED
    BY <1>0, <1>1, <1>6, <1>7, <2>1 DEF Opened, Unopened
<1> QED
  BY <1>2, <1>3, <1>4, <1>5 DEF Next

\* However requests overlap, fail and restore, an account that some password opens is
\* opened by one for good, and no creation takes a live account over: of the invitations
\* only one that saw the row deleted before another restored it replaces the password.
THEOREM KeepsPasswordHolds == Spec => KeepsPassword
<1>1. (\A u \in Users : KeptFor(u)) =>
        \A u \in Users : users[u].password # None =>
          /\ users'[u].password # None
          /\ u \in Live /\ users'[u].password # users[u].password =>
               \E h \in Handlers :
                  /\ task[h].u = u /\ ~Busy(h)'
                  /\ \/ At(h, "writePassword") \/ At(h, "reset")
                     \/ At(h, "restore") /\ h \in rushed
  BY DEF KeptFor, MayWrite
<1>2. Opened /\ [Next]_vars =>
        Opened' /\ [\A u \in Users : users[u].password # None =>
                      /\ users'[u].password # None
                      /\ u \in Live /\ users'[u].password # users[u].password =>
                           \E h \in Handlers :
                              /\ task[h].u = u /\ ~Busy(h)'
                              /\ \/ At(h, "writePassword") \/ At(h, "reset")
                                 \/ At(h, "restore") /\ h \in rushed]_vars
  BY <1>1, OpenedStep
<1> QED
  BY <1>2, InitOpened, PTL DEF Spec, KeepsPassword

-----------------------------------------------------------------------------
(* Counting draws.  What the lock lets through is a binomial coefficient,    *)
(* as choose of the community modules computes it; the proof needs how it    *)
(* comes together from smaller ones.  No prover instantiates an induction    *)
(* rule: an induction is over the set of the numbers that have a property    *)
(* (NumbersIn), and rests on a least counterexample.                         *)

\* A set that holds 0, and with every number the next one, holds all of them.
LEMMA NumbersIn ==
    ASSUME NEW G, 0 \in G, \A n \in Nat : n \in G => n + 1 \in G
    PROVE  Nat \subseteq G
<1> SUFFICES ASSUME NEW n \in Nat, n \notin G PROVE FALSE
  OBVIOUS
<1> DEFINE Bad == {s \in SUBSET (0..n) : \E j \in 0..n : s = 0..j /\ j \notin G}
<1>1. PICK s \in Bad : \A t \in SUBSET s : t # s => t \notin Bad
  <2>1. Bad \subseteq SUBSET (0..n) /\ Bad # {} /\ IsFiniteSet(0..n)
    <3>1. 0..n \in Bad
      <4>1. n \in 0..n /\ 0..n \in SUBSET (0..n)
        OBVIOUS
      <4> QED
        BY <4>1
    <3>2. IsFiniteSet(0..n)
      BY FS_Interval
    <3>3. Bad \subseteq SUBSET (0..n)
      OBVIOUS
    <3> HIDE DEF Bad
    <3> QED
      BY <3>1, <3>2, <3>3
  <2> HIDE DEF Bad
  <2> QED
    BY <2>1, LeastSubset
<1>2. PICK j \in 0..n : s = 0..j /\ j \notin G
  OBVIOUS
<1>3. j # 0 /\ j - 1 \in 0..n /\ j - 1 \in Nat /\ (j - 1) + 1 = j
  BY <1>2
<1>4. j - 1 \notin G
  BY <1>2, <1>3
<1>5. 0..(j - 1) \in SUBSET s /\ 0..(j - 1) # s
  <2>1. j \in s /\ j \notin 0..(j - 1)
    BY <1>2, <1>3
  <2>2. \A i \in 0..(j - 1) : i \in 0..j
    BY <1>3
  <2> QED
    BY <1>2, <2>1, <2>2
<1>6. 0..(j - 1) \in Bad
  <2>1. 0..(j - 1) \in SUBSET (0..n)
    BY <1>5
  <2> QED
    BY <1>3, <1>4, <2>1
<1> QED
  BY <1>1, <1>5, <1>6

\* In how many ways 2, 3 or 4 things can be drawn from x kinds, with repetition.
Ways2(x) == (x * (x + 1)) \div 2
Ways3(x) == (x * (x + 1) * (x + 2)) \div 6
Ways4(x) == (x * (x + 1) * (x + 2) * (x + 3)) \div 24

LEMMA Divides ==
    \A t \in Nat : (2 * t) \div 2 = t /\ (6 * t) \div 6 = t /\ (24 * t) \div 24 = t
  OBVIOUS

LEMMA Ways2Times == \A x \in Nat : Ways2(x) \in Nat /\ 2 * Ways2(x) = x * (x + 1)
<1> DEFINE G == {x \in Nat : \E t \in Nat : x * (x + 1) = 2 * t}
<1>1. 0 \in G
  <2>1. 0 * (0 + 1) = 2 * 0
    OBVIOUS
  <2> QED
    BY <2>1
<1>2. ASSUME NEW x \in Nat, x \in G PROVE x + 1 \in G
  <2>1. PICK t \in Nat : x * (x + 1) = 2 * t
    BY <1>2
  <2>2. (x + 1) * ((x + 1) + 1) = 2 * (t + x + 1)
    BY <2>1
  <2>3. t + x + 1 \in Nat /\ x + 1 \in Nat
    OBVIOUS
  <2> QED
    BY <2>2, <2>3
<1>3. Nat \subseteq G
  <2> HIDE DEF G
  <2> QED
    BY <1>1, <1>2, NumbersIn
<1>4. ASSUME NEW x \in Nat PROVE Ways2(x) \in Nat /\ 2 * Ways2(x) = x * (x + 1)
  <2>1. PICK t \in Nat : x * (x + 1) = 2 * t
    BY <1>3
  <2> QED
    BY <2>1, Divides DEF Ways2
<1> QED
  BY <1>4

LEMMA Ways3Times == \A x \in Nat : Ways3(x) \in Nat /\ 6 * Ways3(x) = x * (x + 1) * (x + 2)
<1> DEFINE G == {x \in Nat : \E t \in Nat : x * (x + 1) * (x + 2) = 6 * t}
<1>1. 0 \in G
  <2>1. 0 * (0 + 1) * (0 + 2) = 6 * 0
    OBVIOUS
  <2> QED
    BY <2>1
<1>2. ASSUME NEW x \in Nat, x \in G PROVE x + 1 \in G
  <2>1. PICK t \in Nat : x * (x + 1) * (x + 2) = 6 * t
    BY <1>2
  <2>2. PICK s \in Nat : 2 * s = (x + 1) * (x + 2)
    <3>1. x + 1 \in Nat /\ (x + 1) + 1 = x + 2
      OBVIOUS
    <3> QED
      BY <3>1, Ways2Times
  <2>3. (x + 1) * ((x + 1) + 1) * ((x + 1) + 2) = 6 * (t + s)
    <3>1. (x + 1) * ((x + 1) + 1) * ((x + 1) + 2) = x * (x + 1) * (x + 2) + 3 * ((x + 1) * (x + 2))
      OBVIOUS
    <3> QED
      BY <2>1, <2>2, <3>1
  <2>4. t + s \in Nat /\ x + 1 \in Nat
    OBVIOUS
  <2> QED
    BY <2>3, <2>4
<1>3. Nat \subseteq G
  <2> HIDE DEF G
  <2> QED
    BY <1>1, <1>2, NumbersIn
<1>4. ASSUME NEW x \in Nat PROVE Ways3(x) \in Nat /\ 6 * Ways3(x) = x * (x + 1) * (x + 2)
  <2>1. PICK t \in Nat : x * (x + 1) * (x + 2) = 6 * t
    BY <1>3
  <2> QED
    BY <2>1, Divides DEF Ways3
<1> QED
  BY <1>4

LEMMA Ways4Times ==
    \A x \in Nat : Ways4(x) \in Nat /\ 24 * Ways4(x) = x * (x + 1) * (x + 2) * (x + 3)
<1> DEFINE G == {x \in Nat : \E t \in Nat : x * (x + 1) * (x + 2) * (x + 3) = 24 * t}
<1>1. 0 \in G
  <2>1. 0 * (0 + 1) * (0 + 2) * (0 + 3) = 24 * 0
    OBVIOUS
  <2> QED
    BY <2>1
<1>2. ASSUME NEW x \in Nat, x \in G PROVE x + 1 \in G
  <2>1. PICK t \in Nat : x * (x + 1) * (x + 2) * (x + 3) = 24 * t
    BY <1>2
  <2>2. PICK s \in Nat : 6 * s = (x + 1) * (x + 2) * (x + 3)
    <3>1. x + 1 \in Nat /\ (x + 1) + 1 = x + 2 /\ (x + 1) + 2 = x + 3
      OBVIOUS
    <3> QED
      BY <3>1, Ways3Times
  <2>3. (x + 1) * ((x + 1) + 1) * ((x + 1) + 2) * ((x + 1) + 3) = 24 * (t + s)
    <3>1. (x + 1) * ((x + 1) + 1) * ((x + 1) + 2) * ((x + 1) + 3)
            = x * (x + 1) * (x + 2) * (x + 3) + 4 * ((x + 1) * (x + 2) * (x + 3))
      OBVIOUS
    <3> QED
      BY <2>1, <2>2, <3>1
  <2>4. t + s \in Nat /\ x + 1 \in Nat
    OBVIOUS
  <2> QED
    BY <2>3, <2>4
<1>3. Nat \subseteq G
  <2> HIDE DEF G
  <2> QED
    BY <1>1, <1>2, NumbersIn
<1>4. ASSUME NEW x \in Nat
      PROVE  Ways4(x) \in Nat /\ 24 * Ways4(x) = x * (x + 1) * (x + 2) * (x + 3)
  <2>1. PICK t \in Nat : x * (x + 1) * (x + 2) * (x + 3) = 24 * t
    BY <1>3
  <2> QED
    BY <2>1, Divides DEF Ways4
<1> QED
  BY <1>4

LEMMA Shares ==
    \A a, b, c \in Nat : /\ 6 * a = 6 * b + 3 * (2 * c) => a = b + c
                         /\ 24 * a = 24 * b + 4 * (6 * c) => a = b + c
  OBVIOUS

\* One kind more.
LEMMA WaysNext ==
    \A x \in Nat : /\ Ways2(x + 1) = Ways2(x) + x + 1
                   /\ Ways3(x + 1) = Ways3(x) + Ways2(x) + x + 1
                   /\ Ways4(x + 1) = Ways4(x) + Ways3(x) + Ways2(x) + x + 1
<1> SUFFICES ASSUME NEW x \in Nat
             PROVE  /\ Ways2(x + 1) = Ways2(x) + x + 1
                    /\ Ways3(x + 1) = Ways3(x) + Ways2(x) + x + 1
                    /\ Ways4(x + 1) = Ways4(x) + Ways3(x) + Ways2(x) + x + 1
  OBVIOUS
<1>0. x + 1 \in Nat
  OBVIOUS
<1> DEFINE y == x + 1
<1>1. /\ Ways2(x) \in Nat /\ 2 * Ways2(x) = x * (x + 1)
      /\ Ways3(x) \in Nat /\ 6 * Ways3(x) = x * (x + 1) * (x + 2)
      /\ Ways4(x) \in Nat /\ 24 * Ways4(x) = x * (x + 1) * (x + 2) * (x + 3)
  BY Ways2Times, Ways3Times, Ways4Times
<1>2. /\ Ways2(y) \in Nat /\ 2 * Ways2(y) = y * (y + 1)
      /\ Ways3(y) \in Nat /\ 6 * Ways3(y) = y * (y + 1) * (y + 2)
      /\ Ways4(y) \in Nat /\ 24 * Ways4(y) = y * (y + 1) * (y + 2) * (y + 3)
  BY <1>0, Ways2Times, Ways3Times, Ways4Times
<1>3. Ways2(y) = Ways2(x) + y
  BY <1>1, <1>2
<1>4. Ways3(y) = Ways3(x) + Ways2(y)
  <2>1. y * (y + 1) * (y + 2) = x * (x + 1) * (x + 2) + 3 * (y * (y + 1))
    OBVIOUS
  <2>2. 6 * Ways3(y) = 6 * Ways3(x) + 3 * (2 * Ways2(y))
    <3> HIDE DEF y
    <3> QED
      BY <1>1, <1>2, <2>1, Zenon
  <2>3. Ways2(y) \in Nat /\ Ways3(x) \in Nat /\ Ways3(y) \in Nat /\ Ways4(x) \in Nat /\ Ways4(y) \in Nat
    BY <1>1, <1>2, Zenon
  <2> HIDE DEF y
  <2> QED
    BY <2>2, <2>3, Shares
<1>5. Ways4(y) = Ways4(x) + Ways3(y)
  <2>1. y * (y + 1) * (y + 2) * (y + 3) = x * (x + 1) * (x + 2) * (x + 3)
                                            + 4 * (y * (y + 1) * (y + 2))
    OBVIOUS
  <2>2. 24 * Ways4(y) = 24 * Ways4(x) + 4 * (6 * Ways3(y))
    <3> HIDE DEF y
    <3> QED
      BY <1>1, <1>2, <2>1, Zenon
  <2>3. Ways2(y) \in Nat /\ Ways3(x) \in Nat /\ Ways3(y) \in Nat /\ Ways4(x) \in Nat /\ Ways4(y) \in Nat
    BY <1>1, <1>2, Zenon
  <2> HIDE DEF y
  <2> QED
    BY <2>2, <2>3, Shares
<1> QED
  BY <1>1, <1>2, <1>3, <1>4, <1>5

LEMMA WaysGrow ==
    \A x, y \in Nat : x <= y => /\ Ways2(x) <= Ways2(y) /\ Ways3(x) <= Ways3(y)
                                /\ Ways4(x) <= Ways4(y)
<1> DEFINE Below(x, y) == Ways2(x) <= Ways2(y) /\ Ways3(x) <= Ways3(y) /\ Ways4(x) <= Ways4(y)
           G == {d \in Nat : \A x \in Nat : Below(x, x + d)}
<1>0. \A x \in Nat : Ways2(x) \in Nat /\ Ways3(x) \in Nat /\ Ways4(x) \in Nat
  BY Ways2Times, Ways3Times, Ways4Times
<1>1. 0 \in G
  BY <1>0
<1>2. ASSUME NEW d \in Nat, d \in G PROVE d + 1 \in G
  <2>1. ASSUME NEW x \in Nat PROVE Below(x, x + (d + 1))
    <3>1. x + d \in Nat /\ x + (d + 1) = (x + d) + 1 /\ Below(x, x + d)
      BY <1>2
    <3>2. Below(x + d, (x + d) + 1)
      BY <1>0, <3>1, WaysNext
    <3> QED
      BY <1>0, <3>1, <3>2
  <2> QED
    BY <2>1
<1>3. Nat \subseteq G
  <2> HIDE DEF G
  <2> QED
    BY <1>1, <1>2, NumbersIn
<1>4. ASSUME NEW x \in Nat, NEW y \in Nat, x <= y PROVE Below(x, y)
  <2>1. y - x \in Nat /\ x + (y - x) = y
    BY <1>4
  <2>2. y - x \in G
    BY <1>3, <2>1
  <2>3. Below(x, x + (y - x))
    BY <2>2
  <2> QED
    BY <2>1, <2>3
<1> QED
  BY <1>4

-----------------------------------------------------------------------------
(* The factorial of the community modules is a recursive function, that is,  *)
(* CHOSEN among those that satisfy its equation: that there is one is proved *)
(* from those on 0 to n, which agree with one another.                       *)

Factorials(f, n) == f = [m \in 0..n |-> IF m = 0 THEN 1 ELSE m * f[m - 1]]

LEMMA FactorialsAt ==
    ASSUME NEW n \in Nat, NEW f, Factorials(f, n), NEW m \in 0..n
    PROVE  f[m] = IF m = 0 THEN 1 ELSE m * f[m - 1]
  BY DEF Factorials

LEMMA FactorialsAgree ==
    ASSUME NEW n \in Nat, NEW k \in Nat, n <= k, NEW f, NEW g, Factorials(f, n), Factorials(g, k)
    PROVE  \A m \in 0..n : f[m] = g[m]
<1> DEFINE G == {m \in Nat : m <= n => f[m] = g[m]}
<1>1. 0 \in G
  BY FactorialsAt
<1>2. ASSUME NEW m \in Nat, m \in G PROVE m + 1 \in G
  <2>1. CASE m + 1 <= n
    <3>1. m <= n /\ m + 1 \in 0..n /\ m + 1 \in 0..k /\ m + 1 # 0 /\ (m + 1) - 1 = m
      BY <2>1
    <3>2. f[m + 1] = (m + 1) * f[(m + 1) - 1] /\ g[m + 1] = (m + 1) * g[(m + 1) - 1]
      BY <3>1, FactorialsAt
    <3> QED
      BY <1>2, <3>1, <3>2
  <2> QED
    BY <2>1
<1>3. Nat \subseteq G
  <2> HIDE DEF G
  <2> QED
    BY <1>1, <1>2, NumbersIn
<1> QED
  BY <1>3

LEMMA FactorialsExist == \A n \in Nat : \E f : Factorials(f, n)
<1> DEFINE G == {n \in Nat : \E f : Factorials(f, n)}
<1>1. 0 \in G
  <2> DEFINE f == [m \in 0..0 |-> 1]
  <2>1. f = [m \in 0..0 |-> IF m = 0 THEN 1 ELSE m * f[m - 1]]
    OBVIOUS
  <2> QED
    BY <2>1 DEF Factorials
<1>2. ASSUME NEW n \in Nat, n \in G PROVE n + 1 \in G
  <2>1. PICK f : Factorials(f, n)
    BY <1>2
  <2> DEFINE g == [m \in 0..(n + 1) |-> IF m = n + 1 THEN (n + 1) * f[n] ELSE f[m]]
  <2>2. ASSUME NEW m \in 0..(n + 1) PROVE g[m] = IF m = 0 THEN 1 ELSE m * g[m - 1]
    <3>1. CASE m = n + 1
      <4>1. m # 0 /\ m - 1 = n /\ n # n + 1 /\ n \in 0..(n + 1)
        BY <3>1
      <4>2. g[m] = (n + 1) * f[n] /\ g[n] = f[n]
        BY <3>1, <4>1
      <4> HIDE DEF g
      <4> QED
        BY <3>1, <4>1, <4>2
    <3>2. CASE m # n + 1
      <4>1. m \in 0..n /\ g[m] = f[m]
        BY <3>2
      <4>2. CASE m = 0
        BY <2>1, <4>1, <4>2, FactorialsAt
      <4>3. CASE m # 0
        <5>1. m - 1 \in 0..(n + 1) /\ m - 1 # n + 1
          BY <3>2, <4>3
        <5>2. g[m - 1] = f[m - 1]
          BY <5>1
        <5>3. f[m] = m * f[m - 1]
          BY <2>1, <4>1, <4>3, FactorialsAt
        <5> HIDE DEF g
        <5> QED
          BY <4>1, <4>3, <5>2, <5>3
      <4> QED
        BY <4>2, <4>3
    <3> QED
      BY <3>1, <3>2
  <2>3. g = [m \in 0..(n + 1) |-> IF m = 0 THEN 1 ELSE m * g[m - 1]]
    <3>1. g = [m \in 0..(n + 1) |-> g[m]]
      OBVIOUS
    <3> HIDE DEF g
    <3> QED
      BY <2>2, <3>1
  <2>4. Factorials(g, n + 1)
    <3> HIDE DEF g
    <3> QED
      BY <2>3 DEF Factorials
  <2>5. \E x : Factorials(x, n + 1)
    <3> HIDE DEF g
    <3> QED
      BY <2>4
  <2> QED
    BY <2>5
<1>3. Nat \subseteq G
  <2> HIDE DEF G
  <2> QED
    BY <1>1, <1>2, NumbersIn
<1> QED
  BY <1>3

LEMMA FactorialIs ==
    factorial = [n \in Nat |-> IF n = 0 THEN 1 ELSE n * factorial[n - 1]]
<1> DEFINE Of(n) == CHOOSE f : Factorials(f, n)
           all == [n \in Nat |-> Of(n)[n]]
<1>1. \A n \in Nat : Factorials(Of(n), n)
  BY FactorialsExist
<1>2. ASSUME NEW n \in Nat PROVE all[n] = IF n = 0 THEN 1 ELSE n * all[n - 1]
  <2>1. all[n] = Of(n)[n] /\ Factorials(Of(n), n)
    BY <1>1
  <2>2. CASE n = 0
    <3>1. n \in 0..n
      OBVIOUS
    <3> HIDE DEF Of, all
    <3> QED
      BY <2>1, <2>2, <3>1, FactorialsAt
  <2>3. CASE n # 0
    <3> DEFINE m == n - 1
    <3>1. m \in Nat /\ m <= n /\ n \in 0..n /\ m \in 0..m
      BY <2>3
    <3>2. all[m] = Of(m)[m] /\ Factorials(Of(m), m)
      BY <1>1, <3>1
    <3>3. Of(n)[n] = n * Of(n)[n - 1]
      <4> HIDE DEF Of, all
      <4> QED
        BY <2>1, <2>3, <3>1, FactorialsAt
    <3>4. Of(m)[m] = Of(n)[m]
      <4> HIDE DEF Of, all, m
      <4> QED
        BY <2>1, <3>1, <3>2, FactorialsAgree
    <3> HIDE DEF Of, all
    <3> QED
      BY <2>1, <2>3, <3>2, <3>3, <3>4
  <2> QED
    BY <2>2, <2>3
<1>3. all = [n \in Nat |-> IF n = 0 THEN 1 ELSE n * all[n - 1]]
  <2>1. all = [n \in Nat |-> all[n]]
    OBVIOUS
  <2> HIDE DEF all
  <2> QED
    BY <1>2, <2>1
<1>4. \E f : f = [n \in Nat |-> IF n = 0 THEN 1 ELSE n * f[n - 1]]
  <2> HIDE DEF all
  <2> QED
    BY <1>3
<1> QED
  BY <1>4 DEF factorial

\* One number more.
LEMMA FactorialAt ==
    ASSUME NEW n \in Nat
    PROVE  factorial[0] = 1 /\ factorial[n + 1] = (n + 1) * factorial[n]
<1> DEFINE of == [m \in Nat |-> IF m = 0 THEN 1 ELSE m * factorial[m - 1]]
<1>1. \A m \in Nat : of[m] = IF m = 0 THEN 1 ELSE m * factorial[m - 1]
  OBVIOUS
<1>2. factorial = of
  BY FactorialIs
<1> HIDE DEF of
<1>3. \A m \in Nat : factorial[m] = IF m = 0 THEN 1 ELSE m * factorial[m - 1]
  BY <1>1, <1>2
<1>4. n + 1 \in Nat /\ n + 1 # 0 /\ (n + 1) - 1 = n
  OBVIOUS
<1> QED
  BY <1>3, <1>4

LEMMA FactorialType == \A n \in Nat : factorial[n] \in Nat \ {0}
<1> DEFINE G == {n \in Nat : factorial[n] \in Nat \ {0}}
<1>1. 0 \in G
  BY FactorialAt
<1>2. ASSUME NEW n \in Nat, n \in G PROVE n + 1 \in G
  <2>1. factorial[n + 1] = (n + 1) * factorial[n] /\ factorial[n] \in Nat \ {0}
    BY <1>2, FactorialAt
  <2>2. \A a \in Nat, b \in Nat \ {0} : (a + 1) * b \in Nat \ {0}
    OBVIOUS
  <2>3. factorial[n + 1] \in Nat \ {0}
    BY <2>1, <2>2
  <2> QED
    BY <2>3
<1>3. Nat \subseteq G
  <2> HIDE DEF G
  <2> QED
    BY <1>1, <1>2, NumbersIn
<1> QED
  BY <1>3

LEMMA Cancels == \A c \in Nat, f \in Nat \ {0} : (f * c) \div f = c
  OBVIOUS

\* In how many ways up to 4 things can be drawn from x kinds.
LEMMA WaysInAll ==
    ASSUME NEW x \in Nat
    PROVE  choose(4 + x, x) = Ways4(x) + Ways3(x) + Ways2(x) + x + 1
<1> DEFINE c == Ways4(x) + Ways3(x) + Ways2(x) + x + 1
           f == factorial[x]
<1>1. /\ Ways2(x) \in Nat /\ 2 * Ways2(x) = x * (x + 1)
      /\ Ways3(x) \in Nat /\ 6 * Ways3(x) = x * (x + 1) * (x + 2)
      /\ Ways4(x) \in Nat /\ 24 * Ways4(x) = x * (x + 1) * (x + 2) * (x + 3)
  BY Ways2Times, Ways3Times, Ways4Times
<1>2. 24 * c = (x + 4) * (x + 3) * (x + 2) * (x + 1)
  <2>1. 24 * c = x * (x + 1) * (x + 2) * (x + 3) + 4 * (x * (x + 1) * (x + 2))
                   + 12 * (x * (x + 1)) + 24 * x + 24
    <3>1. 24 * c = 24 * Ways4(x) + 4 * (6 * Ways3(x)) + 12 * (2 * Ways2(x)) + 24 * x + 24
      <4>1. \A a, b, d \in Nat :
              24 * (a + b + d + x + 1) = 24 * a + 4 * (6 * b) + 12 * (2 * d) + 24 * x + 24
        OBVIOUS
      <4> QED
        BY <1>1, <4>1
    <3> HIDE DEF c
    <3> QED
      BY <1>1, <3>1, Zenon
  <2>2. x * (x + 1) * (x + 2) * (x + 3) + 4 * (x * (x + 1) * (x + 2))
          + 12 * (x * (x + 1)) + 24 * x + 24 = (x + 4) * (x + 3) * (x + 2) * (x + 1)
    OBVIOUS
  <2> HIDE DEF c
  <2> QED
    BY <2>1, <2>2, Zenon
<1>3. factorial[x + 4] = (x + 4) * ((x + 3) * ((x + 2) * ((x + 1) * f)))
  <2>1. /\ x + 1 \in Nat /\ x + 2 \in Nat /\ x + 3 \in Nat
        /\ (x + 1) + 1 = x + 2 /\ (x + 2) + 1 = x + 3 /\ (x + 3) + 1 = x + 4
    OBVIOUS
  <2>2. factorial[x + 1] = (x + 1) * f
    BY FactorialAt
  <2>3. factorial[x + 2] = (x + 2) * factorial[x + 1]
    BY <2>1, FactorialAt, Zenon
  <2>4. factorial[x + 3] = (x + 3) * factorial[x + 2]
    BY <2>1, FactorialAt, Zenon
  <2>5. factorial[x + 4] = (x + 4) * factorial[x + 3]
    BY <2>1, FactorialAt, Zenon
  <2> HIDE DEF f
  <2> QED
    BY <2>2, <2>3, <2>4, <2>5, Zenon
<1>4. factorial[4] = 24
  <2>1. factorial[0] = 1 /\ factorial[0 + 1] = (0 + 1) * factorial[0]
    BY FactorialAt
  <2>2. factorial[1 + 1] = (1 + 1) * factorial[1]
    BY FactorialAt
  <2>3. factorial[2 + 1] = (2 + 1) * factorial[2]
    BY FactorialAt
  <2>4. factorial[3 + 1] = (3 + 1) * factorial[3]
    BY FactorialAt
  <2>5. 0 + 1 = 1 /\ 1 + 1 = 2 /\ 2 + 1 = 3 /\ 3 + 1 = 4
    OBVIOUS
  <2> QED
    BY <2>1, <2>2, <2>3, <2>4, <2>5
<1>5. f \in Nat \ {0} /\ c \in Nat
  BY <1>1, FactorialType
<1>6. factorial[x + 4] = (f * 24) * c
  <2>1. \A a \in Nat : (x + 4) * ((x + 3) * ((x + 2) * ((x + 1) * a)))
                          = a * ((x + 4) * (x + 3) * (x + 2) * (x + 1))
    OBVIOUS
  <2>2. \A a, b \in Nat : a * (24 * b) = (a * 24) * b
    OBVIOUS
  <2>3. f \in Nat
    BY <1>5
  <2> HIDE DEF f, c
  <2>4. factorial[x + 4] = f * (24 * c)
    BY <1>2, <1>3, <2>1, <2>3, Zenon
  <2> QED
    BY <1>5, <2>2, <2>3, <2>4, Zenon
<1>7. ((f * 24) * c) \div (f * 24) = c
  <2>1. f * 24 \in Nat \ {0}
    BY <1>5
  <2> HIDE DEF f, c
  <2> QED
    BY <1>5, <2>1, Cancels
<1>8. 4 + x = x + 4 /\ (4 + x) - x = 4
  OBVIOUS
<1> HIDE DEF c
<1> QED
  BY <1>4, <1>6, <1>7, <1>8 DEF choose, c

-----------------------------------------------------------------------------
(* What overlap costs the lock.  A handler that read the counter early sets  *)
(* it back to one more than it read, and may do so once: it is then done,    *)
(* and whatever it reads next is not behind.  So the misses that are let     *)
(* through before the lock are paid for with handlers: a miss that leaves    *)
(* the counter at n settles one more handler there, and all that it can lose *)
(* is what was settled at the levels above.                                  *)

\* The handlers about to set the counter of u to j or less.
Stale(u, j) == {h \in Handlers : At(h, "miss") /\ task[h].u = u /\ task[h].row.attempts < j}

\* The handlers that cannot take the counter of u back from j, if it has got there.
Settled(u, j) ==
    IF users[u].attempts >= j THEN Cardinality(Handlers \ Stale(u, j)) ELSE 0

Allowed(a, b, c, d) == Ways4(a) + Ways3(b) + Ways2(c) + d

Covered(u) ==
    ~users[u].locked =>
        misses[u] <= Allowed(Settled(u, 1), Settled(u, 2), Settled(u, 3), Settled(u, 4))

Unused(u) == users[u].exists = "absent" => users[u].attempts = 0 /\ ~users[u].locked

Accounted ==
    /\ Counted /\ Opened
    /\ \A u \in Users : Unused(u) /\ Covered(u)

LEMMA AllowedType == \A a, b, c, d \in Nat : Allowed(a, b, c, d) \in Nat
<1>1. \A x \in Nat : Ways2(x) \in Nat /\ Ways3(x) \in Nat /\ Ways4(x) \in Nat
  BY Ways2Times, Ways3Times, Ways4Times
<1> QED
  BY <1>1 DEF Allowed

LEMMA AllowedGrows ==
    \A a, b, c, d, p, q, r, s \in Nat :
        a <= p /\ b <= q /\ c <= r /\ d <= s => Allowed(a, b, c, d) <= Allowed(p, q, r, s)
<1>1. \A x \in Nat : Ways2(x) \in Nat /\ Ways3(x) \in Nat /\ Ways4(x) \in Nat
  BY Ways2Times, Ways3Times, Ways4Times
<1> QED
  BY <1>1, WaysGrow DEF Allowed

\* One handler more at some level makes up for one miss, whatever the higher levels lose.
LEMMA AllowedNext ==
    ASSUME NEW a \in Nat, NEW b \in Nat, NEW c \in Nat, NEW d \in Nat,
           NEW p \in Nat, NEW q \in Nat, NEW r \in Nat, NEW s \in Nat,
           \/ p >= a + 1 /\ b <= a /\ c <= a /\ d <= a
           \/ p >= a /\ q >= b + 1 /\ c <= b /\ d <= b
           \/ p >= a /\ q >= b /\ r >= c + 1 /\ d <= c
           \/ p >= a /\ q >= b /\ r >= c /\ s >= d + 1
    PROVE  Allowed(a, b, c, d) + 1 <= Allowed(p, q, r, s)
<1>1. \A x \in Nat : Ways2(x) \in Nat /\ Ways3(x) \in Nat /\ Ways4(x) \in Nat
  BY Ways2Times, Ways3Times, Ways4Times
<1>2. CASE p >= a + 1 /\ b <= a /\ c <= a /\ d <= a
  <2>1. Ways4(a + 1) <= Ways4(p) /\ Ways3(b) <= Ways3(a) /\ Ways2(c) <= Ways2(a)
    BY <1>2, WaysGrow
  <2>2. Ways4(a + 1) = Ways4(a) + Ways3(a) + Ways2(a) + a + 1
    BY WaysNext
  <2> QED
    BY <1>1, <1>2, <2>1, <2>2 DEF Allowed
<1>3. CASE p >= a /\ q >= b + 1 /\ c <= b /\ d <= b
  <2>1. Ways4(a) <= Ways4(p) /\ Ways3(b + 1) <= Ways3(q) /\ Ways2(c) <= Ways2(b)
    BY <1>3, WaysGrow
  <2>2. Ways3(b + 1) = Ways3(b) + Ways2(b) + b + 1
    BY WaysNext
  <2> QED
    BY <1>1, <1>3, <2>1, <2>2 DEF Allowed
<1>4. CASE p >= a /\ q >= b /\ r >= c + 1 /\ d <= c
  <2>1. Ways4(a) <= Ways4(p) /\ Ways3(b) <= Ways3(q) /\ Ways2(c + 1) <= Ways2(r)
    BY <1>4, WaysGrow
  <2>2. Ways2(c + 1) = Ways2(c) + c + 1
    BY WaysNext
  <2> QED
    BY <1>1, <1>4, <2>1, <2>2 DEF Allowed
<1>5. CASE p >= a /\ q >= b /\ r >= c /\ s >= d + 1
  <2>1. Ways4(a) <= Ways4(p) /\ Ways3(b) <= Ways3(q) /\ Ways2(c) <= Ways2(r)
    BY <1>5, WaysGrow
  <2> QED
    BY <1>1, <1>5, <2>1 DEF Allowed
<1> QED
  BY <1>2, <1>3, <1>4, <1>5

\* The handlers of a set are no more than there are.
LEMMA Smaller ==
    ASSUME NEW S, IsFiniteSet(S), NEW T, T \subseteq S
    PROVE  Cardinality(T) \in Nat /\ Cardinality(S) \in Nat /\ Cardinality(T) <= Cardinality(S)
  BY FS_Subset, FS_CardinalityType

LEMMA SomeHandlers ==
    \A S \in SUBSET Handlers : /\ Cardinality(S) \in Nat
                               /\ Cardinality(S) <= Cardinality(Handlers)
  BY AccountsAssumption, Smaller

LEMMA SettledType ==
    \A u, j : Settled(u, j) \in Nat /\ Settled(u, j) <= Cardinality(Handlers)
<1>0. Cardinality(Handlers) \in Nat
  BY AccountsAssumption, FS_CardinalityType
<1>1. \A u, j : Handlers \ Stale(u, j) \in SUBSET Handlers
  OBVIOUS
<1> QED
  BY <1>0, <1>1, SomeHandlers DEF Settled

LEMMA SettledTypeNext == \A u, j : Settled(u, j)' \in Nat
<1>1. \A u, j : Handlers \ Stale(u, j)' \in SUBSET Handlers
  OBVIOUS
<1> QED
  BY <1>1, SomeHandlers DEF Settled

\* Fewer handlers are settled at a higher level.
LEMMA SettledLevels ==
    ASSUME TypeOK, NEW u \in Users, NEW i \in Nat, NEW j \in Nat, i <= j
    PROVE  Settled(u, j) <= Settled(u, i)
<1>1. users[u].attempts \in Nat
  BY DEF TypeOK, Row
<1>2. Stale(u, i) \subseteq Stale(u, j)
  <2>1. ASSUME NEW h \in Stale(u, i) PROVE h \in Stale(u, j)
    <3>1. task[h].row.attempts \in Nat
      BY DEF Stale, TypeOK, Task, Row
    <3> QED
      BY <3>1 DEF Stale
  <2> QED
    BY <2>1
<1>3. Cardinality(Handlers \ Stale(u, j)) <= Cardinality(Handlers \ Stale(u, i))
  <2> DEFINE A == Handlers \ Stale(u, j)
             B == Handlers \ Stale(u, i)
  <2>1. A \subseteq B /\ B \subseteq Handlers
    BY <1>2
  <2> HIDE DEF A, B
  <2>2. IsFiniteSet(B)
    BY <2>1, AccountsAssumption, FS_Subset
  <2>3. Cardinality(A) <= Cardinality(B)
    BY <2>1, <2>2, Smaller
  <2> QED
    BY <2>3 DEF A, B
<1>4. CASE users[u].attempts >= j
  BY <1>1, <1>3, <1>4 DEF Settled
<1>5. CASE ~(users[u].attempts >= j)
  BY <1>5, SettledType DEF Settled
<1> QED
  BY <1>4, <1>5

\* A handler that reads the counter now is not behind it.
LEMMA StaleShrinks ==
    ASSUME TypeOK, [Next]_vars, NEW u \in Users, NEW j \in Nat, users[u].attempts >= j
    PROVE  Stale(u, j)' \subseteq Stale(u, j)
<1> SUFFICES ASSUME NEW g \in Handlers, task'[g].at = "miss", task'[g].u = u,
                    task'[g].row.attempts < j
             PROVE  task[g] = task'[g]
  BY DEF Stale, At
<1>0. users[u].attempts \in Nat
  BY DEF TypeOK, Row
<1>1. ASSUME NEW h \in Handlers, Request(h) PROVE task[g] = task'[g]
  <2>1. CASE g = h
    <3>1. task'[g].row = users[u]
      BY <1>1, <2>1, RequestSees
    <3> QED
      BY <1>0, <3>1
  <2>2. CASE g # h
    BY <1>1, <2>2, Others
  <2> QED
    BY <2>1, <2>2
<1>2. ASSUME NEW h \in Handlers, Proceed(h) PROVE task[g] = task'[g]
  <2>1. CASE g = h
    BY <1>2, <2>1, ProceedSees
  <2>2. CASE g # h
    BY <1>2, <2>2, Others
  <2> QED
    BY <2>1, <2>2
<1>3. ASSUME NEW h \in Handlers, HandlerFails(h) PROVE task[g] = task'[g]
  <2>1. CASE g = h
    BY <1>3, <2>1 DEF HandlerFails, Finish, TypeOK, Idle
  <2>2. CASE g # h
    BY <1>3, <2>2, Others
  <2> QED
    BY <2>1, <2>2
<1>4. ASSUME NEW v \in Users, LockExpires(v) \/ CodeExpires(v) PROVE task[g] = task'[g]
  BY <1>4, Expiry
<1>5. CASE UNCHANGED vars
  BY <1>5 DEF vars
<1> QED
  BY <1>1, <1>2, <1>3, <1>4, <1>5 DEF Next

\* While the counter stays at a level, no handler that is settled there is lost.
LEMMA SettledStays ==
    ASSUME TypeOK, [Next]_vars, NEW u \in Users, NEW j \in Nat,
           users[u].attempts >= j => users'[u].attempts >= j
    PROVE  Settled(u, j)' \in Nat /\ Settled(u, j) <= Settled(u, j)'
<1>0. Settled(u, j)' \in Nat
  BY SettledTypeNext
<1>1. CASE users[u].attempts >= j
  <2>1. Stale(u, j)' \subseteq Stale(u, j)
    BY <1>1, StaleShrinks
  <2> DEFINE A == Handlers \ Stale(u, j)
             B == Handlers \ Stale(u, j)'
  <2>2. A \subseteq B /\ B \subseteq Handlers
    BY <2>1
  <2>3. Settled(u, j) = Cardinality(A) /\ Settled(u, j)' = Cardinality(B)
    BY <1>1 DEF Settled
  <2> HIDE DEF A, B
  <2>4. Cardinality(A) <= Cardinality(B)
    <3>1. IsFiniteSet(B)
      BY <2>2, AccountsAssumption, FS_Subset
    <3> QED
      BY <2>2, <3>1, Smaller
  <2> QED
    BY <1>0, <2>3, <2>4
<1>2. CASE ~(users[u].attempts >= j)
  BY <1>0, <1>2 DEF Settled
<1> QED
  BY <1>0, <1>1, <1>2

\* A handler that counts a miss is settled from then on, at the level that it writes.
LEMMA MissSettles ==
    ASSUME TypeOK, NEW h \in Handlers, Proceed(h), At(h, "miss"),
           NEW u, u = task[h].u, NEW n, n = task[h].row.attempts + 1
    PROVE  Settled(u, n) + 1 <= Settled(u, n)'
<1> DEFINE A == Handlers \ Stale(u, n)
           B == Handlers \ Stale(u, n)'
<1>1. /\ task \in [Handlers -> Task] /\ u \in Users /\ task[h].row.attempts \in Nat
      /\ users'[u].attempts = n
  BY CounterWrites DEF TypeOK, Task, Row, At
<1>2. task'[h].at = "idle"
  <2>1. LoginMiss(h)
    BY DEF Proceed, LoginMiss, LoginForgive, GenerateTokens, LoginActivate, RefreshRotate,
       LogoutClear, ChangeRead, ChangeWrite, SetupSecret, EnableRead, EnableWrite, DisableWrite,
       ForgotWrite, VerifyWrite, ResetWrite, Insert, InviteLook, Restore, AcceptWrite,
       DeleteWrite, StatusWrite, At
  <2> QED
    BY <1>1, <2>1 DEF LoginMiss, Finish, Idle
<1>3. h \in Stale(u, n) /\ h \notin Stale(u, n)'
  BY <1>1, <1>2 DEF Stale, At
<1>4. Stale(u, n)' \subseteq Stale(u, n)
  <2>1. ASSUME NEW g \in Handlers \ {h}, g \in Stale(u, n)' PROVE g \in Stale(u, n)
    <3>1. task'[g] = task[g]
      BY Others
    <3>2. task'[g].at = "miss" /\ task'[g].u = u /\ task'[g].row.attempts < n
      BY <1>1, <1>2, <2>1 DEF Stale, At
    <3> QED
      BY <3>1, <3>2 DEF Stale, At
  <2> QED
    BY <1>3, <2>1 DEF Stale
<1>5. Settled(u, n)' = Cardinality(B)
  BY <1>1 DEF Settled
<1>6. Settled(u, n) <= Cardinality(A) /\ Cardinality(A) \in Nat
  <2>1. A \in SUBSET Handlers
    OBVIOUS
  <2>2. Cardinality(A) \in Nat
    BY <2>1, SomeHandlers
  <2> QED
    BY <2>2 DEF Settled
<1>7. A \cup {h} \subseteq B /\ h \notin A /\ A \subseteq Handlers /\ B \subseteq Handlers
  BY <1>3, <1>4
<1> HIDE DEF A, B
<1>8. IsFiniteSet(A) /\ IsFiniteSet(B)
  BY <1>7, AccountsAssumption, FS_Subset
<1>9. Cardinality(A \cup {h}) = Cardinality(A) + 1
  BY <1>7, <1>8, FS_AddElement
<1>10. Cardinality(A \cup {h}) <= Cardinality(B) /\ Cardinality(B) \in Nat
  BY <1>7, <1>8, Smaller
<1>11. Settled(u, n) \in Nat
  BY SettledType
<1> QED
  BY <1>5, <1>6, <1>9, <1>10, <1>11

\* Covered, for an account whose counter neither grows nor is set back.
LEMMA CoveredStays ==
    ASSUME TypeOK, [Next]_vars, NEW v \in Users, Covered(v), misses'[v] = misses[v],
           users'[v].attempts = users[v].attempts, users'[v].locked = users[v].locked
    PROVE  Covered(v)'
<1>1. \A j \in Nat : Settled(v, j)' \in Nat /\ Settled(v, j) <= Settled(v, j)'
  BY SettledStays
<1>2. \A j \in Nat : Settled(v, j) \in Nat
  BY SettledType
<1>3. misses[v] \in Nat
  BY DEF TypeOK
<1>4. Allowed(Settled(v, 1), Settled(v, 2), Settled(v, 3), Settled(v, 4))
        <= Allowed(Settled(v, 1)', Settled(v, 2)', Settled(v, 3)', Settled(v, 4)')
  BY <1>1, <1>2, AllowedGrows
<1>5. /\ Allowed(Settled(v, 1), Settled(v, 2), Settled(v, 3), Settled(v, 4)) \in Nat
      /\ Allowed(Settled(v, 1)', Settled(v, 2)', Settled(v, 3)', Settled(v, 4)') \in Nat
  BY <1>1, <1>2, AllowedType
<1> QED
  BY <1>3, <1>4, <1>5 DEF Covered, Allowed

\* Covered, for the account of a miss: what the levels above lose is made up for.
LEMMA CoveredMiss ==
    ASSUME TypeOK, NEW h \in Handlers, Proceed(h), At(h, "miss"),
           NEW u, u = task[h].u, Covered(u)
    PROVE  Covered(u)'
<1> SUFFICES ASSUME NEW n, n = task[h].row.attempts + 1 PROVE Covered(u)'
  OBVIOUS
<1>0. [Next]_vars
  BY DEF Next
<1>1. /\ u \in Users /\ task[h].row.attempts \in Nat /\ users[u].attempts \in Nat
      /\ users'[u].attempts = n
      /\ users'[u].locked = (users[u].locked \/ users'[u].attempts >= LockAfter)
      /\ misses'[u] = misses[u] + 1 /\ misses[u] \in Nat
  <2>1. u \in Users
    BY CounterWrites
  <2> QED
    BY <2>1, CounterWrites DEF TypeOK, Task, Row, At
<1>2. CASE users[u].locked \/ n >= 5
  <2>1. users'[u].locked
    <3>1. CASE users[u].locked
      BY <1>1, <3>1, Zenon
    <3>2. CASE n >= 5
      <4>1. users'[u].attempts >= LockAfter
        BY <1>1, <3>2 DEF LockAfter
      <4> QED
        BY <1>1, <4>1, Zenon
    <3> QED
      BY <1>2, <3>1, <3>2
  <2> QED
    BY <2>1 DEF Covered
<1>3. CASE ~users[u].locked /\ n < 5
  <2>1. n \in {1, 2, 3, 4}
    BY <1>1, <1>3
  <2> DEFINE a == Settled(u, 1)
             b == Settled(u, 2)
             c == Settled(u, 3)
             d == Settled(u, 4)
             p == Settled(u, 1)'
             q == Settled(u, 2)'
             r == Settled(u, 3)'
             s == Settled(u, 4)'
  <2>2. a \in Nat /\ b \in Nat /\ c \in Nat /\ d \in Nat
    BY SettledType
  <2>3. p \in Nat /\ q \in Nat /\ r \in Nat /\ s \in Nat
    BY SettledTypeNext
  <2>4. b <= a /\ c <= b /\ d <= c
    BY <1>1, SettledLevels
  <2>5. \A j \in Nat : j <= n => Settled(u, j) <= Settled(u, j)'
    <3>1. ASSUME NEW j \in Nat, j <= n PROVE Settled(u, j) <= Settled(u, j)'
      <4>1. users'[u].attempts >= j
        BY <1>1, <3>1
      <4> QED
        BY <1>0, <1>1, <4>1, SettledStays
    <3> QED
      BY <3>1
  <2>6. Settled(u, n) + 1 <= Settled(u, n)'
    BY MissSettles
  <2>7. \/ p >= a + 1 /\ b <= a /\ c <= a /\ d <= a
        \/ p >= a /\ q >= b + 1 /\ c <= b /\ d <= b
        \/ p >= a /\ q >= b /\ r >= c + 1 /\ d <= c
        \/ p >= a /\ q >= b /\ r >= c /\ s >= d + 1
    <3>1. 1 <= n => a <= p
      BY <2>5
    <3>2. 2 <= n => b <= q
      BY <2>5
    <3>3. 3 <= n => c <= r
      BY <2>5
    <3>4. /\ n = 1 => a + 1 <= p
          /\ n = 2 => b + 1 <= q
          /\ n = 3 => c + 1 <= r
          /\ n = 4 => d + 1 <= s
      BY <2>6
    <3> HIDE DEF a, b, c, d, p, q, r, s
    <3> QED
      BY <2>1, <2>2, <2>3, <2>4, <3>1, <3>2, <3>3, <3>4
  <2>8. misses[u] <= Allowed(a, b, c, d)
    BY <1>3 DEF Covered
  <2>9. Allowed(a, b, c, d) + 1 <= Allowed(p, q, r, s)
    <3> HIDE DEF a, b, c, d, p, q, r, s
    <3> QED
      BY <2>2, <2>3, <2>7, AllowedNext
  <2>10. Allowed(a, b, c, d) \in Nat /\ Allowed(p, q, r, s) \in Nat
    <3> HIDE DEF a, b, c, d, p, q, r, s
    <3> QED
      BY <2>2, <2>3, AllowedType
  <2>11. misses'[u] <= Allowed(p, q, r, s)
    <3> HIDE DEF a, b, c, d, p, q, r, s
    <3> QED
      BY <1>1, <2>8, <2>9, <2>10
  <2> QED
    BY <2>11 DEF Covered, Allowed
<1> QED
  BY <1>1, <1>2, <1>3

\* What a step does to the counter of an account: nothing, a new start, or one miss.
LEMMA CounterStep ==
    ASSUME Counted, Opened, \A v \in Users : Unused(v), [Next]_vars, NEW v \in Users
    PROVE  /\ \/ /\ misses'[v] = misses[v]
                 /\ users'[v].attempts = users[v].attempts /\ users'[v].locked = users[v].locked
              \/ misses'[v] = 0
              \/ \E h \in Handlers : Proceed(h) /\ At(h, "miss") /\ v = task[h].u
           /\ Unused(v)'
<1> DEFINE Same == /\ misses'[v] = misses[v]
                   /\ users'[v].attempts = users[v].attempts
                   /\ users'[v].locked = users[v].locked
           Goal == /\ \/ Same
                      \/ misses'[v] = 0
                      \/ \E h \in Handlers : Proceed(h) /\ At(h, "miss") /\ v = task[h].u
                   /\ Unused(v)'
<1>0. TypeOK /\ Unused(v)
  BY DEF Counted
<1>1. ASSUME NEW h \in Handlers, Proceed(h) PROVE Goal
  <2> DEFINE u == task[h].u
             at == task[h].at
  <2>1. u \in Users /\ Busy(h) /\ misses \in [Users -> Nat]
    BY <1>0, <1>1, PasswordWrites DEF TypeOK
  <2>2. users[v].exists # "absent" => users'[v].exists # "absent"
    BY <1>1, OpenedProceed
  <2>3. CASE v # u
    <3>1. users'[v] = users[v]
      BY <1>0, <1>1, <2>3, RowFrame
    <3>2. misses'[v] = misses[v]
      <4>1. CASE at \in {"miss", "forgive"}
        BY <1>0, <1>1, <2>1, <2>3, <4>1, CounterWrites
      <4>2. CASE at \notin {"miss", "forgive"}
        BY <1>1, <4>2, HistoryFrame
      <4> QED
        BY <4>1, <4>2
    <3> QED
      BY <1>0, <3>1, <3>2 DEF Unused
  <2>4. CASE v = u /\ at \in {"miss", "forgive"}
    <3>1. users[v].exists # "absent"
      BY <2>1, <2>4 DEF Opened, AboutRow
    <3>2. Unused(v)'
      BY <2>2, <3>1 DEF Unused
    <3>3. CASE at = "miss"
      BY <1>1, <2>4, <3>2, <3>3 DEF At
    <3>4. CASE at = "forgive"
      BY <1>0, <1>1, <2>1, <2>4, <3>2, <3>4, CounterWrites
    <3> QED
      BY <2>4, <3>3, <3>4
  <2>5. CASE v = u /\ at = "insert"
    <3>1. \/ users'[v] = users[v]
          \/ users'[v] = task[h].row /\ users[v].exists = "absent"
      <4>1. at = "insert" => \/ users'[u] = users[u]
                             \/ users'[u] = task[h].row /\ users[u].exists = "absent"
        BY <1>0, <1>1, PasswordWrites
      <4> QED
        BY <2>5, <4>1
    <3>2. Fresh(task[h].row)
      BY <2>5 DEF Counted, ReadRightly, At
    <3>3. misses'[v] = misses[v]
      BY <1>1, <2>5, HistoryFrame
    <3>4. CASE users'[v] = users[v]
      BY <1>0, <3>3, <3>4 DEF Unused
    <3>5. CASE users'[v] = task[h].row /\ users[v].exists = "absent"
      <4>1. users'[v].attempts = 0 /\ ~users'[v].locked
        BY <3>2, <3>5 DEF Fresh
      <4>2. users[v].attempts = 0 /\ ~users[v].locked
        BY <1>0, <3>5 DEF Unused
      <4>3. users[v].locked \in BOOLEAN /\ users'[v].locked \in BOOLEAN
        <5>1. TypeOK'
          BY <1>0, NextType
        <5> QED
          BY <1>0, <5>1 DEF TypeOK, Row
      <4> QED
        BY <3>3, <4>1, <4>2, <4>3 DEF Unused
    <3> QED
      BY <3>1, <3>4, <3>5
  <2>6. CASE v = u /\ at \notin {"miss", "forgive", "insert"}
    <3>1. users'[v].attempts = users[v].attempts /\ users'[v].locked = users[v].locked
      BY <1>0, <1>1, <2>6, RowFrame DEF Kept
    <3>2. misses'[v] = misses[v]
      BY <1>1, <2>6, HistoryFrame
    <3> QED
      BY <1>0, <2>2, <3>1, <3>2 DEF Unused
  <2> QED
    BY <2>3, <2>4, <2>5, <2>6
<1>2. ASSUME NEW h \in Handlers, Request(h) \/ HandlerFails(h) PROVE Goal
  <2>1. users' = users /\ misses' = misses
    BY <1>2, RequestReads DEF HandlerFails, history
  <2> QED
    BY <1>0, <2>1 DEF Unused
<1>3. ASSUME NEW u \in Users, LockExpires(u) \/ CodeExpires(u) PROVE Goal
  <2>1. Unused(v)'
    <3>1. /\ users'[v].attempts = users[v].attempts /\ users'[v].exists = users[v].exists
          /\ users'[v].locked => users[v].locked
      BY <1>0, <1>3, ExpiryKeeps
    <3> QED
      BY <1>0, <3>1 DEF Unused
  <2>2. Same \/ misses'[v] = 0
    <3>1. users'[v].attempts = users[v].attempts
      BY <1>0, <1>3, ExpiryKeeps
    <3>2. misses' = misses \/ misses' = [misses EXCEPT ![u] = 0]
      BY <1>0, <1>3, Expiry
    <3>3. users'[v].locked = users[v].locked \/ misses'[v] = 0
      BY <1>0, <1>3, Expiry
    <3>4. misses \in [Users -> Nat]
      BY <1>0 DEF TypeOK
    <3> QED
      BY <3>1, <3>2, <3>3, <3>4
  <2> QED
    BY <2>1, <2>2
<1>4. CASE UNCHANGED vars
  <2>1. users' = users /\ misses' = misses
    BY <1>4 DEF vars, history
  <2> QED
    BY <1>0, <2>1 DEF Unused
<1> QED
  BY <1>1, <1>2, <1>3, <1>4 DEF Next

\* Covered, for an account that has a row or not, from the first state on.
LEMMA InitAccounted == Init => Accounted
<1> SUFFICES ASSUME Init, NEW u \in Users PROVE Unused(u) /\ Covered(u)
  BY InitCounted, InitOpened DEF Accounted
<1>1. users[u].attempts = 0 /\ ~users[u].locked /\ misses[u] = 0
  BY DEF Init, NewUser, NoRow
<1>2. Allowed(Settled(u, 1), Settled(u, 2), Settled(u, 3), Settled(u, 4)) \in Nat
  BY SettledType, AllowedType
<1> QED
  BY <1>1, <1>2 DEF Unused, Covered

LEMMA AccountedStep == Accounted /\ [Next]_vars => Accounted'
<1> SUFFICES ASSUME Accounted, [Next]_vars, NEW v \in Users PROVE Unused(v)' /\ Covered(v)'
  BY CountedStep, OpenedStep DEF Accounted
<1>0. TypeOK /\ Covered(v)
  BY DEF Accounted, Counted
<1>1. /\ \/ /\ misses'[v] = misses[v]
            /\ users'[v].attempts = users[v].attempts /\ users'[v].locked = users[v].locked
         \/ misses'[v] = 0
         \/ \E h \in Handlers : Proceed(h) /\ At(h, "miss") /\ v = task[h].u
      /\ Unused(v)'
  BY CounterStep DEF Accounted
<1>2. CASE /\ misses'[v] = misses[v]
           /\ users'[v].attempts = users[v].attempts /\ users'[v].locked = users[v].locked
  BY <1>0, <1>1, <1>2, CoveredStays
<1>3. CASE misses'[v] = 0
  <2>1. Allowed(Settled(v, 1)', Settled(v, 2)', Settled(v, 3)', Settled(v, 4)') \in Nat
    BY SettledTypeNext, AllowedType
  <2> QED
    BY <1>1, <1>3, <2>1 DEF Covered, Allowed
<1>4. CASE \E h \in Handlers : Proceed(h) /\ At(h, "miss") /\ v = task[h].u
  BY <1>0, <1>1, <1>4, CoveredMiss
<1> QED
  BY <1>1, <1>2, <1>3, <1>4

\* Every handler settled at every level: that is all the misses there can be.
LEMMA AccountedBounds == Accounted => LockoutOvershoot
<1> DEFINE k == Cardinality(Handlers)
<1> SUFFICES ASSUME Accounted, NEW u \in Users, misses[u] > choose(LockAfter - 1 + k, k) - 1
             PROVE  users[u].locked
  BY DEF LockoutOvershoot
<1>1. k \in Nat /\ misses[u] \in Nat
  BY AccountsAssumption, FS_CardinalityType DEF Accounted, Counted, TypeOK
<1>2. /\ Settled(u, 1) \in Nat /\ Settled(u, 2) \in Nat
      /\ Settled(u, 3) \in Nat /\ Settled(u, 4) \in Nat
      /\ Settled(u, 1) <= k /\ Settled(u, 2) <= k /\ Settled(u, 3) <= k /\ Settled(u, 4) <= k
  BY SettledType
<1> HIDE DEF k
<1>3. Allowed(Settled(u, 1), Settled(u, 2), Settled(u, 3), Settled(u, 4)) <= Allowed(k, k, k, k)
  BY <1>1, <1>2, AllowedGrows
<1>4. Allowed(Settled(u, 1), Settled(u, 2), Settled(u, 3), Settled(u, 4)) \in Nat
      /\ Allowed(k, k, k, k) \in Nat
  BY <1>1, <1>2, AllowedType
<1>5. choose(LockAfter - 1 + k, k) = Allowed(k, k, k, k) + 1
  <2>1. LockAfter - 1 + k = 4 + k
    BY <1>1 DEF LockAfter
  <2>2. choose(4 + k, k) = Ways4(k) + Ways3(k) + Ways2(k) + k + 1
    BY <1>1, WaysInAll
  <2> QED
    BY <2>1, <2>2 DEF Allowed
<1>6. ~users[u].locked =>
        misses[u] <= Allowed(Settled(u, 1), Settled(u, 2), Settled(u, 3), Settled(u, 4))
  BY DEF Accounted, Covered
<1> QED
  BY <1>1, <1>3, <1>4, <1>5, <1>6

\* However the logins of any number of handlers overlap, fail and are answered late, an
\* account is locked before more than (4+k over k) - 1 misses in a row got through.
THEOREM LockoutOvershootHolds == Spec => []LockoutOvershoot
  BY InitAccounted, AccountedStep, AccountedBounds, PTL DEF Spec

---------------------------------------------------------------------------
(* Requests that do not overlap.                                           *)

Exclusive == \A g, h \in Handlers : Busy(g) /\ Busy(h) => g = h

\* The counter holds every miss; the row that insert would replace has none.
LockSound(v) ==
    /\ misses[v] <= users[v].attempts
    /\ misses[v] >= LockAfter => users[v].locked
    /\ users[v].exists = "absent" => misses[v] = 0

VerdictSound(v) == verdict[v] \in {"suspended", "blocked"} => users[v].status = verdict[v]

SlotSound(v) == v \in loggedOut => ~users[v].slot

\* A code that can still be used was mailed, and no password has been set with it.
CodeSound(v) ==
    /\ resets[v] <= mails[v]
    /\ users[v].code # "none" => resets[v] < mails[v]

FactorSound(v) == users[v].twoFa => users[v].secret

Sound(v) ==
    /\ LockSound(v) /\ VerdictSound(v) /\ SlotSound(v) /\ CodeSound(v) /\ FactorSound(v)

\* What the only running handler has read is still so.
Ready(h) ==
    LET u == task[h].u IN
    /\ At(h, "miss") => /\ task[h].row.attempts = users[u].attempts
                        /\ users[u].exists # "absent"
    /\ At(h, "forgive") => task[h].row.status = users[u].status
    /\ At(h, "slot") /\ task[h].next = "activate" => users[u].status \notin Refused
    /\ At(h, "activate") => users[u].status \notin Refused
    /\ At(h, "accept") => users[u].status = "pending"
    /\ At(h, "rotate") => users[u].slot
    /\ At(h, "writeToken") \/ At(h, "reset") => users[u].code # "none"
    /\ At(h, "enable") => users[u].secret
    /\ At(h, "insert") \/ At(h, "lookDeleted") => Fresh(task[h].row)

Serial ==
    /\ TypeOK
    /\ Exclusive
    /\ \A v \in Users : Sound(v)
    /\ \A h \in Handlers : Ready(h)

LEMMA InitSerial == Init => Serial
<1> SUFFICES ASSUME Init PROVE Serial
  OBVIOUS
<1>1. ASSUME NEW v \in Users PROVE Sound(v)
  <2>1. /\ users[v].attempts = 0 /\ ~users[v].twoFa /\ users[v].code = "none"
    BY DEF Init, NewUser, NoRow
  <2>2. misses[v] = 0 /\ resets[v] = 0 /\ mails[v] = 0 /\ verdict[v] = None /\ v \notin loggedOut
    BY DEF Init
  <2>3. None \notin {"suspended", "blocked"}
    BY AccountsAssumption DEF Statuses
  <2> QED
    BY <2>1, <2>2, <2>3 DEF Sound, LockSound, VerdictSound, SlotSound, CodeSound, FactorSound, LockAfter
<1>2. Exclusive /\ \A h \in Handlers : Ready(h)
  BY DEF Init, Idle, Exclusive, Busy, Ready, At
<1> QED
  BY <1>1, <1>2, InitType DEF Serial

-----------------------------------------------------------------------------

\* What the steps write that change the other columns and histories.
LEMMA ColumnWrites ==
    ASSUME TypeOK, NEW h \in Handlers, Proceed(h)
    PROVE  LET u == task[h].u
               new == users'[u]
               at == task[h].at
           IN  /\ at = "slot" => new.slot /\ loggedOut' = loggedOut \ {u}
               /\ at = "clearSlot" => ~new.slot /\ loggedOut' = loggedOut \cup {u}
               /\ at = "rotate" => new.slot
               /\ at = "writeCode" => new.code # "none" /\ mails' = [mails EXCEPT ![u] = @ + 1]
               /\ at = "reset" => new.code = "none" /\ resets' = [resets EXCEPT ![u] = @ + 1]
               /\ at = "clearSecret" => ~new.twoFa
               /\ at = "writeSecret" => new.secret
               /\ at = "restore" => verdict' = [verdict EXCEPT ![u] = None]
                                    /\ new.exists = "live"
               /\ at = "writeStatus" => /\ new.status = task[h].next
                                        /\ verdict' = [verdict EXCEPT ![u] = task[h].next]
               /\ at = "delete" => new.exists = "deleted"
               /\ at = "insert" =>
                    \/ new = users[u] /\ verdict' = verdict
                    \/ /\ users[u].exists = "absent" /\ new = task[h].row
                       /\ verdict' = [verdict EXCEPT ![u] = None]
<1> DEFINE u == task[h].u
<1>1. u \in Users /\ users \in [Users -> Row] /\ users[u] \in Row
  BY CounterWrites DEF TypeOK
<1>2. CASE GenerateTokens(h)
  <2>1. users' = [users EXCEPT ![u] = [users[u] EXCEPT !.slot = TRUE]]
    BY <1>1, <1>2 DEF GenerateTokens
  <2> QED
    BY <1>1, <1>2, <2>1 DEF GenerateTokens, At, Row
<1>3. CASE LogoutClear(h)
  <2>1. users' = [users EXCEPT ![u] = [users[u] EXCEPT !.slot = FALSE]]
    BY <1>1, <1>3 DEF LogoutClear
  <2> QED
    BY <1>1, <1>3, <2>1 DEF LogoutClear, At, Row
<1>4. CASE RefreshRotate(h)
  <2>1. users' = [users EXCEPT ![u] = [users[u] EXCEPT !.slot = TRUE]]
    BY <1>1, <1>4 DEF RefreshRotate
  <2> QED
    BY <1>1, <1>4, <2>1 DEF RefreshRotate, At, Row
<1>5. CASE ForgotWrite(h)
  <2>1. users' = [users EXCEPT ![u] = [users[u] EXCEPT !.code = "otp", !.fresh = TRUE]]
    BY <1>1, <1>5 DEF ForgotWrite
  <2> QED
    BY <1>1, <1>5, <2>1 DEF ForgotWrite, At, Row
<1>6. CASE ResetWrite(h)
  <2>1. PICK pw \in Passwords :
          users' = [users EXCEPT ![u] = [users[u] EXCEPT !.password = pw, !.code = "none", !.fresh = FALSE]]
    BY <1>1, <1>6 DEF ResetWrite
  <2> QED
    BY <1>1, <1>6, <2>1 DEF ResetWrite, At, Row
<1>7. CASE DisableWrite(h)
  <2>1. users' = [users EXCEPT ![u] = [users[u] EXCEPT !.twoFa = FALSE, !.secret = FALSE]]
    BY <1>1, <1>7 DEF DisableWrite
  <2> QED
    BY <1>1, <1>7, <2>1 DEF DisableWrite, At, Row
<1>8. CASE SetupSecret(h)
  <2>1. users' = [users EXCEPT ![u] = [users[u] EXCEPT !.secret = TRUE]]
    BY <1>1, <1>8 DEF SetupSecret
  <2> QED
    BY <1>1, <1>8, <2>1 DEF SetupSecret, At, Row
<1>9. CASE Restore(h)
  <2> DEFINE pw == task[h].row.password
  <2>1. users' = [users EXCEPT ![u] = [users[u] EXCEPT !.exists = "live", !.password = pw,
                                         !.status = "pending", !.invite = TRUE]]
    BY <1>1, <1>9 DEF Restore
  <2>2. users'[u].exists = "live"
    <3> HIDE DEF pw
    <3> QED
      BY <1>1, <2>1 DEF Row
  <2> QED
    BY <1>9, <2>2 DEF Restore, At
<1>10. CASE StatusWrite(h)
  <2>1. users' = [users EXCEPT ![u] = [users[u] EXCEPT !.status = task[h].next]]
    BY <1>1, <1>10 DEF StatusWrite
  <2> QED
    BY <1>1, <1>10, <2>1 DEF StatusWrite, At, Row
<1>11. CASE DeleteWrite(h)
  <2>1. users' = [users EXCEPT ![u] = [users[u] EXCEPT !.exists = "deleted"]]
    BY <1>1, <1>11 DEF DeleteWrite
  <2> QED
    BY <1>1, <1>11, <2>1 DEF DeleteWrite, At, Row
<1>12. CASE Insert(h)
  BY <1>1, <1>12 DEF Insert, At
<1>13. CASE \/ LoginMiss(h) \/ LoginForgive(h) \/ LoginActivate(h) \/ ChangeRead(h)
            \/ ChangeWrite(h) \/ EnableRead(h) \/ EnableWrite(h) \/ VerifyWrite(h)
            \/ InviteLook(h) \/ AcceptWrite(h)
  BY <1>1, <1>13 DEF LoginMiss, LoginForgive, LoginActivate, ChangeRead, ChangeWrite, EnableRead,
     EnableWrite, VerifyWrite, InviteLook, AcceptWrite, At
<1> QED
  BY <1>2, <1>3, <1>4, <1>5, <1>6, <1>7, <1>8, <1>9, <1>10, <1>11, <1>12, <1>13 DEF Proceed

\* What a running handler may rely on.
LEMMA Reliable ==
    ASSUME Serial, NEW h \in Handlers, Proceed(h)
    PROVE  /\ TypeOK /\ task[h] \in Task /\ task[h].u \in Users /\ Ready(h)
           /\ \A v \in Users : Sound(v) /\ users[v] \in Row /\ misses[v] \in Nat
                               /\ resets[v] \in Nat /\ mails[v] \in Nat
           /\ misses \in [Users -> Nat] /\ resets \in [Users -> Nat] /\ mails \in [Users -> Nat]
  BY CounterWrites DEF Serial, TypeOK

LEMMA LockKept ==
    ASSUME Serial, NEW h \in Handlers, Proceed(h), NEW v \in Users
    PROVE  LockSound(v)'
<1> DEFINE u == task[h].u
           at == task[h].at
<1>1. LockSound(v) /\ users[v].attempts \in Nat /\ misses[v] \in Nat
  BY Reliable DEF Sound, Row
<1>2. CASE v # u
  <2>1. users'[v] = users[v] /\ misses'[v] = misses[v]
    BY <1>2, Reliable, RowFrame, CounterWrites, HistoryFrame
  <2> QED
    BY <1>1, <2>1 DEF LockSound
<1>3. CASE v = u /\ at = "miss"
  <2>1. /\ users'[u].attempts = users[u].attempts + 1
        /\ users'[u].locked = (users[u].locked \/ users'[u].attempts >= LockAfter)
        /\ misses'[u] = misses[u] + 1
        /\ users'[u].exists # "absent"
    BY <1>3, Reliable, CounterWrites, RowFrame DEF Ready, At, Kept
  <2>2. users'[u].attempts >= LockAfter => users'[u].locked
    BY <2>1, Zenon
  <2>3. misses'[u] <= users'[u].attempts /\ (misses'[u] >= LockAfter => users'[u].attempts >= LockAfter)
    BY <1>1, <1>3, <2>1 DEF LockSound, LockAfter
  <2> QED
    BY <1>3, <2>1, <2>2, <2>3 DEF LockSound
<1>4. CASE v = u /\ at = "forgive"
  <2>1. users'[u].attempts = 0 /\ misses'[u] = 0
    BY <1>4, Reliable, CounterWrites
  <2> QED
    BY <1>4, <2>1 DEF LockSound, LockAfter
<1>5. CASE v = u /\ at = "insert"
  <2>1. misses'[u] = misses[u]
    BY <1>5, HistoryFrame
  <2>2. CASE users'[u] = users[u]
    BY <1>1, <1>5, <2>1, <2>2 DEF LockSound
  <2>3. CASE users[u].exists = "absent" /\ users'[u] = task[h].row
    <3>1. Fresh(task[h].row) /\ misses'[u] = 0
      BY <1>1, <1>5, <2>1, <2>3, Reliable DEF Ready, At, LockSound
    <3> QED
      BY <1>5, <2>3, <3>1 DEF LockSound, Fresh, LockAfter
  <2> QED
    BY <1>5, <2>2, <2>3, Reliable, ColumnWrites
<1>6. CASE v = u /\ at \notin {"miss", "forgive", "insert"}
  <2>1. /\ users'[v].attempts = users[v].attempts /\ users'[v].locked = users[v].locked
        /\ misses'[v] = misses[v]
    BY <1>6, Reliable, RowFrame, HistoryFrame DEF Kept
  <2>2. users'[v].exists = "absent" => users[v].exists = "absent"
    BY <1>6, Reliable, RowFrame, ColumnWrites DEF Kept
  <2> QED
    BY <1>1, <2>1, <2>2 DEF LockSound
<1> QED
  BY <1>2, <1>3, <1>4, <1>5, <1>6

LEMMA VerdictKept ==
    ASSUME Serial, NEW h \in Handlers, Proceed(h), NEW v \in Users
    PROVE  VerdictSound(v)'
<1> DEFINE u == task[h].u
           at == task[h].at
<1>0. None \notin {"suspended", "blocked"} /\ verdict \in [Users -> Statuses \cup {None}]
  BY AccountsAssumption DEF Statuses, Serial, TypeOK
<1>1. VerdictSound(v)
  BY Reliable DEF Sound
<1>2. CASE v # u
  <2>1. users'[v] = users[v] /\ verdict'[v] = verdict[v]
    BY <1>0, <1>2, Reliable, RowFrame, ColumnWrites, HistoryFrame
  <2> QED
    BY <1>1, <2>1 DEF VerdictSound
<1>3. CASE v = u /\ at \in {"activate", "accept"}
  <2>1. verdict'[u] = verdict[u]
    BY <1>3, HistoryFrame
  <2>2. users[u].status \notin {"suspended", "blocked"}
    BY <1>3, Reliable DEF Ready, At, Refused
  <2> QED
    BY <1>1, <1>3, <2>1, <2>2 DEF VerdictSound
<1>4. CASE v = u /\ at = "restore"
  <2>1. verdict'[u] = None
    BY <1>0, <1>4, Reliable, ColumnWrites
  <2> QED
    BY <1>0, <1>4, <2>1 DEF VerdictSound
<1>5. CASE v = u /\ at = "writeStatus"
  <2>1. verdict'[u] = task[h].next /\ users'[u].status = task[h].next
    BY <1>0, <1>5, Reliable, ColumnWrites
  <2> QED
    BY <1>5, <2>1 DEF VerdictSound
<1>6. CASE v = u /\ at = "insert"
  <2>1. \/ users'[u] = users[u] /\ verdict' = verdict
        \/ verdict' = [verdict EXCEPT ![u] = None]
    BY <1>6, Reliable, ColumnWrites
  <2>2. CASE users'[u] = users[u] /\ verdict' = verdict
    BY <1>1, <1>6, <2>2 DEF VerdictSound
  <2>3. CASE verdict' = [verdict EXCEPT ![u] = None]
    BY <1>0, <1>6, <2>3, Reliable DEF VerdictSound
  <2> QED
    BY <2>1, <2>2, <2>3
<1>7. CASE v = u /\ at \notin {"activate", "accept", "restore", "writeStatus", "insert"}
  <2>1. users'[v].status = users[v].status /\ verdict'[v] = verdict[v]
    BY <1>7, Reliable, RowFrame, HistoryFrame DEF Kept
  <2> QED
    BY <1>1, <2>1 DEF VerdictSound
<1> QED
  BY <1>2, <1>3, <1>4, <1>5, <1>6, <1>7

LEMMA SlotKept ==
    ASSUME Serial, NEW h \in Handlers, Proceed(h), NEW v \in Users
    PROVE  SlotSound(v)'
<1> DEFINE u == task[h].u
           at == task[h].at
<1>1. SlotSound(v)
  BY Reliable DEF Sound
<1>2. CASE v # u
  <2>1. users'[v] = users[v]
    BY <1>2, Reliable, RowFrame
  <2>2. v \in loggedOut' => v \in loggedOut
    BY <1>2, Reliable, ColumnWrites, HistoryFrame
  <2> QED
    BY <1>1, <2>1, <2>2 DEF SlotSound
<1>3. CASE v = u /\ at \in {"slot", "clearSlot"}
  BY <1>3, Reliable, ColumnWrites DEF SlotSound
<1>4. CASE v = u /\ at = "rotate"
  <2>1. users[u].slot /\ loggedOut' = loggedOut
    BY <1>4, Reliable, HistoryFrame DEF Ready, At
  <2> QED
    BY <1>1, <1>4, <2>1 DEF SlotSound
<1>5. CASE v = u /\ at = "insert"
  <2>1. loggedOut' = loggedOut
    BY <1>5, HistoryFrame
  <2>2. ~users'[u].slot \/ users'[u] = users[u]
    BY <1>5, Reliable, ColumnWrites DEF Ready, At, Fresh
  <2> QED
    BY <1>1, <1>5, <2>1, <2>2 DEF SlotSound
<1>6. CASE v = u /\ at \notin {"slot", "clearSlot", "rotate", "insert"}
  <2>1. users'[v].slot = users[v].slot /\ loggedOut' = loggedOut
    BY <1>6, Reliable, RowFrame, HistoryFrame DEF Kept
  <2> QED
    BY <1>1, <2>1 DEF SlotSound
<1> QED
  BY <1>2, <1>3, <1>4, <1>5, <1>6

LEMMA CodeKept ==
    ASSUME Serial, NEW h \in Handlers, Proceed(h), NEW v \in Users
    PROVE  CodeSound(v)'
<1> DEFINE u == task[h].u
           at == task[h].at
<1>1. CodeSound(v) /\ resets[v] \in Nat /\ mails[v] \in Nat
  BY Reliable DEF Sound
<1>2. CASE v # u
  <2>1. users'[v] = users[v] /\ resets'[v] = resets[v] /\ mails'[v] = mails[v]
    BY <1>2, Reliable, RowFrame, ColumnWrites, HistoryFrame
  <2> QED
    BY <1>1, <2>1 DEF CodeSound
<1>3. CASE v = u /\ at = "writeCode"
  <2>1. mails'[u] = mails[u] + 1 /\ resets' = resets
    BY <1>3, Reliable, ColumnWrites, HistoryFrame
  <2> QED
    BY <1>1, <1>3, <2>1 DEF CodeSound
<1>4. CASE v = u /\ at = "reset"
  <2>1. /\ users[u].code # "none" /\ users'[u].code = "none"
        /\ resets'[u] = resets[u] + 1 /\ mails' = mails
    BY <1>4, Reliable, ColumnWrites, HistoryFrame DEF Ready, At
  <2> QED
    BY <1>1, <1>4, <2>1 DEF CodeSound
<1>5. CASE v = u /\ at \notin {"writeCode", "reset"}
  <2>1. resets' = resets /\ mails' = mails
    BY <1>5, HistoryFrame
  <2>2. users'[u].code # "none" => users[u].code # "none"
    <3>1. CASE at = "insert"
      BY <3>1, Reliable, ColumnWrites DEF Ready, At, Fresh
    <3>2. CASE at = "writeToken"
      BY <3>2, Reliable DEF Ready, At
    <3>3. CASE at \notin {"insert", "writeToken"}
      BY <1>5, <3>3, Reliable, RowFrame DEF Kept
    <3> QED
      BY <3>1, <3>2, <3>3
  <2> QED
    BY <1>1, <1>5, <2>1, <2>2 DEF CodeSound
<1> QED
  BY <1>2, <1>3, <1>4, <1>5

LEMMA FactorKept ==
    ASSUME Serial, NEW h \in Handlers, Proceed(h), NEW v \in Users
    PROVE  FactorSound(v)'
<1> DEFINE u == task[h].u
           at == task[h].at
<1>1. FactorSound(v)
  BY Reliable DEF Sound
<1>2. CASE v # u
  BY <1>1, <1>2, Reliable, RowFrame DEF FactorSound
<1>3. CASE v = u /\ at \in {"clearSecret", "writeSecret"}
  BY <1>3, Reliable, ColumnWrites DEF FactorSound
<1>4. CASE v = u /\ at = "enable"
  <2>1. users[u].secret /\ users'[u].secret = users[u].secret
    BY <1>4, Reliable, RowFrame DEF Ready, At, Kept
  <2> QED
    BY <1>4, <2>1 DEF FactorSound
<1>5. CASE v = u /\ at = "insert"
  BY <1>1, <1>5, Reliable, ColumnWrites DEF Ready, At, Fresh, FactorSound
<1>6. CASE v = u /\ at \notin {"clearSecret", "writeSecret", "enable", "insert"}
  BY <1>1, <1>6, Reliable, RowFrame DEF Kept, FactorSound
<1> QED
  BY <1>2, <1>3, <1>4, <1>5, <1>6

\* The step leaves its handler with what the next step relies on.
LEMMA ReadyKept ==
    ASSUME Serial, NEW h \in Handlers, Proceed(h)
    PROVE  Ready(h)'
<1> DEFINE t == task'[h]
           u == task[h].u
           at == task[h].at
<1>1. Ready(h) /\ u \in Users /\ TypeOK
  BY Reliable
<1>2. CASE t.at = "slot" /\ t.next = "activate"
  <2>1. t.u = u /\ at = "forgive" /\ task[h].row.status \notin Refused
    BY <1>1, <1>2, ProceedSees
  <2>2. users'[u].status \notin Refused
    BY <1>1, <2>1, RowFrame DEF Ready, At, Kept
  <2> QED
    BY <1>2, <2>1, <2>2 DEF Ready, At
<1>3. CASE t.at = "activate"
  <2>1. t.u = u /\ at = "slot" /\ task[h].next = "activate"
    BY <1>1, <1>3, ProceedSees
  <2>2. users'[u].status \notin Refused
    BY <1>1, <2>1, RowFrame DEF Ready, At, Kept
  <2> QED
    BY <1>3, <2>1, <2>2 DEF Ready, At
<1>4. CASE t.at = "enable"
  <2>1. t.u = u /\ at = "readSecret" /\ users[u].secret
    BY <1>1, <1>4, ProceedSees
  <2>2. users'[u].secret
    BY <1>1, <2>1, RowFrame DEF Kept
  <2> QED
    BY <1>4, <2>1, <2>2 DEF Ready, At
<1>5. CASE t.at \in {"restore", "insert"}
  <2>1. t.row = task[h].row /\ Fresh(task[h].row)
    BY <1>1, <1>5, ProceedSees DEF Ready, At
  <2> QED
    BY <1>5, <2>1 DEF Ready, At, Fresh
<1>6. CASE t.at \in {"idle", "writePassword"} \/ (t.at = "slot" /\ t.next = "slot")
  BY <1>6 DEF Ready, At
<1> QED
  BY <1>1, <1>2, <1>3, <1>4, <1>5, <1>6, ProceedSees

-----------------------------------------------------------------------------

LEMMA ProceedBusy ==
    ASSUME NEW h \in Handlers, Proceed(h)
    PROVE  Busy(h)
  BY DEF Proceed, LoginMiss, LoginForgive, GenerateTokens, LoginActivate, RefreshRotate,
     LogoutClear, ChangeRead, ChangeWrite, SetupSecret, EnableRead, EnableWrite,
     DisableWrite, ForgotWrite, VerifyWrite, ResetWrite, Insert, InviteLook, Restore,
     AcceptWrite, DeleteWrite, StatusWrite, At, Busy

\* While one handler runs, the others are idle, and rely on nothing.
LEMMA Alone ==
    ASSUME ~Overlapping, Serial, NEW h \in Handlers,
           Request(h) \/ Proceed(h) \/ HandlerFails(h)
    PROVE  /\ Exclusive'
           /\ \A g \in Handlers \ {h} : Ready(g)'
<1>1. \A g \in Handlers \ {h} : ~Busy(g)
  BY RequestReads, ProceedBusy DEF Quiet, HandlerFails, Serial, Exclusive
<1>2. \A g \in Handlers \ {h} : task'[g].at = "idle"
  BY <1>1, Others DEF Serial, Busy
<1> QED
  BY <1>2 DEF Exclusive, Busy, Ready, At

LEMMA SerialStep == ASSUME ~Overlapping PROVE Serial /\ [Next]_vars => Serial'
<1> SUFFICES ASSUME Serial, [Next]_vars PROVE Serial'
  OBVIOUS
<1>0. TypeOK /\ TypeOK'
  BY NextType DEF Serial
<1>1. ASSUME NEW h \in Handlers, Proceed(h) PROVE Serial'
  <2>1. \A v \in Users : Sound(v)'
    BY <1>1, LockKept, VerdictKept, SlotKept, CodeKept, FactorKept DEF Sound
  <2> QED
    BY <1>0, <1>1, <2>1, ReadyKept, Alone DEF Serial
<1>2. ASSUME NEW h \in Handlers, Request(h) \/ HandlerFails(h) PROVE Serial'
  <2>1. UNCHANGED <<users, misses, verdict, loggedOut, resets, mails>>
    BY <1>2, RequestReads DEF HandlerFails, history
  <2>2. \A v \in Users : Sound(v)'
    BY <2>1 DEF Serial, Sound, LockSound, VerdictSound, SlotSound, CodeSound, FactorSound
  <2>3. Ready(h)'
    <3>1. CASE HandlerFails(h)
      BY <1>0, <3>1 DEF HandlerFails, Finish, TypeOK, Idle, Ready, At
    <3>2. CASE Request(h)
      BY <1>0, <2>1, <3>2, RequestSees DEF Ready, At
    <3> QED
      BY <1>2, <3>1, <3>2
  <2> QED
    BY <1>0, <1>2, <2>2, <2>3, Alone DEF Serial
<1>3. ASSUME NEW u \in Users, LockExpires(u) \/ CodeExpires(u) PROVE Serial'
  <2>1. UNCHANGED <<task, loggedOut, mails, resets, verdict>>
    BY <1>0, <1>3, Expiry
  <2>2. ASSUME NEW v \in Users
        PROVE  /\ users'[v].attempts = users[v].attempts /\ users'[v].exists = users[v].exists
               /\ users'[v].status = users[v].status /\ users'[v].slot = users[v].slot
               /\ users'[v].code = users[v].code /\ users'[v].twoFa = users[v].twoFa
               /\ users'[v].secret = users[v].secret
    BY <1>0, <1>3, ExpiryKeeps
  <2>3. ASSUME NEW v \in Users PROVE Sound(v)'
    <3>1. LockSound(v)'
      <4>1. LockSound(v) /\ misses \in [Users -> Nat] /\ users[v].attempts \in Nat
        BY <1>0 DEF Serial, Sound, TypeOK, Row
      <4>2. misses'[v] = misses[v] \/ misses'[v] = 0
        BY <1>0, <1>3, <4>1, Expiry
      <4>3. (users'[v].locked = users[v].locked) \/ misses'[v] = 0
        BY <1>0, <1>3, Expiry
      <4> QED
        BY <2>2, <4>1, <4>2, <4>3 DEF LockSound, LockAfter
    <3> QED
      BY <2>1, <2>2, <3>1 DEF Serial, Sound, VerdictSound, SlotSound, CodeSound, FactorSound
  <2>4. ASSUME NEW h \in Handlers PROVE Ready(h)'
    <3>1. Ready(h) /\ task[h] \in Task
      BY <1>0 DEF Serial, TypeOK
    <3>2. CASE At(h, "idle")
      BY <2>1, <3>2 DEF Ready, At
    <3>3. CASE ~At(h, "idle")
      BY <2>1, <2>2, <3>1, <3>3 DEF Ready, At, Task
    <3> QED
      BY <3>2, <3>3
  <2> QED
    BY <1>0, <2>1, <2>3, <2>4 DEF Serial, Exclusive, Busy
<1>4. CASE UNCHANGED vars
  BY <1>0, <1>4 DEF vars, history, Serial, Exclusive, Busy, Sound, LockSound, VerdictSound,
     SlotSound, CodeSound, FactorSound, Ready, At
<1> QED
  BY <1>1, <1>2, <1>3, <1>4 DEF Next

\* One request at a time, five failed logins in a row lock the account.
THEOREM FiveMissesLockHolds == ASSUME ~Overlapping PROVE Spec => []FiveMissesLock
<1>1. Serial => FiveMissesLock
  BY DEF Serial, Sound, LockSound, FiveMissesLock
<1> QED
  BY <1>1, InitSerial, SerialStep, PTL DEF Spec

\* One request at a time, nobody gets round a suspension or a block: no login,
\* invitation or failure half way changes the status an administrator has set.
THEOREM BlockedStaysBlockedHolds == ASSUME ~Overlapping PROVE Spec => []BlockedStaysBlocked
<1>1. Serial => BlockedStaysBlocked
  BY DEF Serial, Sound, VerdictSound, BlockedStaysBlocked
<1> QED
  BY <1>1, InitSerial, SerialStep, PTL DEF Spec

\* One request at a time, no refresh token works between a logout and the next login.
THEOREM LogoutEndsSessionHolds == ASSUME ~Overlapping PROVE Spec => []LogoutEndsSession
<1>1. TypeOK => loggedOut \subseteq Users
  BY DEF TypeOK
<1>2. Serial => LogoutEndsSession
  BY <1>1 DEF Serial, Sound, SlotSound, LogoutEndsSession
<1> QED
  BY <1>2, InitSerial, SerialStep, PTL DEF Spec

\* One request at a time, each mailed code sets a password once.
THEOREM ResetsWithinMailsHolds == ASSUME ~Overlapping PROVE Spec => []ResetsWithinMails
<1>1. Serial => ResetsWithinMails
  BY DEF Serial, Sound, CodeSound, ResetsWithinMails
<1> QED
  BY <1>1, InitSerial, SerialStep, PTL DEF Spec

\* One request at a time, two-factor is never on without a secret.
THEOREM TwoFaHasSecretHolds == ASSUME ~Overlapping PROVE Spec => []TwoFaHasSecret
<1>1. Serial => TwoFaHasSecret
  BY DEF Serial, Sound, FactorSound, TwoFaHasSecret
<1> QED
  BY <1>1, InitSerial, SerialStep, PTL DEF Spec

=============================================================================
