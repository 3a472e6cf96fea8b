--------------------------- MODULE PlatformProofs ---------------------------
(* What the runs check of chat, notifications, configuration, branches,    *)
(* roles, files and certificates, for every number of requests, failures,  *)
(* rows and users.  Each part has an inductive invariant of its own, which *)
(* is about its tables and the requests that change them; the shared ones  *)
(* are about requests alone.  FiguresProofs does the same for Reports.     *)
EXTENDS MCPlatform, FiniteSetTheorems, SequenceTheorems, TLAPS

-----------------------------------------------------------------------------
(* Requests.                                                               *)

Shape ==
    /\ task = [h \in Handlers |-> task[h]]
    /\ \A h \in Handlers :
         task[h] = [at |-> task[h].at, on |-> task[h].on, data |-> task[h].data]

\* Two requests that are under way and change the same were noted as such.
OverlapsNoted ==
    \A g, h \in Handlers :
        g # h /\ Busy(g) /\ Busy(h) /\ task[g].on = task[h].on => task[g].on \in overlapped

RequestsInv == Shape /\ OverlapsNoted

\* What a step of h leaves of the requests of the others, and of what was noted.
Moves(h) ==
    /\ RequestsInv'
    /\ \A g \in Handlers \ {h} : task'[g] = task[g]
    /\ overlapped \subseteq overlapped' /\ failed \subseteq failed'

\* Another request that changes the same makes what h begins overlap with it.
Joins(h, on) ==
    \A g \in Handlers \ {h} : Busy(g) /\ task[g].on = on => on \in overlapped'

LEMMA BeginMoves ==
    ASSUME RequestsInv, NEW h \in Handlers, NEW step, NEW on, NEW data, step # "idle",
           Begin(h, step, on, data)
    PROVE  /\ Moves(h)
           /\ task[h].at = "idle"
           /\ task'[h] = [at |-> step, on |-> on, data |-> data]
           /\ Joins(h, on)
           /\ failed' = failed
<1>1. task' = [task EXCEPT ![h] = [at |-> step, on |-> on, data |-> data]]
  BY DEF Begin
<1>2. /\ \A g \in Handlers \ {h} : task'[g] = task[g]
      /\ task'[h] = [at |-> step, on |-> on, data |-> data]
      /\ Shape'
  BY <1>1 DEF RequestsInv, Shape
<1>3. overlapped \subseteq overlapped' /\ Joins(h, on)
  BY DEF Begin, Overlaps, Joins
<1>4. ASSUME NEW f \in Handlers, NEW g \in Handlers, f # g, Busy(f)', Busy(g)',
             task'[f].on = task'[g].on
      PROVE  task'[f].on \in overlapped'
  <2>1. CASE f = h
    BY <1>2, <1>3, <1>4, <2>1 DEF Joins, Busy
  <2>2. CASE g = h
    BY <1>2, <1>3, <1>4, <2>2 DEF Joins, Busy
  <2>3. CASE f # h /\ g # h
    BY <1>2, <1>3, <1>4, <2>3 DEF RequestsInv, OverlapsNoted, Busy
  <2> QED
    BY <2>1, <2>2, <2>3
<1>5. RequestsInv'
  BY <1>2, <1>4 DEF RequestsInv, OverlapsNoted
<1> QED
  BY <1>2, <1>3, <1>5 DEF Moves, Begin, Busy

LEMMA GotoTask ==
    ASSUME Shape, NEW h \in Handlers, NEW step, NEW data, Goto(h, step, data)
    PROVE  /\ Shape'
           /\ task'[h] = [at |-> step, on |-> task[h].on, data |-> data]
           /\ \A g \in Handlers \ {h} : task'[g] = task[g]
<1>1. task' = [task EXCEPT ![h].at = step, ![h].data = data]
  BY DEF Goto
<1>2. \A g \in Handlers \ {h} : task'[g] = task[g]
  BY <1>1 DEF Shape
<1>3. task'[h] = [at |-> step, on |-> task[h].on, data |-> data]
  <2> DEFINE there == [task EXCEPT ![h].at = step]
  <2>1. there[h] = [at |-> step, on |-> task[h].on, data |-> task[h].data]
    BY DEF Shape
  <2>2. h \in DOMAIN there
    BY DEF Shape
  <2>3. task' = [there EXCEPT ![h].data = data]
    BY <1>1
  <2> HIDE DEF there
  <2> QED
    BY <2>1, <2>2, <2>3
<1>4. task' = [g \in Handlers |-> task'[g]]
  BY <1>1 DEF Shape
<1> QED
  BY <1>2, <1>3, <1>4 DEF Shape

\* A request that ends or goes on changes nothing of which it did not know.
LEMMA StaysNoted ==
    ASSUME RequestsInv, NEW h \in Handlers, Shape', Busy(h),
           \A g \in Handlers \ {h} : task'[g] = task[g],
           Busy(h)' => task'[h].on = task[h].on,
           overlapped' = overlapped, failed \subseteq failed'
    PROVE  Moves(h)
<1>1. ASSUME NEW f \in Handlers, NEW g \in Handlers, f # g, Busy(f)', Busy(g)',
             task'[f].on = task'[g].on
      PROVE  task'[f].on \in overlapped'
  <2>1. \A e \in {f, g} : Busy(e) /\ task'[e].on = task[e].on
    BY <1>1 DEF Busy
  <2> QED
    BY <1>1, <2>1 DEF RequestsInv, OverlapsNoted
<1> QED
  BY <1>1 DEF Moves, RequestsInv, OverlapsNoted

LEMMA GotoMoves ==
    ASSUME RequestsInv, NEW h \in Handlers, NEW step, NEW data, Busy(h), Goto(h, step, data)
    PROVE  /\ Moves(h)
           /\ task'[h] = [at |-> step, on |-> task[h].on, data |-> data]
           /\ overlapped' = overlapped /\ failed' = failed
<1>1. overlapped' = overlapped /\ failed' = failed
  BY DEF Goto
<1> QED
  BY <1>1, GotoTask, StaysNoted DEF RequestsInv

LEMMA AnswerMoves ==
    ASSUME RequestsInv, NEW h \in Handlers, Busy(h), Answer(h)
    PROVE  /\ Moves(h)
           /\ task'[h] = Idle
           /\ overlapped' = overlapped /\ failed' = failed
<1>1. /\ overlapped' = overlapped /\ failed' = failed
      /\ task' = [task EXCEPT ![h] = Idle]
  BY DEF Answer
<1>2. Shape' /\ task'[h] = Idle /\ \A g \in Handlers \ {h} : task'[g] = task[g]
  BY <1>1 DEF RequestsInv, Shape, Idle
<1>3. ~Busy(h)'
  BY <1>2 DEF Busy, Idle
<1> QED
  BY <1>1, <1>2, <1>3, StaysNoted

LEMMA BreaksMoves ==
    ASSUME RequestsInv, NEW h \in Handlers, Breaks(h)
    PROVE  /\ Moves(h)
           /\ task'[h] = Idle
           /\ overlapped' = overlapped /\ task[h].on \in failed'
<1>1. /\ overlapped' = overlapped /\ failed' = failed \cup {task[h].on} /\ Busy(h)
      /\ task' = [task EXCEPT ![h] = Idle]
  BY DEF Breaks
<1>2. Shape' /\ task'[h] = Idle /\ \A g \in Handlers \ {h} : task'[g] = task[g]
  BY <1>1 DEF RequestsInv, Shape, Idle
<1>3. ~Busy(h)'
  BY <1>2 DEF Busy, Idle
<1> QED
  BY <1>1, <1>2, <1>3, StaysNoted

LEMMA AtOnceMoves ==
    ASSUME RequestsInv, NEW h \in Handlers, NEW on, AtOnce(h, on)
    PROVE  /\ Moves(h)
           /\ task' = task
           /\ Joins(h, on)
           /\ failed' = failed
<1>1. task' = task /\ failed' = failed /\ overlapped \subseteq overlapped'
  BY DEF AtOnce, Overlaps
<1>2. Joins(h, on)
  BY DEF AtOnce, Overlaps, Joins
<1>3. RequestsInv'
  BY <1>1 DEF RequestsInv, Shape, OverlapsNoted, Busy
<1> QED
  BY <1>1, <1>2, <1>3 DEF Moves

LEMMA ControlStarts == ASSUME ControlInit PROVE RequestsInv
<1>1. \A h \in Handlers : task[h] = Idle
  BY DEF ControlInit
<1> QED
  BY <1>1 DEF ControlInit, RequestsInv, Shape, OverlapsNoted, Busy, Idle

\* h steps from one statement to another, or begins or ends.
Passes(h, from, to) == Moves(h) /\ task[h].at = from /\ task'[h].at = to

LEMMA BeginPasses ==
    ASSUME RequestsInv, NEW h \in Handlers, NEW step, NEW on, NEW data, step # "idle",
           Begin(h, step, on, data)
    PROVE  Passes(h, "idle", step)
<1>1. task'[h] = [at |-> step, on |-> on, data |-> data]
  BY BeginMoves
<1> QED
  BY <1>1, BeginMoves DEF Passes

LEMMA GotoPasses ==
    ASSUME RequestsInv, NEW h \in Handlers, NEW step, NEW data, Busy(h), Goto(h, step, data)
    PROVE  Passes(h, task[h].at, step)
<1>1. task'[h] = [at |-> step, on |-> task[h].on, data |-> data]
  BY GotoMoves
<1> QED
  BY <1>1, GotoMoves DEF Passes

LEMMA AnswerPasses ==
    ASSUME RequestsInv, NEW h \in Handlers, Busy(h), Answer(h)
    PROVE  Passes(h, task[h].at, "idle")
BY AnswerMoves DEF Passes, Idle

LEMMA AtOncePasses ==
    ASSUME RequestsInv, NEW h \in Handlers, NEW on, AtOnce(h, on)
    PROVE  Passes(h, "idle", "idle")
BY AtOnceMoves DEF AtOnce, Passes, Busy
-----------------------------------------------------------------------------
(* Requests await only the statements of the part that a behaviour is about. *)

ChatSteps      == {"room-insert", "message-insert", "room-find", "room-touch", "mark", "blank",
                   "count"}
MessagingSteps == {"template", "notice-insert", "user-find", "sent-update", "failed-update",
                   "notice-remove"}
TenantSteps    == {"merge-write", "tenant-load", "tenant-save", "branch-create", "branch-edit"}
RolesSteps     == {"seed", "roles-count", "permissions-load", "permissions-write",
                   "holders-count", "role-find", "role-remove", "assign", "user-delete",
                   "user-restore"}
OfficeSteps    == {"file-insert", "object-delete", "file-remove", "stream", "pdf", "pdf-address",
                   "issue-address", "revoke-load", "revoke", "lesson-write", "lesson-find",
                   "lesson-remove"}
ReportsSteps   == {"ask", "compose"}
ViewsSteps     == {"view", "composed"}

StepsOf(part) ==
    CASE part = "chat"      -> ChatSteps
      [] part = "messaging" -> MessagingSteps
      [] part = "tenant"    -> TenantSteps
      [] part = "roles"     -> RolesSteps
      [] part = "office"    -> OfficeSteps
      [] part = "reports"   -> ReportsSteps
      [] part = "views"     -> ViewsSteps
      [] OTHER              -> {}

Within(S) == Shape /\ \A h \in Handlers : task[h] = Idle \/ task[h].at \in S

KeepsToPart == Within(StepsOf(focus))

LEMMA StaysWithin ==
    ASSUME NEW S, Within(S), NEW h \in Handlers
    PROVE  /\ \A step, on, data : step \in S /\ Begin(h, step, on, data) => Within(S)'
           /\ \A step, data : step \in S /\ Goto(h, step, data) => Within(S)'
           /\ Answer(h) \/ Breaks(h) => Within(S)'
           /\ Reads(h) \/ (\E on : AtOnce(h, on)) \/ UNCHANGED control => Within(S)'
<1>1. ASSUME NEW step, NEW on, NEW data, step \in S, Begin(h, step, on, data)
      PROVE  Within(S)'
  <2>1. task' = [task EXCEPT ![h] = [at |-> step, on |-> on, data |-> data]]
    BY <1>1 DEF Begin
  <2>2. task'[h] = [at |-> step, on |-> on, data |-> data] /\ Shape'
    BY <2>1 DEF Within, Shape
  <2>3. \A g \in Handlers \ {h} : task'[g] = task[g]
    BY <2>1 DEF Within, Shape
  <2> QED
    BY <1>1, <2>2, <2>3 DEF Within
<1>2. ASSUME NEW step, NEW data, step \in S, Goto(h, step, data)
      PROVE  Within(S)'
  <2>1. /\ task'[h] = [at |-> step, on |-> task[h].on, data |-> data] /\ Shape'
        /\ \A g \in Handlers \ {h} : task'[g] = task[g]
    BY <1>2, GotoTask DEF Within
  <2> QED
    BY <1>2, <2>1 DEF Within
<1>3. ASSUME Answer(h) \/ Breaks(h) PROVE Within(S)'
  <2>1. task' = [task EXCEPT ![h] = Idle]
    BY <1>3 DEF Answer, Breaks
  <2>2. Shape' /\ task'[h] = Idle /\ \A g \in Handlers \ {h} : task'[g] = task[g]
    BY <2>1 DEF Within, Shape, Idle
  <2> QED
    BY <2>2 DEF Within
<1>4. ASSUME Reads(h) \/ (\E on : AtOnce(h, on)) \/ UNCHANGED control PROVE Within(S)'
  <2>1. task' = task
    BY <1>4 DEF Reads, AtOnce, control
  <2> QED
    BY <2>1 DEF Within, Shape
<1> QED
  BY <1>1, <1>2, <1>3, <1>4

\* What others write marks the requests that are under way as torn.
LEMMA TornTasks ==
    ASSUME Shape, Writes \/ Tears
    PROVE  /\ Shape'
           /\ \A h \in Handlers :
                /\ ~Busy(h) => task'[h] = task[h]
                /\ Busy(h) => task'[h] = [at |-> task[h].at, on |-> task[h].on,
                                          data |-> [task[h].data EXCEPT !.torn = TRUE]]
<1>1. task' = [h \in Handlers |->
                 IF Busy(h) THEN [task[h] EXCEPT !.data.torn = TRUE] ELSE task[h]]
  BY DEF Writes, Tears
<1>2. ASSUME NEW h \in Handlers, Busy(h)
      PROVE  task'[h] = [at |-> task[h].at, on |-> task[h].on,
                         data |-> [task[h].data EXCEPT !.torn = TRUE]]
  <2>1. task[h] = [at |-> task[h].at, on |-> task[h].on, data |-> task[h].data]
    BY DEF Shape
  <2>2. task'[h] = [task[h] EXCEPT !.data.torn = TRUE]
    BY <1>1, <1>2
  <2>3. task'[h] = [task[h] EXCEPT !.data = [task[h].data EXCEPT !.torn = TRUE]]
    BY <2>2
  <2> DEFINE torn == [task[h].data EXCEPT !.torn = TRUE]
  <2>4. task'[h] = [task[h] EXCEPT !.data = torn]
    BY <2>3
  <2> HIDE DEF torn
  <2>5. task'[h] = [at |-> task[h].at, on |-> task[h].on, data |-> torn]
    BY <2>1, <2>4
  <2> QED
    BY <2>5 DEF torn
<1>3. ASSUME NEW h \in Handlers, ~Busy(h) PROVE task'[h] = task[h]
  BY <1>1, <1>3
<1>4. ASSUME NEW h \in Handlers
      PROVE  task'[h] = [at |-> task'[h].at, on |-> task'[h].on, data |-> task'[h].data]
  <2>1. CASE Busy(h)
    <3> DEFINE torn == [task[h].data EXCEPT !.torn = TRUE]
    <3>1. task'[h] = [at |-> task[h].at, on |-> task[h].on, data |-> torn]
      BY <1>2, <2>1
    <3> HIDE DEF torn
    <3> QED
      BY <3>1
  <2>2. CASE ~Busy(h)
    BY <1>3, <2>2 DEF Shape
  <2> QED
    BY <2>1, <2>2
<1>5. task' = [h \in Handlers |-> task'[h]]
  BY <1>1
<1>6. Shape'
  BY <1>4, <1>5 DEF Shape
<1> QED
  BY <1>2, <1>3, <1>6

LEMMA TornWithin == ASSUME NEW S, Within(S), Writes \/ Tears PROVE Within(S)'
<1>1. /\ Shape'
      /\ \A h \in Handlers :
           /\ ~Busy(h) => task'[h] = task[h]
           /\ Busy(h) => task'[h] = [at |-> task[h].at, on |-> task[h].on,
                                     data |-> [task[h].data EXCEPT !.torn = TRUE]]
  BY TornTasks DEF Within
<1>2. ASSUME NEW h \in Handlers PROVE task'[h] = Idle \/ task'[h].at \in S
  <2>1. CASE ~Busy(h)
    BY <1>1, <2>1 DEF Within
  <2>2. CASE Busy(h)
    <3> DEFINE torn == [task[h].data EXCEPT !.torn = TRUE]
    <3>1. task'[h] = [at |-> task[h].at, on |-> task[h].on, data |-> torn]
      BY <1>1, <2>2
    <3> HIDE DEF torn
    <3>2. task'[h].at = task[h].at
      BY <3>1
    <3>3. task[h].at \in S
      BY <2>2 DEF Within, Busy, Idle
    <3> QED
      BY <3>2, <3>3
  <2> QED
    BY <2>1, <2>2
<1> QED
  BY <1>1, <1>2 DEF Within

LEMMA ChatWithin == ASSUME Within(ChatSteps), ChatNext PROVE Within(ChatSteps)'
<1>1. ASSUME NEW h \in Handlers, NEW u \in ChatUsers, NEW v \in ChatUsers,
             DirectFound(h, u, v) \/ DirectMissing(h, u, v)
      PROVE  Within(ChatSteps)'
  BY <1>1, StaysWithin DEF ChatSteps, DirectFound, DirectMissing
<1>2. ASSUME NEW h \in Handlers, NEW r \in Rooms, NEW u \in ChatUsers, NEW v \in ChatUsers,
             CreateGroupRoom(h, r, <<u, v>>)
      PROVE  Within(ChatSteps)'
  BY <1>2, StaysWithin DEF ChatSteps, CreateGroupRoom
<1>3. ASSUME NEW h \in Handlers, NEW r \in Rooms, NEW u \in ChatUsers,
             SendMessage(h, r, u) \/ SendConversationMessage(h, r, u) \/ MarkConversationRead(h, r, u)
      PROVE  Within(ChatSteps)'
  BY <1>3, StaysWithin DEF ChatSteps, SendMessage, SendConversationMessage, Post, MarkConversationRead
<1>4. ASSUME NEW h \in Handlers, \/ RoomFind(h) \/ MessageInsert(h) \/ RoomTouch(h) \/ MarkAll(h)
                                 \/ Blank(h) \/ CountUnread(h) \/ ChatBreaks(h)
                                 \/ \E i \in 1 .. MaxMessages : DeleteMessage(h, i)
      PROVE  Within(ChatSteps)'
  BY <1>4, StaysWithin DEF ChatSteps, RoomFind, MessageInsert, RoomTouch, MarkAll, Blank, CountUnread,
     ChatBreaks, DeleteMessage
<1>5. ASSUME NEW s \in Sockets, \/ \E u \in ChatUsers : Connect(s, u)
                                \/ Disconnect(s)
                                \/ \E h \in Handlers, r \in Rooms : SocketMarksRead(h, s, r)
      PROVE  Within(ChatSteps)'
  BY <1>5, StaysWithin, RequestsAssumption DEF Connect, Disconnect, SocketMarksRead
<1>6. CASE \E h \in Handlers, r \in Rooms : RoomInsert(h, r)
  BY <1>6, StaysWithin DEF ChatSteps, RoomInsert
<1>7. CASE \E h \in Handlers, u \in ChatUsers : GetConversations(h, u)
  BY <1>7, StaysWithin DEF ChatSteps, GetConversations
<1> QED
  BY <1>1, <1>2, <1>3, <1>4, <1>5, <1>6, <1>7 DEF ChatNext

LEMMA TenantWithin == ASSUME Within(TenantSteps), TenantNext PROVE Within(TenantSteps)'
<1>1. ASSUME NEW h \in Handlers, NEW own, NEW change, NEW newJson, NEW newBranches,
             FindTenant(h, own, change, newJson, newBranches)
      PROVE  Within(TenantSteps)'
  BY <1>1, StaysWithin DEF TenantSteps, FindTenant
<1>2. ASSUME NEW h \in Handlers, NEW c, NEW p,
             \/ MergeRead(h, c, p) \/ UpdateSystemConfig(h, p)
             \/ \E step \in {"branch-create", "branch-edit"} : ManageBranches(h, step)
      PROVE  Within(TenantSteps)'
  BY <1>2, StaysWithin DEF TenantSteps, MergeRead, UpdateSystemConfig, ManageBranches
<1>3. ASSUME NEW h \in Handlers, NEW c, NEW p,
             \/ MergeInto(h, c, p) \/ UpdateTenant(h, c, p) \/ AddBranch(h, p)
             \/ ReplaceBranches(h, p)
      PROVE  Within(TenantSteps)'
  BY <1>1, <1>3 DEF MergeInto, UpdateTenant, AddBranch, ReplaceBranches
<1>4. ASSUME NEW h \in Handlers, NEW b,
             \/ CreateBranch(h, b) \/ MergeWrite(h) \/ TenantLoad(h) \/ TenantSave(h)
             \/ EditBranch(h) \/ TenancyBreaks(h)
      PROVE  Within(TenantSteps)'
  BY <1>4, StaysWithin DEF TenantSteps, CreateBranch, MergeWrite, TenantLoad, TenantSave, EditBranch,
     TenancyBreaks
<1> QED
  BY <1>2, <1>3, <1>4 DEF TenantNext

LEMMA OfficeWithin == ASSUME Within(OfficeSteps), OfficeNext PROVE Within(OfficeSteps)'
BY StaysWithin DEF OfficeSteps, OfficeNext, Upload, DeleteByKey, ServeFile, Issue, Revoke, CreateSchedule,
   UpdateSchedule, RemoveSchedule, FileInsert, ObjectDelete, FileRemove, Stream, GeneratePdf,
   PdfAddress, IssueAddress, RevokeLoad, RevokeSave, LessonWrite, LessonFind, LessonRemove,
   OfficeBreaks

LEMMA ReportsWithin == ASSUME Within(ReportsSteps), ReportsNext PROVE Within(ReportsSteps)'
<1>1. ASSUME NEW h \in Handlers, NEW name, NEW filter, AskReport(h, name, filter)
      PROVE  Within(ReportsSteps)'
  BY <1>1, StaysWithin DEF ReportsSteps, AskReport
<1>2. ASSUME NEW h \in Handlers, RunQuery(h) \/ SendReport(h) \/ ReportsBreak(h)
      PROVE  Within(ReportsSteps)'
  BY <1>2, StaysWithin DEF ReportsSteps, RunQuery, SendReport, ReportsBreak
<1>3. ASSUME \/ \E p \in Bills : PayBill(p) \/ SettleInvoice(p) \/ RefundBill(p)
             \/ \E u \in Pupils : RemovePupil(u) \/ \E b \in BranchNames : MovePupil(u, b)
             \/ \E e \in Employees : HireOrFire(e) \/ \E n \in Salaries : UpdateSalary(e, n)
             \/ \E list \in BranchLists : Relist(list)
      PROVE  Writes
  BY <1>3 DEF PayBill, SettleInvoice, RefundBill, RemovePupil, MovePupil, HireOrFire,
     UpdateSalary, Relist
<1> QED
  BY <1>1, <1>2, <1>3, TornWithin DEF ReportsNext

LEMMA ViewsWithin == ASSUME Within(ViewsSteps), ViewsNext PROVE Within(ViewsSteps)'
<1>1. ASSUME NEW h \in Handlers, NEW kind, NEW of, NEW page, OpenView(h, kind, of, page)
      PROVE  Within(ViewsSteps)'
  BY <1>1, StaysWithin DEF ViewsSteps, OpenView
<1>2. ASSUME NEW h \in Handlers, RunStatement(h) \/ SendView(h) \/ ViewsBreak(h) PROVE Within(ViewsSteps)'
  BY <1>2, StaysWithin DEF ViewsSteps, RunStatement, SendView, ViewsBreak
<1>3. ASSUME NEW g \in Classes,
             \/ DropClass(g) \/ \E t \in Tutors : HandOver(g, t)
             \/ \E s \in Learners : JoinClass(g, s) \/ LeaveClass(g, s)
             \/ \E l \in Texts : AddText(l, g)
             \/ \E t \in Tutors, s \in Learners, day \in Days, status \in RollStatuses :
                  MarkDay(t, g, s, day, status)
      PROVE  Tears
  BY <1>3 DEF DropClass, HandOver, JoinClass, LeaveClass, AddText, MarkDay
<1>4. ASSUME NEW c \in Subjects, \/ \E t \in Tutors : LeadCourse(c, t)
                                 \/ \E s \in Learners : JoinCourse(s, c)
      PROVE  Tears
  BY <1>4 DEF LeadCourse, JoinCourse
<1>5. ASSUME NEW w \in Works, \/ DropWork(w) \/ \E t \in Tutors, g \in Classes : SetWork(w, t, g)
                              \/ \E s \in Learners : HandIn(w, s) \/ \E n \in Scores : GradeWork(w, s, n)
      PROVE  Tears
  BY <1>5 DEF DropWork, SetWork, HandIn, GradeWork
<1>6. ASSUME NEW e \in Tests, DropTest(e) \/ \E t \in Tutors : SetTest(e, t) PROVE Tears
  BY <1>6 DEF DropTest, SetTest
<1> QED
  BY <1>1, <1>2, <1>3, <1>4, <1>5, <1>6, TornWithin DEF ViewsNext

LEMMA MessagingWithin == ASSUME Within(MessagingSteps), MessagingNext PROVE Within(MessagingSteps)'
<1>1. ASSUME NEW h \in Handlers, NEW u, NEW c, NEW step \in {"template", "notice-insert"},
             Notify(h, u, c, step)
      PROVE  Within(MessagingSteps)'
  BY <1>1, StaysWithin DEF MessagingSteps, Notify
<1>2. ASSUME NEW h \in Handlers, NEW s \in Strangers, NotifyInvoice(h, s) PROVE Within(MessagingSteps)'
  BY <1>1, <1>2 DEF NotifyInvoice
<1>3. ASSUME NEW to \in [Handlers -> Readers], Remind(to) PROVE Within(MessagingSteps)'
  <2>1. \A h \in Handlers :
          task'[h] = [at |-> "template", on |-> ToTag(to[h]), data |-> Payload(to[h], "in_app")]
    BY <1>3 DEF Remind
  <2>2. Shape'
    BY <1>3, <2>1 DEF Remind, Shape
  <2>3. ASSUME NEW h \in Handlers PROVE task'[h].at = "template"
    <3>1. task'[h] = [at |-> "template", on |-> ToTag(to[h]), data |-> Payload(to[h], "in_app")]
      BY <2>1
    <3> QED
      BY <3>1
  <2> QED
    BY <2>2, <2>3 DEF Within, MessagingSteps
<1>4. ASSUME NEW h \in Handlers, NEW n \in Notices, NoticeInsert(h, n) PROVE Within(MessagingSteps)'
  BY <1>4, StaysWithin DEF MessagingSteps, NoticeInsert
<1>5. ASSUME NEW h \in Handlers, DeliveryFails(h) PROVE Within(MessagingSteps)'
  <2>1. task' = [task EXCEPT ![h].at = "failed-update"]
    BY <1>5 DEF DeliveryFails
  <2>2. task[h] = [at |-> task[h].at, on |-> task[h].on, data |-> task[h].data]
    BY DEF Within, Shape
  <2>3. task'[h] = [at |-> "failed-update", on |-> task[h].on, data |-> task[h].data]
    BY <2>1, <2>2 DEF Within, Shape
  <2>4. Shape' /\ \A g \in Handlers \ {h} : task'[g] = task[g]
    BY <2>1, <2>3 DEF Within, Shape
  <2>5. task'[h].at = "failed-update"
    BY <2>3
  <2> QED
    BY <2>4, <2>5 DEF Within, MessagingSteps
<1>6. ASSUME NEW h \in Handlers,
             \/ TemplateFind(h) \/ NoticeRejected(h) \/ UserFind(h) \/ SentUpdate(h)
             \/ FailedUpdate(h) \/ MessagingBreaks(h) \/ NoticeRemove(h)
      PROVE  Within(MessagingSteps)'
  BY <1>6, StaysWithin DEF MessagingSteps, TemplateFind, NoticeRejected, UserFind, SentUpdate, FailedUpdate,
     MessagingBreaks, NoticeRemove
<1>7. ASSUME NEW h \in Handlers, NEW u \in Readers, NEW N, MarkRead(h, u, N) PROVE Within(MessagingSteps)'
  BY <1>7, StaysWithin DEF MessagingSteps, MarkRead
<1>8. ASSUME NEW h \in Handlers, NEW u \in Readers, NEW n \in Notices, RemoveNotice(h, u, n)
      PROVE  Within(MessagingSteps)'
  BY <1>8, StaysWithin DEF MessagingSteps, RemoveNotice
<1>9. ASSUME Restart PROVE Within(MessagingSteps)'
  <2>1. task' = [h \in Handlers |-> Idle]
    BY <1>9 DEF Restart
  <2> QED
    BY <2>1 DEF Within, Shape, At, Idle
<1> QED
  BY <1>1, <1>2, <1>3, <1>4, <1>5, <1>6, <1>7, <1>8, <1>9 DEF MessagingNext

LEMMA RolesWithin == ASSUME Within(RolesSteps), RolesNext PROVE Within(RolesSteps)'
BY StaysWithin DEF RolesSteps, RolesNext, CreateRole, UpdateRolePermissions, DeleteRole, RemoveRole,
   AssignRole, RevokeRole, SeedRole, ListRoles, RolesFind, RolesCount, PermissionsLoad, PermissionsWrite,
   HoldersCount, RoleFind, RoleRemove, RoleAssign, FindUser, DeleteUser, RestoreUser, TenancyBreaks

LEMMA KeepsToPartHolds == Spec => []KeepsToPart
<1>1. Init => KeepsToPart
  <2> SUFFICES ASSUME Init PROVE KeepsToPart
    OBVIOUS
  <2>1. RequestsInv /\ \A h \in Handlers : task[h] = Idle
    BY ControlStarts DEF Init, ControlInit
  <2> QED
    BY <2>1 DEF RequestsInv, KeepsToPart, Within
<1>2. KeepsToPart /\ [Next]_vars => KeepsToPart'
  <2> SUFFICES ASSUME KeepsToPart, [Next]_vars PROVE KeepsToPart'
    OBVIOUS
  <2> DEFINE S == StepsOf(focus)
  <2>1. focus' = focus /\ Within(S)
    BY DEF Next, vars, KeepsToPart
  <2>2. CASE Next
    <3>1. CASE focus = "chat" /\ ChatNext
      BY <2>1, <3>1, ChatWithin DEF StepsOf, KeepsToPart
    <3>2. CASE focus = "messaging" /\ MessagingNext
      BY <2>1, <3>2, MessagingWithin DEF StepsOf, KeepsToPart
    <3>3. CASE focus = "tenant" /\ TenantNext
      BY <2>1, <3>3, TenantWithin DEF StepsOf, KeepsToPart
    <3>4. CASE focus = "roles" /\ RolesNext
      BY <2>1, <3>4, RolesWithin DEF StepsOf, KeepsToPart
    <3>5. CASE focus = "office" /\ OfficeNext
      BY <2>1, <3>5, OfficeWithin DEF StepsOf, KeepsToPart
    <3>6. CASE focus = "reports" /\ ReportsNext
      BY <2>1, <3>6, ReportsWithin DEF StepsOf, KeepsToPart
    <3>7. CASE focus = "views" /\ ViewsNext
      BY <2>1, <3>7, ViewsWithin DEF StepsOf, KeepsToPart
    <3> QED
      BY <2>2, <3>1, <3>2, <3>3, <3>4, <3>5, <3>6, <3>7 DEF Next
  <2>3. CASE UNCHANGED vars
    <3>1. task' = task
      BY <2>3 DEF vars, control
    <3> QED
      BY <2>1, <3>1 DEF KeepsToPart, Within, Shape
  <2> QED
    BY <2>2, <2>3
<1> QED
  BY <1>1, <1>2, PTL DEF Spec
-----------------------------------------------------------------------------
(* Files.                                                                  *)

FileStep(h) == At(h, "file-insert") \/ At(h, "object-delete") \/ At(h, "file-remove")

FileStates == {"absent", "live", "removed"}

FilesTyped == files \in [FileKeys -> FileStates] /\ storage \subseteq FileKeys

\* What a request for a file knows of its row and its object.
FileAtWork(h) ==
    LET k == Data(h) IN
    /\ FileStep(h) => k \in FileKeys /\ task[h].on = FileTag(k)
    /\ At(h, "file-insert") => files[k] = "absent" /\ k \in storage
    /\ At(h, "object-delete") \/ At(h, "file-remove") => files[k] # "absent"
    /\ At(h, "file-remove") => k \notin storage

\* Each upload has a key of its own.
UploadsApart ==
    \A g, h \in Handlers :
        g # h /\ At(g, "file-insert") /\ At(h, "file-insert") => Data(g) # Data(h)

FilesInv ==
    /\ FilesTyped
    /\ \A h \in Handlers : FileAtWork(h)
    /\ UploadsApart
    /\ FilesMatchStorage

\* Whatever touches no file, and a request for one that fails.
LEMMA OthersKeepFiles ==
    ASSUME FilesInv, NEW h \in Handlers, Moves(h), UNCHANGED <<storage, files>>,
           ~FileStep(h)', FileStep(h) => task[h].on \in failed'
    PROVE  FilesInv'
<1>1. \A g \in Handlers : FileAtWork(g)'
  <2> TAKE g \in Handlers
  <2>1. CASE g = h
    BY <2>1 DEF FileAtWork, FileStep, At
  <2>2. CASE g # h
    BY <2>2 DEF FilesInv, FileAtWork, FileStep, At, Data, Moves
  <2> QED
    BY <2>1, <2>2
<1>2. UploadsApart'
  BY DEF FilesInv, UploadsApart, FileStep, At, Data, Moves
<1>3. FilesMatchStorage'
  <2> SUFFICES ASSUME NEW k \in FileKeys, (FileTag(k) \notin failed)',
                      NEW step \in {"file-insert", "file-remove"},
                      \E g \in Handlers : At(g, step) /\ Data(g) = k
               PROVE  \E g \in Handlers : (At(g, step) /\ Data(g) = k)'
    BY DEF FilesInv, FilesMatchStorage, Moves
  <2>1. PICK g \in Handlers : At(g, step) /\ Data(g) = k
    OBVIOUS
  <2>2. g # h
    BY <2>1 DEF FilesInv, FileAtWork, FileStep, At
  <2> QED
    BY <2>1, <2>2 DEF At, Data, Moves
<1> QED
  BY <1>1, <1>2, <1>3 DEF FilesInv, FilesTyped

LEMMA UploadKeepsFiles ==
    ASSUME RequestsInv, FilesInv, NEW h \in Handlers, NEW k \in FileKeys, Upload(h, k)
    PROVE  FilesInv'
<1>1. /\ Moves(h) /\ task[h].at = "idle" /\ failed' = failed
      /\ task'[h] = [at |-> "file-insert", on |-> FileTag(k), data |-> k]
  BY BeginMoves DEF Upload
<1>2. files' = files /\ storage' = storage \cup {k} /\ files[k] = "absent" /\ k \notin storage
  BY DEF Upload
<1>3. \A g \in Handlers : FileAtWork(g)'
  <2> TAKE g \in Handlers
  <2>1. CASE g = h
    BY <1>1, <1>2, <2>1 DEF FileAtWork, FileStep, At, Data
  <2>2. CASE g # h
    BY <1>1, <1>2, <2>2 DEF FilesInv, FileAtWork, FileStep, At, Data, Moves
  <2> QED
    BY <2>1, <2>2
<1>4. UploadsApart'
  <2>1. \A g \in Handlers : At(g, "file-insert") => Data(g) # k
    BY <1>2 DEF FilesInv, FileAtWork
  <2> QED
    BY <1>1, <2>1 DEF FilesInv, UploadsApart, At, Data, Moves
<1>5. FilesMatchStorage'
  <2>1. ASSUME NEW j \in FileKeys, NEW g \in Handlers,
               At(g, "file-insert") \/ At(g, "file-remove"), Data(g) = j
        PROVE  UNCHANGED <<At(g, "file-insert"), At(g, "file-remove"), Data(g)>>
    BY <1>1, <2>1 DEF At, Data, Moves
  <2>2. At(h, "file-insert")' /\ Data(h)' = k
    BY <1>1 DEF At, Data
  <2> QED
    BY <1>1, <1>2, <2>1, <2>2 DEF FilesInv, FilesMatchStorage
<1> QED
  BY <1>2, <1>3, <1>4, <1>5 DEF FilesInv, FilesTyped

LEMMA FileInsertKeepsFiles ==
    ASSUME RequestsInv, FilesInv, NEW h \in Handlers, FileInsert(h)
    PROVE  FilesInv'
<1> DEFINE k == Data(h)
<1>1. Moves(h) /\ task'[h] = Idle /\ failed' = failed /\ At(h, "file-insert")
  BY AnswerMoves DEF FileInsert, At, Busy
<1>2. files' = [files EXCEPT ![k] = "live"] /\ storage' = storage
  BY DEF FileInsert
<1>3. k \in FileKeys /\ files[k] = "absent" /\ k \in storage
  BY <1>1 DEF FilesInv, FileAtWork, FileStep
<1>4. \A g \in Handlers : FileAtWork(g)'
  <2> TAKE g \in Handlers
  <2>1. CASE g = h
    BY <1>1, <2>1 DEF FileAtWork, FileStep, At, Idle
  <2>2. CASE g # h
    <3>1. task'[g] = task[g]
      BY <1>1, <2>2 DEF Moves
    <3>2. At(g, "file-insert") => Data(g) # k
      BY <1>1, <2>2 DEF FilesInv, UploadsApart
    <3> QED
      BY <1>2, <1>3, <3>1, <3>2 DEF FilesInv, FilesTyped, FileAtWork, FileStep, At, Data
  <2> QED
    BY <2>1, <2>2
<1>5. UploadsApart'
  BY <1>1 DEF FilesInv, UploadsApart, At, Data, Moves, Idle
<1>6. FilesMatchStorage'
  <2>1. ASSUME NEW j \in FileKeys \ {k}, NEW g \in Handlers,
               At(g, "file-insert") \/ At(g, "file-remove"), Data(g) = j
        PROVE  UNCHANGED <<At(g, "file-insert"), At(g, "file-remove"), Data(g)>>
    BY <1>1, <2>1 DEF At, Data, Moves
  <2>2. \A j \in FileKeys \ {k} : files'[j] = files[j]
    BY <1>2 DEF FilesInv, FilesTyped
  <2>3. files'[k] = "live" /\ k \in storage'
    BY <1>2, <1>3 DEF FilesInv, FilesTyped
  <2> HIDE DEF k
  <2> QED
    BY <1>1, <1>2, <2>1, <2>2, <2>3 DEF FilesInv, FilesMatchStorage
<1> QED
  BY <1>2, <1>3, <1>4, <1>5, <1>6 DEF FilesInv, FilesTyped, FileStates

LEMMA DeleteByKeyKeepsFiles ==
    ASSUME RequestsInv, FilesInv, NEW h \in Handlers, NEW k \in FileKeys, DeleteByKey(h, k)
    PROVE  FilesInv'
<1>1. /\ Moves(h) /\ task[h].at = "idle" /\ failed' = failed
      /\ task'[h] = [at |-> "object-delete", on |-> FileTag(k), data |-> k]
  BY BeginMoves DEF DeleteByKey
<1>2. files' = files /\ storage' = storage /\ files[k] = "live"
  BY DEF DeleteByKey, officeTables
<1>3. \A g \in Handlers : FileAtWork(g)'
  <2> TAKE g \in Handlers
  <2>1. CASE g = h
    BY <1>1, <1>2, <2>1 DEF FileAtWork, FileStep, At, Data
  <2>2. CASE g # h
    BY <1>1, <1>2, <2>2 DEF FilesInv, FileAtWork, FileStep, At, Data, Moves
  <2> QED
    BY <2>1, <2>2
<1>4. UploadsApart'
  BY <1>1 DEF FilesInv, UploadsApart, At, Data, Moves
<1>5. FilesMatchStorage'
  <2>1. ASSUME NEW g \in Handlers, At(g, "file-insert") \/ At(g, "file-remove")
        PROVE  UNCHANGED <<At(g, "file-insert"), At(g, "file-remove"), Data(g)>>
    BY <1>1, <2>1 DEF At, Data, Moves
  <2> QED
    BY <1>1, <1>2, <2>1 DEF FilesInv, FilesMatchStorage
<1> QED
  BY <1>2, <1>3, <1>4, <1>5 DEF FilesInv, FilesTyped

LEMMA ObjectDeleteKeepsFiles ==
    ASSUME RequestsInv, FilesInv, NEW h \in Handlers, ObjectDelete(h)
    PROVE  FilesInv'
<1> DEFINE k == Data(h)
<1>1. At(h, "object-delete") /\ Busy(h) /\ Goto(h, "file-remove", k)
  BY DEF ObjectDelete, At, Busy
<1>2. /\ Moves(h) /\ failed' = failed
      /\ task'[h] = [at |-> "file-remove", on |-> task[h].on, data |-> k]
  BY <1>1, GotoMoves
<1>3. files' = files /\ storage' = storage \ {k}
  BY DEF ObjectDelete
<1>4. k \in FileKeys /\ task[h].on = FileTag(k) /\ files[k] # "absent"
  BY <1>1 DEF FilesInv, FileAtWork, FileStep
<1>5. \A g \in Handlers : FileAtWork(g)'
  <2> TAKE g \in Handlers
  <2>1. CASE g = h
    BY <1>2, <1>3, <1>4, <2>1 DEF FileAtWork, FileStep, At, Data
  <2>2. CASE g # h
    <3>1. task'[g] = task[g]
      BY <1>2, <2>2 DEF Moves
    <3>2. At(g, "file-insert") => Data(g) # k
      BY <1>4 DEF FilesInv, FileAtWork
    <3> QED
      BY <1>3, <3>1, <3>2 DEF FilesInv, FileAtWork, FileStep, At, Data
  <2> QED
    BY <2>1, <2>2
<1>6. UploadsApart'
  BY <1>2 DEF FilesInv, UploadsApart, At, Data, Moves
<1>7. FilesMatchStorage'
  <2>1. ASSUME NEW g \in Handlers, At(g, "file-insert") \/ At(g, "file-remove")
        PROVE  UNCHANGED <<At(g, "file-insert"), At(g, "file-remove"), Data(g)>>
    BY <1>1, <1>2, <2>1 DEF At, Data, Moves
  <2>2. At(h, "file-remove")' /\ Data(h)' = k
    BY <1>2 DEF At, Data
  <2> HIDE DEF k
  <2> QED
    BY <1>2, <1>3, <2>1, <2>2 DEF FilesInv, FilesMatchStorage
<1> QED
  BY <1>3, <1>5, <1>6, <1>7 DEF FilesInv, FilesTyped

LEMMA FileRemoveKeepsFiles ==
    ASSUME RequestsInv, FilesInv, NEW h \in Handlers, FileRemove(h)
    PROVE  FilesInv'
<1> DEFINE k == Data(h)
<1>1. Moves(h) /\ task'[h] = Idle /\ failed' = failed /\ At(h, "file-remove")
  BY AnswerMoves DEF FileRemove, At, Busy
<1>2. files' = [files EXCEPT ![k] = "removed"] /\ storage' = storage
  BY DEF FileRemove
<1>3. k \in FileKeys /\ files[k] # "absent" /\ k \notin storage
  BY <1>1 DEF FilesInv, FileAtWork, FileStep
<1>4. \A g \in Handlers : FileAtWork(g)'
  <2> TAKE g \in Handlers
  <2>1. CASE g = h
    BY <1>1, <2>1 DEF FileAtWork, FileStep, At, Idle
  <2>2. CASE g # h
    <3>1. task'[g] = task[g]
      BY <1>1, <2>2 DEF Moves
    <3>2. At(g, "file-insert") => Data(g) # k
      BY <1>3 DEF FilesInv, FileAtWork
    <3> QED
      BY <1>2, <1>3, <3>1, <3>2 DEF FilesInv, FilesTyped, FileAtWork, FileStep, At, Data
  <2> QED
    BY <2>1, <2>2
<1>5. UploadsApart'
  BY <1>1 DEF FilesInv, UploadsApart, At, Data, Moves, Idle
<1>6. FilesMatchStorage'
  <2>1. ASSUME NEW j \in FileKeys \ {k}, NEW g \in Handlers,
               At(g, "file-insert") \/ At(g, "file-remove"), Data(g) = j
        PROVE  UNCHANGED <<At(g, "file-insert"), At(g, "file-remove"), Data(g)>>
    BY <1>1, <2>1 DEF At, Data, Moves
  <2>2. \A j \in FileKeys \ {k} : files'[j] = files[j]
    BY <1>2 DEF FilesInv, FilesTyped
  <2>3. files'[k] = "removed" /\ k \notin storage'
    BY <1>2, <1>3 DEF FilesInv, FilesTyped
  <2> HIDE DEF k
  <2> QED
    BY <1>1, <1>2, <2>1, <2>2, <2>3 DEF FilesInv, FilesMatchStorage
<1> QED
  BY <1>2, <1>3, <1>4, <1>5, <1>6 DEF FilesInv, FilesTyped, FileStates
-----------------------------------------------------------------------------
(* Certificates.                                                           *)

CertsTyped ==
    /\ certs \in [Certificates -> Certificate]
    /\ pdfs \subseteq Certificates /\ issued \subseteq Certificates
    /\ revoked \subseteq Certificates

Issuing(h)  == At(h, "pdf") \/ At(h, "pdf-address") \/ At(h, "issue-address")
Revoking(h) == At(h, "revoke-load") \/ At(h, "revoke")

IssueAtWork(h) ==
    Issuing(h) =>
        /\ Data(h) \in Certificates
        /\ task[h].on = CertTag(Data(h))
        /\ certs[Data(h)].exists
        /\ ~At(h, "pdf") => Data(h) \in pdfs

\* A revocation holds the row as it was, but invalid; unless it overlaps the issue it knows
\* the address, and if it does not write `valid` the row is invalid already.
RevokeAtWork(h) ==
    LET d == Data(h)  c == d.certificate IN
    Revoking(h) =>
        /\ d = [certificate |-> c, entity |-> d.entity, columns |-> d.columns]
        /\ c \in Certificates
        /\ task[h].on = CertTag(c)
        /\ d.entity \in Certificate /\ d.entity.exists /\ ~d.entity.valid
        /\ certs[c].exists
        /\ At(h, "revoke") => "valid" \in d.columns \/ ~certs[c].valid
        /\ CertTag(c) \notin disturbed => d.entity.url /\ c \in issued

\* The issue of every certificate that is there ended, failed or is under way.
IssuesKnown ==
    \A c \in Certificates :
        certs[c].exists => \/ c \in issued
                           \/ CertTag(c) \in failed
                           \/ \E h \in Handlers : Issuing(h) /\ Data(h) = c

CertsInv ==
    /\ CertsTyped
    /\ \A h \in Handlers : IssueAtWork(h) /\ RevokeAtWork(h)
    /\ IssuesKnown
    /\ \A c \in issued \cup revoked : certs[c].exists
    /\ CertificatesStand

\* What every step does to the certificates: none disappears, becomes valid again or loses
\* its PDF, and what the others know of theirs stays true.
CertsGrow ==
    /\ \A c \in Certificates :
         certs[c].exists => certs'[c].exists /\ (~certs[c].valid => ~certs'[c].valid)
    /\ pdfs \subseteq pdfs' /\ issued \subseteq issued'

LEMMA DisturbedGrows == ASSUME NEW h, Moves(h) PROVE disturbed \subseteq disturbed'
BY DEF Moves, disturbed

LEMMA OthersKnowCerts ==
    ASSUME CertsInv, NEW h \in Handlers, Moves(h), CertsGrow, NEW g \in Handlers \ {h}
    PROVE  IssueAtWork(g)' /\ RevokeAtWork(g)'
<1>1. task'[g] = task[g]
  BY DEF Moves
<1>2. disturbed \subseteq disturbed'
  BY DisturbedGrows
<1>3. IssueAtWork(g)'
  BY <1>1 DEF CertsInv, CertsGrow, IssueAtWork, Issuing, At, Data
<1>4. RevokeAtWork(g)'
  BY <1>1, <1>2 DEF CertsInv, CertsGrow, RevokeAtWork, Revoking, At, Data
<1> QED
  BY <1>3, <1>4

\* Nothing is inserted, and if h issues a certificate that ends, fails or goes on.
IssueGoesOn(h) ==
    /\ \A c \in Certificates : certs'[c].exists => certs[c].exists
    /\ Issuing(h) => \/ Data(h) \in issued'
                     \/ CertTag(Data(h)) \in failed'
                     \/ Issuing(h)' /\ Data(h)' = Data(h)

LEMMA IssuesStayKnown ==
    ASSUME CertsInv, NEW h \in Handlers, Moves(h), CertsGrow, IssueGoesOn(h)
    PROVE  IssuesKnown'
<1> SUFFICES ASSUME NEW c \in Certificates, certs'[c].exists
             PROVE  \/ c \in issued'
                    \/ CertTag(c) \in failed'
                    \/ \E g \in Handlers : (Issuing(g) /\ Data(g) = c)'
  BY DEF IssuesKnown
<1>1. CASE c \in issued \/ CertTag(c) \in failed
  BY <1>1 DEF CertsGrow, Moves
<1>2. CASE \E g \in Handlers : Issuing(g) /\ Data(g) = c
  <2>1. PICK g \in Handlers : Issuing(g) /\ Data(g) = c
    BY <1>2
  <2>2. CASE g = h
    BY <2>1, <2>2 DEF IssueGoesOn
  <2>3. CASE g # h
    <3>1. task'[g] = task[g]
      BY <2>3 DEF Moves
    <3> QED
      BY <2>1, <3>1 DEF Issuing, At, Data
  <2> QED
    BY <2>2, <2>3
<1> QED
  BY <1>1, <1>2 DEF CertsInv, IssuesKnown, IssueGoesOn

LEMMA OthersKeepCerts ==
    ASSUME CertsInv, NEW h \in Handlers, Moves(h), UNCHANGED <<certs, pdfs, issued, revoked>>,
           ~Issuing(h)', ~Revoking(h)', Issuing(h) => task[h].on \in failed'
    PROVE  CertsInv'
<1>1. CertsGrow
  BY DEF CertsGrow
<1>2. \A g \in Handlers : IssueAtWork(g)' /\ RevokeAtWork(g)'
  <2> TAKE g \in Handlers
  <2>1. CASE g = h
    BY <2>1 DEF IssueAtWork, RevokeAtWork
  <2>2. CASE g # h
    BY <1>1, <2>2, OthersKnowCerts
  <2> QED
    BY <2>1, <2>2
<1>3. IssuesKnown'
  <2>1. Issuing(h) => CertTag(Data(h)) \in failed'
    BY DEF CertsInv, IssueAtWork
  <2>2. IssueGoesOn(h)
    BY <2>1 DEF IssueGoesOn
  <2> QED
    BY <1>1, <2>2, IssuesStayKnown
<1>4. CertificatesStand'
  BY DisturbedGrows DEF CertsInv, CertificatesStand
<1> QED
  BY <1>2, <1>3, <1>4 DEF CertsInv, CertsTyped

LEMMA IssueKeepsCerts ==
    ASSUME RequestsInv, CertsInv, NEW h \in Handlers, NEW c \in Certificates, Issue(h, c)
    PROVE  CertsInv'
<1>1. /\ Moves(h) /\ task[h].at = "idle"
      /\ task'[h] = [at |-> "pdf", on |-> CertTag(c), data |-> c]
  BY BeginMoves DEF Issue
<1>2. /\ certs' = [certs EXCEPT ![c] = [exists |-> TRUE, valid |-> TRUE, url |-> FALSE]]
      /\ UNCHANGED <<pdfs, issued, revoked>> /\ ~certs[c].exists
  BY DEF Issue
<1>3. /\ certs'[c] = [exists |-> TRUE, valid |-> TRUE, url |-> FALSE]
      /\ \A b \in Certificates \ {c} : certs'[b] = certs[b]
      /\ CertsTyped'
  BY <1>2 DEF CertsInv, CertsTyped, Certificate
<1>4. CertsGrow
  BY <1>2, <1>3 DEF CertsGrow
<1>5. c \notin issued /\ c \notin revoked
  BY <1>2 DEF CertsInv
<1>6. \A g \in Handlers : IssueAtWork(g)' /\ RevokeAtWork(g)'
  <2> TAKE g \in Handlers
  <2>1. CASE g = h
    BY <1>1, <1>3, <2>1 DEF IssueAtWork, RevokeAtWork, Issuing, Revoking, At, Data
  <2>2. CASE g # h
    BY <1>1, <1>4, <2>2, OthersKnowCerts
  <2> QED
    BY <2>1, <2>2
<1>7. IssuesKnown'
  <2> SUFFICES ASSUME NEW b \in Certificates, certs'[b].exists
               PROVE  \/ b \in issued' \/ CertTag(b) \in failed'
                      \/ \E g \in Handlers : (Issuing(g) /\ Data(g) = b)'
    BY DEF IssuesKnown
  <2>1. CASE b = c
    BY <1>1, <2>1 DEF Issuing, At, Data
  <2>2. CASE b # c
    <3>1. certs[b].exists
      BY <1>3, <2>2
    <3>2. CASE b \in issued \/ CertTag(b) \in failed
      BY <1>1, <1>2, <3>2 DEF Moves
    <3>3. ASSUME NEW g \in Handlers, Issuing(g), Data(g) = b
          PROVE  (Issuing(g) /\ Data(g) = b)'
      BY <1>1, <3>3 DEF Moves, Issuing, At, Data
    <3> QED
      BY <3>1, <3>2, <3>3 DEF CertsInv, IssuesKnown
  <2> QED
    BY <2>1, <2>2
<1>8. CertificatesStand'
  <2>1. disturbed \subseteq disturbed'
    BY <1>1, DisturbedGrows
  <2>2. \A b \in issued \cup revoked : b \in Certificates /\ certs'[b] = certs[b]
    BY <1>3, <1>5 DEF CertsInv, CertsTyped
  <2> QED
    BY <1>2, <2>1, <2>2 DEF CertsInv, CertificatesStand
<1>9. \A b \in (issued \cup revoked)' : certs'[b].exists
  BY <1>2, <1>3, <1>5 DEF CertsInv, CertsTyped
<1> QED
  BY <1>3, <1>6, <1>7, <1>8, <1>9 DEF CertsInv

LEMMA GeneratePdfKeepsCerts ==
    ASSUME RequestsInv, CertsInv, NEW h \in Handlers, GeneratePdf(h)
    PROVE  CertsInv'
<1> DEFINE c == Data(h)
<1>1. At(h, "pdf") /\ Busy(h) /\ Goto(h, "pdf-address", c)
  BY DEF GeneratePdf, At, Busy
<1>2. /\ Moves(h)
      /\ task'[h] = [at |-> "pdf-address", on |-> task[h].on, data |-> c]
  BY <1>1, GotoMoves
<1>3. pdfs' = pdfs \cup {c} /\ UNCHANGED <<certs, issued, revoked>>
  BY DEF GeneratePdf
<1>4. c \in Certificates /\ task[h].on = CertTag(c) /\ certs[c].exists
  BY <1>1 DEF CertsInv, IssueAtWork, Issuing
<1>5. CertsGrow
  BY <1>3 DEF CertsGrow
<1>6. \A g \in Handlers : IssueAtWork(g)' /\ RevokeAtWork(g)'
  <2> TAKE g \in Handlers
  <2>1. CASE g = h
    BY <1>2, <1>3, <1>4, <2>1 DEF IssueAtWork, RevokeAtWork, Issuing, Revoking, At, Data
  <2>2. CASE g # h
    BY <1>2, <1>5, <2>2, OthersKnowCerts
  <2> QED
    BY <2>1, <2>2
<1>7. IssuesKnown'
  <2>1. Issuing(h)' /\ Data(h)' = Data(h)
    BY <1>2 DEF Issuing, At, Data
  <2>2. IssueGoesOn(h)
    BY <1>3, <2>1 DEF IssueGoesOn
  <2> QED
    BY <1>2, <1>5, <2>2, IssuesStayKnown
<1>8. CertificatesStand'
  BY <1>2, <1>3, DisturbedGrows DEF CertsInv, CertificatesStand
<1>9. CertsTyped'
  BY <1>3, <1>4 DEF CertsInv, CertsTyped
<1> QED
  BY <1>3, <1>6, <1>7, <1>8, <1>9 DEF CertsInv

LEMMA AddressIsWritten ==
    ASSUME CertsTyped, NEW c \in Certificates, certs' = [certs EXCEPT ![c] = Addressed(c)]
    PROVE  /\ certs' \in [Certificates -> Certificate]
           /\ \A b \in Certificates : /\ certs'[b].exists = certs[b].exists
                                      /\ certs'[b].valid = certs[b].valid
                                      /\ certs[b].url => certs'[b].url
           /\ certs'[c].url
<1>1. certs[c] \in Certificate
  BY DEF CertsTyped
<1>2. Addressed(c) = [exists |-> certs[c].exists, valid |-> certs[c].valid, url |-> TRUE]
  <2>1. certs[c] = [exists |-> certs[c].exists, valid |-> certs[c].valid, url |-> certs[c].url]
    BY <1>1 DEF Certificate
  <2>2. Addressed(c) = [certs[c] EXCEPT !.url = TRUE]
    BY DEF Addressed
  <2> QED
    BY <2>1, <2>2
<1>3. Addressed(c) \in Certificate
  BY <1>1, <1>2 DEF Certificate
<1>4. certs'[c] = Addressed(c) /\ \A b \in Certificates \ {c} : certs'[b] = certs[b]
  BY DEF CertsTyped
<1>5. certs' \in [Certificates -> Certificate]
  BY <1>3 DEF CertsTyped
<1> QED
  BY <1>2, <1>4, <1>5

LEMMA PdfAddressKeepsCerts ==
    ASSUME RequestsInv, CertsInv, NEW h \in Handlers, PdfAddress(h)
    PROVE  CertsInv'
<1> DEFINE c == Data(h)
<1>1. At(h, "pdf-address") /\ Busy(h) /\ Goto(h, "issue-address", c)
  BY DEF PdfAddress, At, Busy
<1>2. /\ Moves(h)
      /\ task'[h] = [at |-> "issue-address", on |-> task[h].on, data |-> c]
  BY <1>1, GotoMoves
<1>3. certs' = [certs EXCEPT ![c] = Addressed(c)] /\ UNCHANGED <<pdfs, issued, revoked>>
  BY DEF PdfAddress
<1>4. c \in Certificates /\ task[h].on = CertTag(c) /\ certs[c].exists /\ c \in pdfs
  BY <1>1 DEF CertsInv, IssueAtWork, Issuing, At
<1>5. /\ CertsTyped'
      /\ \A b \in Certificates : /\ certs'[b].exists = certs[b].exists
                                 /\ certs'[b].valid = certs[b].valid
                                 /\ certs[b].url => certs'[b].url
  BY <1>3, <1>4, AddressIsWritten DEF CertsInv, CertsTyped
<1>6. CertsGrow
  BY <1>3, <1>5 DEF CertsGrow
<1>7. \A g \in Handlers : IssueAtWork(g)' /\ RevokeAtWork(g)'
  <2> TAKE g \in Handlers
  <2>1. CASE g = h
    BY <1>2, <1>3, <1>4, <1>5, <2>1 DEF IssueAtWork, RevokeAtWork, Issuing, Revoking, At, Data
  <2>2. CASE g # h
    BY <1>2, <1>6, <2>2, OthersKnowCerts
  <2> QED
    BY <2>1, <2>2
<1>8. IssuesKnown'
  <2>1. Issuing(h)' /\ Data(h)' = Data(h)
    BY <1>2 DEF Issuing, At, Data
  <2>2. IssueGoesOn(h)
    BY <1>5, <2>1 DEF IssueGoesOn
  <2> QED
    BY <1>2, <1>6, <2>2, IssuesStayKnown
<1>9. CertificatesStand' /\ \A b \in (issued \cup revoked)' : certs'[b].exists
  <2>1. disturbed \subseteq disturbed'
    BY <1>2, DisturbedGrows
  <2> QED
    BY <1>3, <1>5, <2>1 DEF CertsInv, CertsTyped, CertificatesStand
<1> QED
  BY <1>5, <1>7, <1>8, <1>9 DEF CertsInv

LEMMA IssueAddressKeepsCerts ==
    ASSUME RequestsInv, CertsInv, NEW h \in Handlers, IssueAddress(h)
    PROVE  CertsInv'
<1> DEFINE c == Data(h)
<1>1. At(h, "issue-address") /\ Busy(h) /\ Answer(h)
  BY DEF IssueAddress, At, Busy
<1>2. Moves(h) /\ task'[h] = Idle
  BY <1>1, AnswerMoves
<1>3. /\ certs' = [certs EXCEPT ![c] = Addressed(c)] /\ UNCHANGED <<pdfs, revoked>>
      /\ issued' = issued \cup {c}
  BY DEF IssueAddress
<1>4. c \in Certificates /\ certs[c].exists /\ c \in pdfs
  BY <1>1 DEF CertsInv, IssueAtWork, Issuing, At
<1>5. /\ CertsTyped'
      /\ \A b \in Certificates : /\ certs'[b].exists = certs[b].exists
                                 /\ certs'[b].valid = certs[b].valid
                                 /\ certs[b].url => certs'[b].url
      /\ certs'[c].url
  BY <1>3, <1>4, AddressIsWritten DEF CertsInv, CertsTyped
<1>6. CertsGrow
  BY <1>3, <1>5 DEF CertsGrow
<1>7. \A g \in Handlers : IssueAtWork(g)' /\ RevokeAtWork(g)'
  <2> TAKE g \in Handlers
  <2>1. CASE g = h
    BY <1>2, <2>1 DEF IssueAtWork, RevokeAtWork, Issuing, Revoking, At, Idle
  <2>2. CASE g # h
    BY <1>2, <1>6, <2>2, OthersKnowCerts
  <2> QED
    BY <2>1, <2>2
<1>8. IssuesKnown'
  <2>1. IssueGoesOn(h)
    BY <1>3, <1>5 DEF IssueGoesOn
  <2> QED
    BY <1>2, <1>6, <2>1, IssuesStayKnown
<1>9. CertificatesStand' /\ \A b \in (issued \cup revoked)' : certs'[b].exists
  <2>1. disturbed \subseteq disturbed'
    BY <1>2, DisturbedGrows
  <2> HIDE DEF c
  <2> QED
    BY <1>3, <1>4, <1>5, <2>1 DEF CertsInv, CertsTyped, CertificatesStand
<1> QED
  BY <1>5, <1>7, <1>8, <1>9 DEF CertsInv

LEMMA RevokeKeepsCerts ==
    ASSUME RequestsInv, CertsInv, NEW h \in Handlers, NEW c \in Certificates, Revoke(h, c)
    PROVE  CertsInv'
<1> DEFINE entity == [certs[c] EXCEPT !.valid = FALSE]
           data   == [certificate |-> c, entity |-> entity, columns |-> {}]
<1>1. Begin(h, "revoke-load", CertTag(c), data) /\ certs[c].exists
  BY DEF Revoke
<1>2. UNCHANGED <<certs, pdfs, issued, revoked>>
  BY DEF Revoke, officeTables
<1>3. /\ entity = [exists |-> certs[c].exists, valid |-> FALSE, url |-> certs[c].url]
      /\ entity \in Certificate
  <2>1. certs[c] \in Certificate
    BY DEF CertsInv, CertsTyped
  <2>2. certs[c] = [exists |-> certs[c].exists, valid |-> certs[c].valid, url |-> certs[c].url]
    BY <2>1 DEF Certificate
  <2>3. entity = [certs[c] EXCEPT !.valid = FALSE]
    OBVIOUS
  <2> HIDE DEF entity
  <2>4. entity = [exists |-> certs[c].exists, valid |-> FALSE, url |-> certs[c].url]
    BY <2>2, <2>3
  <2> QED
    BY <2>1, <2>4 DEF Certificate
<1> HIDE DEF entity
<1>4. /\ Moves(h) /\ task[h].at = "idle" /\ Joins(h, CertTag(c)) /\ failed' = failed
      /\ task'[h] = [at |-> "revoke-load", on |-> CertTag(c), data |-> data]
  BY <1>1, BeginMoves
<1>5. CertTag(c) \notin disturbed' => certs[c].url /\ c \in issued
  <2> SUFFICES ASSUME CertTag(c) \notin disturbed' PROVE certs[c].url /\ c \in issued
    OBVIOUS
  <2>1. CertTag(c) \notin disturbed /\ CertTag(c) \notin overlapped'
    BY <1>4 DEF Moves, disturbed
  <2>2. ASSUME NEW g \in Handlers, Issuing(g), Data(g) = c PROVE FALSE
    <3>1. task[g].on = CertTag(c)
      BY <2>2 DEF CertsInv, IssueAtWork
    <3>2. Busy(g) /\ g # h
      BY <1>4, <2>2 DEF Issuing, At, Busy
    <3> QED
      BY <1>4, <2>1, <3>1, <3>2 DEF Joins
  <2>3. c \in issued
    BY <1>1, <2>1, <2>2 DEF CertsInv, IssuesKnown, disturbed
  <2> QED
    BY <2>1, <2>3 DEF CertsInv, CertificatesStand
<1>6. CertsGrow
  BY <1>2 DEF CertsGrow
<1>7. \A g \in Handlers : IssueAtWork(g)' /\ RevokeAtWork(g)'
  <2> TAKE g \in Handlers
  <2>1. CASE g = h
    <3>1. ~Issuing(h)' /\ Data(h)' = data /\ At(h, "revoke-load")'
      BY <1>4 DEF Issuing, At, Data
    <3>2. RevokeAtWork(h)'
      BY <1>1, <1>2, <1>3, <1>4, <1>5, <3>1 DEF RevokeAtWork, Revoking, At
    <3> QED
      BY <2>1, <3>1, <3>2 DEF IssueAtWork
  <2>2. CASE g # h
    BY <1>4, <1>6, <2>2, OthersKnowCerts
  <2> QED
    BY <2>1, <2>2
<1>8. IssuesKnown'
  <2>1. IssueGoesOn(h)
    BY <1>2, <1>4 DEF IssueGoesOn, Issuing, At
  <2> QED
    BY <1>4, <1>6, <2>1, IssuesStayKnown
<1>9. CertificatesStand'
  BY <1>2, <1>4, DisturbedGrows DEF CertsInv, CertificatesStand
<1> QED
  BY <1>2, <1>7, <1>8, <1>9 DEF CertsInv, CertsTyped

LEMMA RevokeLoadKeepsCerts ==
    ASSUME RequestsInv, CertsInv, NEW h \in Handlers, RevokeLoad(h)
    PROVE  CertsInv'
<1> DEFINE d       == Data(h)
           c       == d.certificate
           columns == {f \in DOMAIN d.entity : d.entity[f] # certs[c][f]}
           data    == [d EXCEPT !.columns = columns]
<1>1. At(h, "revoke-load") /\ Busy(h) /\ Goto(h, "revoke", data)
  BY DEF RevokeLoad, At, Busy
<1>2. UNCHANGED <<certs, pdfs, issued, revoked>>
  BY DEF RevokeLoad, officeTables
<1>3. /\ d = [certificate |-> c, entity |-> d.entity, columns |-> d.columns]
      /\ c \in Certificates /\ task[h].on = CertTag(c) /\ certs[c].exists
      /\ d.entity \in Certificate /\ d.entity.exists /\ ~d.entity.valid
      /\ CertTag(c) \notin disturbed => d.entity.url /\ c \in issued
  BY <1>1 DEF CertsInv, RevokeAtWork, Revoking
<1>4. "valid" \in columns \/ ~certs[c].valid
  BY <1>3 DEF Certificate
<1> HIDE DEF columns
<1>5. data = [certificate |-> c, entity |-> d.entity, columns |-> columns]
  BY <1>3
<1> HIDE DEF data
<1>6. /\ Moves(h)
      /\ task'[h] = [at |-> "revoke", on |-> task[h].on, data |-> data]
  BY <1>1, GotoMoves
<1>7. CertsGrow
  BY <1>2 DEF CertsGrow
<1>8. \A g \in Handlers : IssueAtWork(g)' /\ RevokeAtWork(g)'
  <2> TAKE g \in Handlers
  <2>1. CASE g = h
    <3>1. ~Issuing(h)' /\ Data(h)' = data /\ At(h, "revoke")'
      BY <1>6 DEF Issuing, At, Data
    <3>2. disturbed \subseteq disturbed'
      BY <1>6, DisturbedGrows
    <3> HIDE DEF d
    <3>3. RevokeAtWork(h)'
      BY <1>2, <1>3, <1>4, <1>5, <1>6, <3>1, <3>2 DEF RevokeAtWork, Revoking, At
    <3> QED
      BY <2>1, <3>1, <3>3 DEF IssueAtWork
  <2>2. CASE g # h
    BY <1>6, <1>7, <2>2, OthersKnowCerts
  <2> QED
    BY <2>1, <2>2
<1>9. IssuesKnown'
  <2>1. IssueGoesOn(h)
    BY <1>1, <1>2 DEF IssueGoesOn, Issuing, At
  <2> QED
    BY <1>6, <1>7, <2>1, IssuesStayKnown
<1>10. CertificatesStand'
  BY <1>2, <1>6, DisturbedGrows DEF CertsInv, CertificatesStand
<1> QED
  BY <1>2, <1>8, <1>9, <1>10 DEF CertsInv, CertsTyped

LEMMA RevokeSaveKeepsCerts ==
    ASSUME RequestsInv, CertsInv, NEW h \in Handlers, RevokeSave(h)
    PROVE  CertsInv'
<1> DEFINE d   == Data(h)
           c   == d.certificate
           row == [f \in DOMAIN certs[c] |->
                     IF f \in d.columns THEN d.entity[f] ELSE certs[c][f]]
<1>1. At(h, "revoke") /\ Busy(h) /\ Answer(h)
  BY DEF RevokeSave, At, Busy
<1>2. Moves(h) /\ task'[h] = Idle
  BY <1>1, AnswerMoves
<1>3. /\ certs' = [certs EXCEPT ![c] = row]
      /\ revoked' = revoked \cup {c} /\ UNCHANGED <<pdfs, issued>>
  BY DEF RevokeSave
<1>4. /\ c \in Certificates /\ certs[c].exists
      /\ d.entity \in Certificate /\ d.entity.exists /\ ~d.entity.valid
      /\ "valid" \in d.columns \/ ~certs[c].valid
      /\ CertTag(c) \notin disturbed => d.entity.url /\ c \in issued
  BY <1>1 DEF CertsInv, RevokeAtWork, Revoking
<1>5. certs[c] \in Certificate
  BY <1>4 DEF CertsInv, CertsTyped
<1>6. /\ row \in Certificate /\ row.exists /\ ~row.valid
      /\ CertTag(c) \notin disturbed => row.url
  <2>1. row = [f \in {"exists", "valid", "url"} |->
                 IF f \in d.columns THEN d.entity[f] ELSE certs[c][f]]
    BY <1>5 DEF Certificate
  <2>2. \A f \in {"exists", "valid", "url"} : row[f] \in BOOLEAN
    BY <1>4, <1>5, <2>1 DEF Certificate
  <2>3. row \in Certificate
    BY <2>1, <2>2 DEF Certificate
  <2>4. row.exists /\ ~row.valid
    BY <1>4, <2>1
  <2>5. CertTag(c) \notin disturbed => certs[c].url
    BY <1>4 DEF CertsInv, CertificatesStand
  <2>6. CertTag(c) \notin disturbed => row.url
    BY <1>4, <2>1, <2>5
  <2> QED
    BY <2>3, <2>4, <2>6
<1> HIDE DEF row
<1>7. /\ certs'[c] = row /\ \A b \in Certificates \ {c} : certs'[b] = certs[b]
      /\ CertsTyped'
  BY <1>3, <1>4, <1>6 DEF CertsInv, CertsTyped
<1>8. CertsGrow
  BY <1>3, <1>6, <1>7 DEF CertsGrow
<1>9. \A g \in Handlers : IssueAtWork(g)' /\ RevokeAtWork(g)'
  <2> TAKE g \in Handlers
  <2>1. CASE g = h
    BY <1>2, <2>1 DEF IssueAtWork, RevokeAtWork, Issuing, Revoking, At, Idle
  <2>2. CASE g # h
    BY <1>2, <1>8, <2>2, OthersKnowCerts
  <2> QED
    BY <2>1, <2>2
<1>10. IssuesKnown'
  <2>1. \A b \in Certificates : certs'[b].exists => certs[b].exists
    BY <1>4, <1>7
  <2>2. IssueGoesOn(h)
    BY <1>1, <2>1 DEF IssueGoesOn, Issuing, At
  <2> QED
    BY <1>2, <1>8, <2>2, IssuesStayKnown
<1>11. CertificatesStand' /\ \A b \in (issued \cup revoked)' : certs'[b].exists
  <2>1. disturbed \subseteq disturbed'
    BY <1>2, DisturbedGrows
  <2> HIDE DEF c
  <2> QED
    BY <1>3, <1>6, <1>7, <2>1 DEF CertsInv, CertsTyped, CertificatesStand
<1> QED
  BY <1>7, <1>9, <1>10, <1>11 DEF CertsInv

LEMMA OfficeStarts ==
    ASSUME RequestsInv, OfficeInit, \A h \in Handlers : task[h] = Idle
    PROVE  FilesInv /\ CertsInv
<1>1. \A h \in Handlers : ~FileStep(h) /\ ~Issuing(h) /\ ~Revoking(h)
  BY DEF FileStep, Issuing, Revoking, At, Idle
<1>2. FilesInv
  <2>1. UploadsApart /\ \A h \in Handlers : FileAtWork(h)
    BY <1>1 DEF UploadsApart, FileAtWork, FileStep
  <2> QED
    BY <2>1 DEF OfficeInit, FilesInv, FilesTyped, FileStates, FilesMatchStorage
<1>3. CertsInv
  <2>1. CertsTyped /\ \A c \in Certificates : ~certs[c].exists
    BY DEF OfficeInit, CertsTyped, Certificate, NoCert
  <2>2. \A h \in Handlers : IssueAtWork(h) /\ RevokeAtWork(h)
    BY <1>1 DEF IssueAtWork, RevokeAtWork
  <2> QED
    BY <2>1, <2>2 DEF OfficeInit, CertsInv, IssuesKnown, CertificatesStand
<1> QED
  BY <1>2, <1>3

\* A step that has nothing to do with files keeps FilesInv, and one that has nothing to do
\* with certificates keeps CertsInv.
NotOfFiles(h) == UNCHANGED <<storage, files>> /\ ~FileStep(h) /\ ~FileStep(h)'

NotOfCerts(h) ==
    UNCHANGED <<certs, pdfs, issued, revoked>> /\ ~Issuing(h) /\ ~Issuing(h)' /\ ~Revoking(h)'

LEMMA OtherStepsOfOffice ==
    ASSUME RequestsInv, FilesInv, CertsInv, NEW h \in Handlers, Moves(h)
    PROVE  /\ NotOfFiles(h) => FilesInv'
           /\ NotOfCerts(h) => CertsInv'
BY OthersKeepFiles, OthersKeepCerts DEF NotOfFiles, NotOfCerts

LEMMA OfficeStep ==
    ASSUME RequestsInv, FilesInv, CertsInv, OfficeNext
    PROVE  RequestsInv' /\ FilesInv' /\ CertsInv'
<1>1. PICK h \in Handlers :
        \/ \E k \in FileKeys : Upload(h, k) \/ DeleteByKey(h, k) \/ ServeFile(h, k)
        \/ \E c \in Certificates : Issue(h, c) \/ Revoke(h, c)
        \/ \E l \in Lessons, e \in Dates : CreateSchedule(h, l, e) \/ UpdateSchedule(h, l, e)
        \/ \E l \in Lessons : RemoveSchedule(h, l)
        \/ FileInsert(h) \/ ObjectDelete(h) \/ FileRemove(h) \/ Stream(h)
        \/ GeneratePdf(h) \/ PdfAddress(h) \/ IssueAddress(h)
        \/ RevokeLoad(h) \/ RevokeSave(h)
        \/ LessonWrite(h) \/ LessonFind(h) \/ LessonRemove(h)
        \/ OfficeBreaks(h)
  BY DEF OfficeNext
<1>2. ASSUME NEW k \in FileKeys, Upload(h, k) PROVE Moves(h) /\ NotOfCerts(h)
  <2>1. Passes(h, "idle", "file-insert")
    BY <1>2, BeginPasses DEF Upload
  <2> QED
    BY <1>2, <2>1 DEF Upload, Passes,
       NotOfCerts, Issuing, Revoking, At
<1>3. ASSUME NEW k \in FileKeys, DeleteByKey(h, k) PROVE Moves(h) /\ NotOfCerts(h)
  <2>1. Passes(h, "idle", "object-delete")
    BY <1>3, BeginPasses DEF DeleteByKey
  <2> QED
    BY <1>3, <2>1 DEF DeleteByKey, officeTables, Passes,
       NotOfCerts, Issuing, Revoking, At
<1>4. ASSUME NEW k \in FileKeys, ServeFile(h, k)
      PROVE  Moves(h) /\ NotOfFiles(h) /\ NotOfCerts(h)
  <2>1. Passes(h, "idle", "stream")
    BY <1>4, BeginPasses DEF ServeFile
  <2> QED
    BY <1>4, <2>1 DEF ServeFile, officeTables, Passes,
       NotOfFiles, FileStep, NotOfCerts, Issuing, Revoking, At
<1>5. ASSUME NEW c \in Certificates, Issue(h, c) PROVE Moves(h) /\ NotOfFiles(h)
  <2>1. Passes(h, "idle", "pdf")
    BY <1>5, BeginPasses DEF Issue
  <2> QED
    BY <1>5, <2>1 DEF Issue, Passes,
       NotOfFiles, FileStep, At
<1>6. ASSUME NEW c \in Certificates, Revoke(h, c) PROVE Moves(h) /\ NotOfFiles(h)
  <2>1. Passes(h, "idle", "revoke-load")
    BY <1>6, BeginPasses DEF Revoke
  <2> QED
    BY <1>6, <2>1 DEF Revoke, officeTables, Passes,
       NotOfFiles, FileStep, At
<1>7. ASSUME NEW l \in Lessons, NEW e \in Dates, CreateSchedule(h, l, e)
      PROVE  Moves(h) /\ NotOfFiles(h) /\ NotOfCerts(h)
  <2>1. Passes(h, "idle", "idle")
    BY <1>7, AtOncePasses DEF CreateSchedule
  <2> QED
    BY <1>7, <2>1 DEF CreateSchedule, Passes,
       NotOfFiles, FileStep, NotOfCerts, Issuing, Revoking, At
<1>8. ASSUME NEW l \in Lessons, NEW e \in Dates, UpdateSchedule(h, l, e)
      PROVE  Moves(h) /\ NotOfFiles(h) /\ NotOfCerts(h)
  <2>1. Passes(h, "idle", "lesson-write")
    BY <1>8, BeginPasses DEF UpdateSchedule
  <2> QED
    BY <1>8, <2>1 DEF UpdateSchedule, officeTables, Passes,
       NotOfFiles, FileStep, NotOfCerts, Issuing, Revoking, At
<1>9. ASSUME NEW l \in Lessons, RemoveSchedule(h, l)
      PROVE  Moves(h) /\ NotOfFiles(h) /\ NotOfCerts(h)
  <2>1. Passes(h, "idle", "lesson-remove")
    BY <1>9, BeginPasses DEF RemoveSchedule
  <2> QED
    BY <1>9, <2>1 DEF RemoveSchedule, officeTables, Passes,
       NotOfFiles, FileStep, NotOfCerts, Issuing, Revoking, At
<1>10. ASSUME FileInsert(h) PROVE Moves(h) /\ NotOfCerts(h)
  <2>1. Passes(h, "file-insert", "idle")
    BY <1>10, AnswerPasses DEF FileInsert, At, Busy
  <2> QED
    BY <1>10, <2>1 DEF FileInsert, Passes,
       NotOfCerts, Issuing, Revoking, At
<1>11. ASSUME ObjectDelete(h) PROVE Moves(h) /\ NotOfCerts(h)
  <2>1. Passes(h, "object-delete", "file-remove")
    BY <1>11, GotoPasses DEF ObjectDelete, At, Busy
  <2> QED
    BY <1>11, <2>1 DEF ObjectDelete, Passes,
       NotOfCerts, Issuing, Revoking, At
<1>12. ASSUME FileRemove(h) PROVE Moves(h) /\ NotOfCerts(h)
  <2>1. Passes(h, "file-remove", "idle")
    BY <1>12, AnswerPasses DEF FileRemove, At, Busy
  <2> QED
    BY <1>12, <2>1 DEF FileRemove, Passes,
       NotOfCerts, Issuing, Revoking, At
<1>13. ASSUME Stream(h) \/ LessonFind(h) \/ LessonRemove(h)
       PROVE  Moves(h) /\ NotOfFiles(h) /\ NotOfCerts(h)
  <2>1. \E from \in {"stream", "lesson-find", "lesson-remove"} : Passes(h, from, "idle")
    BY <1>13, AnswerPasses DEF Stream, LessonFind, LessonRemove, At, Busy
  <2> QED
    BY <1>13, <2>1 DEF Stream, LessonFind, LessonRemove, officeTables, Passes,
       NotOfFiles, FileStep, NotOfCerts, Issuing, Revoking, At
<1>14. ASSUME GeneratePdf(h) \/ PdfAddress(h) PROVE Moves(h) /\ NotOfFiles(h)
  <2>1. Passes(h, "pdf", "pdf-address") \/ Passes(h, "pdf-address", "issue-address")
    BY <1>14, GotoPasses DEF GeneratePdf, PdfAddress, At, Busy
  <2> QED
    BY <1>14, <2>1 DEF GeneratePdf, PdfAddress, Passes,
       NotOfFiles, FileStep, At
<1>15. ASSUME IssueAddress(h) \/ RevokeSave(h) PROVE Moves(h) /\ NotOfFiles(h)
  <2>1. Passes(h, "issue-address", "idle") \/ Passes(h, "revoke", "idle")
    BY <1>15, AnswerPasses DEF IssueAddress, RevokeSave, At, Busy
  <2> QED
    BY <1>15, <2>1 DEF IssueAddress, RevokeSave, Passes,
       NotOfFiles, FileStep, At
<1>16. ASSUME RevokeLoad(h) PROVE Moves(h) /\ NotOfFiles(h)
  <2>1. Passes(h, "revoke-load", "revoke")
    BY <1>16, GotoPasses DEF RevokeLoad, At, Busy
  <2> QED
    BY <1>16, <2>1 DEF RevokeLoad, officeTables, Passes,
       NotOfFiles, FileStep, At
<1>17. ASSUME LessonWrite(h) PROVE Moves(h) /\ NotOfFiles(h) /\ NotOfCerts(h)
  <2>1. Passes(h, "lesson-write", "lesson-find")
    BY <1>17, GotoPasses DEF LessonWrite, At, Busy
  <2> QED
    BY <1>17, <2>1 DEF LessonWrite, Passes,
       NotOfFiles, FileStep, NotOfCerts, Issuing, Revoking, At
<1>18. ASSUME OfficeBreaks(h) PROVE Moves(h) /\ FilesInv' /\ CertsInv'
  <2>1. /\ Moves(h) /\ task'[h] = Idle /\ task[h].on \in failed'
        /\ UNCHANGED <<storage, files, certs, pdfs, issued, revoked>>
    BY <1>18, BreaksMoves DEF OfficeBreaks, officeTables
  <2>2. ~FileStep(h)' /\ ~Issuing(h)' /\ ~Revoking(h)'
    BY <2>1 DEF Idle, FileStep, Issuing, Revoking, At
  <2> QED
    BY <2>1, <2>2, OthersKeepFiles, OthersKeepCerts
<1> USE OtherStepsOfOffice
<1>19. CASE \E k \in FileKeys : Upload(h, k) \/ DeleteByKey(h, k) \/ ServeFile(h, k)
  BY <1>19, <1>2, <1>3, <1>4, UploadKeepsFiles, DeleteByKeyKeepsFiles DEF Moves
<1>20. CASE \E c \in Certificates : Issue(h, c) \/ Revoke(h, c)
  BY <1>20, <1>5, <1>6, IssueKeepsCerts, RevokeKeepsCerts DEF Moves
<1>21. CASE \/ \E l \in Lessons, e \in Dates : CreateSchedule(h, l, e) \/ UpdateSchedule(h, l, e)
            \/ \E l \in Lessons : RemoveSchedule(h, l)
            \/ Stream(h) \/ LessonWrite(h) \/ LessonFind(h) \/ LessonRemove(h)
  BY <1>21, <1>7, <1>8, <1>9, <1>13, <1>17 DEF Moves
<1>22. CASE FileInsert(h) \/ ObjectDelete(h) \/ FileRemove(h)
  BY <1>22, <1>10, <1>11, <1>12, FileInsertKeepsFiles, ObjectDeleteKeepsFiles,
     FileRemoveKeepsFiles DEF Moves
<1>23. CASE GeneratePdf(h) \/ PdfAddress(h) \/ IssueAddress(h)
  BY <1>23, <1>14, <1>15, GeneratePdfKeepsCerts, PdfAddressKeepsCerts,
     IssueAddressKeepsCerts DEF Moves
<1>24. CASE RevokeLoad(h) \/ RevokeSave(h)
  BY <1>24, <1>15, <1>16, RevokeLoadKeepsCerts, RevokeSaveKeepsCerts DEF Moves
<1> QED
  BY <1>1, <1>18, <1>19, <1>20, <1>21, <1>22, <1>23, <1>24 DEF Moves

\* In a behaviour that is about something else the office stays as it was at first.
OfficePart ==
    IF focus = "office" THEN RequestsInv /\ FilesInv /\ CertsInv ELSE OfficeInit

LEMMA OfficePartHolds == Spec => []OfficePart
<1>1. Init => OfficePart
  BY ControlStarts, OfficeStarts DEF Init, ControlInit, OfficePart
<1>2. OfficePart /\ [Next]_vars => OfficePart'
  <2> SUFFICES ASSUME OfficePart, [Next]_vars PROVE OfficePart'
    OBVIOUS
  <2>1. CASE Next /\ focus = "office"
    <3>1. OfficeNext /\ focus' = "office"
      BY <2>1 DEF Next
    <3> QED
      BY <2>1, <3>1, OfficeStep DEF OfficePart
  <2>2. CASE Next /\ focus # "office"
    BY <2>2 DEF Next, Rest, OfficePart, OfficeInit, officeTables
  <2>3. CASE UNCHANGED vars
    <3>1. UNCHANGED <<focus, control, officeTables>>
      BY <2>3 DEF vars
    <3>2. RequestsInv => RequestsInv'
      BY <3>1 DEF control, RequestsInv, Shape, OverlapsNoted, Busy
    <3>3. FilesInv => FilesInv'
      BY <3>1 DEF control, officeTables, FilesInv, FilesTyped, FileAtWork, FileStep,
         UploadsApart, FilesMatchStorage, At, Data
    <3>4. CertsInv => CertsInv'
      BY <3>1 DEF control, officeTables, CertsInv, CertsTyped, IssueAtWork, RevokeAtWork,
         Issuing, Revoking, IssuesKnown, CertificatesStand, disturbed, At, Data
    <3> QED
      BY <3>1, <3>2, <3>3, <3>4 DEF OfficePart, OfficeInit, officeTables
  <2> QED
    BY <2>1, <2>2, <2>3
<1> QED
  BY <1>1, <1>2, PTL DEF Spec

\* However uploads, deletions and failures interleave, a row stands without its object, or an
\* object without its row, only while a request for it is under way or after one failed.
THEOREM FilesMatchStorageHolds == Spec => []FilesMatchStorage
<1>1. OfficePart => FilesMatchStorage
  BY DEF OfficePart, FilesInv, OfficeInit, FilesMatchStorage
<1> QED
  BY <1>1, OfficePartHolds, PTL

\* However issues and revocations interleave, a revoked certificate is never valid again, and
\* an issued one has its PDF, and its address unless a revocation overlapped the issue.
THEOREM CertificatesStandHolds == Spec => []CertificatesStand
<1>1. OfficePart => CertificatesStand
  BY DEF OfficePart, CertsInv, OfficeInit, CertificatesStand
<1> QED
  BY <1>1, OfficePartHolds, PTL
-----------------------------------------------------------------------------
(* The row of the tenant.                                                  *)

\* What a save makes of `object` in column c of the row.
Wanted(held, c, object) ==
    IF c \notin held.own THEN object
    ELSE IF held.change.whole THEN held.change.object
    ELSE Merge(object, held.change.object)

\* The column that a merge has read is as it was, unless another wrote it.
MergeKnows(h) ==
    LET c == Data(h).column IN
    At(h, "merge-write") =>
        c \in Columns /\ (<<h, c>> \notin stale => Data(h).read = json[c])

\* So are those of the row that a save has read, but for the change it makes, and it writes
\* no other column but one that another wrote.
HeldKnows(h, held) ==
    /\ held = [own |-> held.own, change |-> held.change, json |-> held.json,
               branches |-> held.branches, dirty |-> held.dirty]
    /\ \A c \in Columns : <<h, c>> \notin stale => held.json[c] = Wanted(held, c, json[c])
    /\ <<h, "branches">> \notin stale /\ "branches" \notin held.own => held.branches = branches

DirtyKnown(h, held) ==
    /\ \A c \in Columns :
         c \in held.own /\ c \notin held.dirty /\ <<h, c>> \notin stale => held.json[c] = json[c]
    /\ \A c \in Columns \cup {"branches"} : c \in held.dirty \ held.own => <<h, c>> \in stale

SaveKnows(h) ==
    /\ At(h, "tenant-load") \/ At(h, "tenant-save") => HeldKnows(h, Data(h))
    /\ At(h, "tenant-save") => DirtyKnown(h, Data(h))

\* The objects that a request about branches writes have those that were created.
BranchesRead(h) ==
    At(h, "branch-create") \/ At(h, "branch-edit") =>
        (<<h, "branches">> \notin stale /\ "branches" \notin mixed /\ ~named => opened \subseteq Data(h))

TenantAtWork(h) == MergeKnows(h) /\ SaveKnows(h) /\ BranchesRead(h)

AsAsked == \A c \in Columns \ mixed : json[c] = asked[c]

AllListed ==
    "branches" \notin mixed /\ ~named => branches.plain = {} /\ opened \subseteq branches.objects

TenantInv ==
    /\ RequestsInv
    /\ json = [c \in Columns |-> json[c]] /\ asked = [c \in Columns |-> asked[c]]
    /\ \A h \in Handlers : TenantAtWork(h)
    /\ AsAsked
    /\ AllListed

\* A step of h that writes at most `columns`, and marks them stale to the others.
Marks(h, columns) ==
    /\ \A c \in Columns \ columns : json'[c] = json[c]
    /\ "branches" \notin columns => UNCHANGED <<branches, opened>>
    /\ \A g \in Handlers \ {h} : \A c :
         Busy(g) /\ (c \in columns \/ <<g, c>> \in stale) => <<g, c>> \in stale'
    /\ mixed \subseteq mixed' /\ (named => named')

LEMMA WrittenMarks ==
    ASSUME NEW h \in Handlers, NEW columns, NEW own, Written(h, columns, own)
    PROVE  /\ mixed \subseteq mixed'
           /\ \A c \in columns \cup own : <<h, c>> \in stale => c \in mixed'
           /\ \A g \in Handlers \ {h} : \A c :
                Busy(g) /\ (c \in columns \/ <<g, c>> \in stale) => <<g, c>> \in stale'
<1>1. ASSUME NEW g \in Handlers \ {h}, NEW c, Busy(g), c \in columns \/ <<g, c>> \in stale
      PROVE  <<g, c>> \in stale'
  <2>1. <<g, c>>[1] = g
    OBVIOUS
  <2>2. CASE <<g, c>> \in stale
    BY <2>1, <2>2 DEF Written
  <2>3. CASE c \in columns
    <3>1. <<g, c>> \in (Handlers \ {h}) \X columns
      BY <2>3
    <3> QED
      BY <1>1, <2>1, <3>1 DEF Written
  <2> QED
    BY <1>1, <2>2, <2>3
<1> QED
  BY <1>1 DEF Written

LEMMA OthersKnowTenant ==
    ASSUME TenantInv, NEW h \in Handlers, Moves(h), NEW columns, Marks(h, columns),
           NEW g \in Handlers \ {h}
    PROVE  TenantAtWork(g)'
<1>1. /\ task'[g] = task[g] /\ Data(g)' = Data(g)
      /\ \A step : At(g, step)' <=> At(g, step)
  BY DEF Moves, Data, At
<1>2. \A step : step # "idle" /\ At(g, step) => Busy(g)
  BY DEF At, Busy
<1>3. \A c : Busy(g) /\ <<g, c>> \notin stale' => c \notin columns /\ <<g, c>> \notin stale
  BY DEF Marks
<1>4. \A c \in Columns : Busy(g) /\ <<g, c>> \notin stale' => json'[c] = json[c]
  BY <1>3 DEF Marks
<1>5. MergeKnows(g)'
  <2>1. CASE At(g, "merge-write")
    <3>1. MergeKnows(g) /\ Busy(g)
      BY <1>2, <2>1 DEF TenantInv, TenantAtWork
    <3> QED
      BY <1>1, <1>3, <1>4, <2>1, <3>1 DEF MergeKnows
  <2>2. CASE ~At(g, "merge-write")
    BY <1>1, <2>2 DEF MergeKnows
  <2> QED
    BY <2>1, <2>2
<1>6. SaveKnows(g)'
  <2> DEFINE held == Data(g)
  <2>1. ASSUME At(g, "tenant-load") \/ At(g, "tenant-save"), NEW c \in Columns, <<g, c>> \notin stale'
        PROVE  held.json[c] = Wanted(held, c, json'[c])
    <3>1. SaveKnows(g) /\ Busy(g)
      BY <1>2, <2>1 DEF TenantInv, TenantAtWork
    <3>2. <<g, c>> \notin stale /\ json'[c] = json[c]
      BY <1>3, <1>4, <2>1, <3>1
    <3>3. HeldKnows(g, held)
      BY <2>1, <3>1 DEF SaveKnows
    <3> QED
      BY <3>2, <3>3 DEF HeldKnows
  <2>2. ASSUME At(g, "tenant-load") \/ At(g, "tenant-save"), <<g, "branches">> \notin stale',
               "branches" \notin held.own
        PROVE  held.branches = branches'
    <3>1. SaveKnows(g) /\ Busy(g)
      BY <1>2, <2>2 DEF TenantInv, TenantAtWork
    <3>2. <<g, "branches">> \notin stale /\ branches' = branches
      BY <1>3, <2>2, <3>1 DEF Marks
    <3> QED
      BY <2>2, <3>1, <3>2 DEF SaveKnows, HeldKnows
  <2>3. ASSUME At(g, "tenant-load") \/ At(g, "tenant-save")
        PROVE  held = [own |-> held.own, change |-> held.change, json |-> held.json,
                       branches |-> held.branches, dirty |-> held.dirty]
    <3>1. HeldKnows(g, held)
      BY <2>3 DEF TenantInv, TenantAtWork, SaveKnows
    <3> QED
      BY <3>1 DEF HeldKnows
  <2>4. ASSUME At(g, "tenant-load") \/ At(g, "tenant-save") PROVE HeldKnows(g, held)'
    BY <1>1, <2>1, <2>2, <2>3, <2>4 DEF HeldKnows, Wanted
  <2>5. ASSUME At(g, "tenant-save") PROVE DirtyKnown(g, held)'
    <3>1. DirtyKnown(g, held) /\ Busy(g)
      BY <1>2, <2>5 DEF TenantInv, TenantAtWork, SaveKnows
    <3>2. \A c : <<g, c>> \in stale => <<g, c>> \in stale'
      BY <3>1 DEF Marks
    <3> HIDE DEF held
    <3>3. held' = held
      BY <1>1 DEF held
    <3>4. ASSUME NEW c \in Columns, c \in held.own, c \notin held.dirty, <<g, c>> \notin stale'
          PROVE  held.json[c] = json'[c]
      BY <1>3, <1>4, <3>1, <3>4 DEF DirtyKnown
    <3> QED
      BY <3>1, <3>2, <3>3, <3>4 DEF DirtyKnown
  <2> QED
    BY <1>1, <2>4, <2>5 DEF SaveKnows
<1>7. BranchesRead(g)'
  <2>1. CASE At(g, "branch-create") \/ At(g, "branch-edit")
    <3>1. BranchesRead(g) /\ Busy(g)
      BY <1>2, <2>1 DEF TenantInv, TenantAtWork
    <3>2. <<g, "branches">> \notin stale' => <<g, "branches">> \notin stale /\ opened' = opened
      BY <1>3, <3>1 DEF Marks
    <3> QED
      BY <1>1, <2>1, <3>1, <3>2 DEF BranchesRead, Marks
  <2>2. CASE ~(At(g, "branch-create") \/ At(g, "branch-edit"))
    BY <1>1, <2>2 DEF BranchesRead
  <2> QED
    BY <2>1, <2>2
<1> QED
  BY <1>5, <1>6, <1>7 DEF TenantAtWork

\* A request that begins: nothing is written yet.
LEMMA BeginKeepsTenant ==
    ASSUME TenantInv, NEW h \in Handlers, NEW step, NEW data, step # "idle",
           Begin(h, step, <<"tenant">>, data), UNCHANGED tenantRow, TenantAtWork(h)'
    PROVE  TenantInv'
<1>1. Moves(h)
  BY BeginMoves DEF TenantInv
<1>2. Marks(h, {})
  BY DEF Marks, tenantRow
<1>3. \A g \in Handlers : TenantAtWork(g)'
  BY <1>1, <1>2, OthersKnowTenant
<1> QED
  BY <1>1, <1>3 DEF TenantInv, Moves, tenantRow, AsAsked, AllListed

LEMMA MergeReadKeepsTenant ==
    ASSUME TenantInv, NEW h \in Handlers, NEW c \in Columns, NEW patch, MergeRead(h, c, patch)
    PROVE  TenantInv'
<1> DEFINE data == [column |-> c, read |-> json[c], patch |-> patch]
<1>1. Begin(h, "merge-write", <<"tenant">>, data) /\ UNCHANGED tenantRow
  BY DEF MergeRead, tenancyTables
<1>2. task'[h] = [at |-> "merge-write", on |-> <<"tenant">>, data |-> data]
  BY <1>1, BeginMoves DEF TenantInv
<1>3. TenantAtWork(h)'
  BY <1>1, <1>2 DEF TenantAtWork, MergeKnows, SaveKnows, BranchesRead, At, Data, tenantRow
<1> QED
  BY <1>1, <1>3, BeginKeepsTenant

LEMMA FindKeepsTenant ==
    ASSUME TenantInv, NEW h \in Handlers, NEW own, NEW change, NEW newJson, NEW newBranches,
           FindTenant(h, own, change, newJson, newBranches),
           \A c \in Columns :
             newJson[c] = IF c \notin own THEN json[c] ELSE IF change.whole THEN change.object
                          ELSE Merge(json[c], change.object),
           "branches" \notin own => newBranches = branches
    PROVE  TenantInv'
<1> DEFINE data == [own |-> own, change |-> change, json |-> newJson, branches |-> newBranches,
                    dirty |-> {}]
<1>1. Begin(h, "tenant-load", <<"tenant">>, data) /\ UNCHANGED tenantRow
  BY DEF FindTenant, tenancyTables
<1>2. task'[h] = [at |-> "tenant-load", on |-> <<"tenant">>, data |-> data]
  BY <1>1, BeginMoves DEF TenantInv
<1>3. HeldKnows(h, data)'
  BY <1>1 DEF HeldKnows, Wanted, tenantRow
<1>4. TenantAtWork(h)'
  <2> HIDE DEF data
  <2>1. Data(h)' = data
    BY <1>2 DEF Data
  <2>2. HeldKnows(h, Data(h))'
    BY <1>3, <2>1 DEF HeldKnows
  <2> QED
    BY <1>2, <2>2 DEF TenantAtWork, MergeKnows, SaveKnows, BranchesRead, At
<1> QED
  BY <1>1, <1>4, BeginKeepsTenant

LEMMA MergeIntoKeepsTenant ==
    ASSUME TenantInv, NEW h \in Handlers, NEW c \in Columns, NEW patch, MergeInto(h, c, patch)
    PROVE  TenantInv'
<1> DEFINE change == [whole |-> FALSE, object |-> patch]
           new    == [json EXCEPT ![c] = Merge(json[c], patch)]
<1>1. FindTenant(h, {c}, change, new, branches)
  BY DEF MergeInto, Merged
<1>2. \A b \in Columns :
        new[b] = IF b \notin {c} THEN json[b] ELSE IF change.whole THEN change.object
                 ELSE Merge(json[b], change.object)
  BY DEF TenantInv
<1>3. "branches" \notin {c} => branches = branches
  OBVIOUS
<1> HIDE DEF change, new
<1> QED
  BY <1>1, <1>2, <1>3, FindKeepsTenant

LEMMA UpdateKeepsTenant ==
    ASSUME TenantInv, NEW h \in Handlers, NEW c \in Columns, NEW object, UpdateTenant(h, c, object)
    PROVE  TenantInv'
<1> DEFINE change == [whole |-> TRUE, object |-> object]
           new    == [json EXCEPT ![c] = object]
<1>1. FindTenant(h, {c}, change, new, branches) \/ FindTenant(h, {}, None, json, branches)
  BY DEF UpdateTenant
<1>2. \A b \in Columns :
        new[b] = IF b \notin {c} THEN json[b] ELSE IF change.whole THEN change.object
                 ELSE Merge(json[b], change.object)
  BY DEF TenantInv
<1>3. \A b \in Columns :
        json[b] = IF b \notin {} THEN json[b] ELSE IF None.whole THEN None.object
                  ELSE Merge(json[b], None.object)
  OBVIOUS
<1> HIDE DEF change, new
<1> QED
  BY <1>1, <1>2, <1>3, FindKeepsTenant

LEMMA AddKeepsTenant ==
    ASSUME TenantInv, NEW h \in Handlers, NEW n, AddBranch(h, n)
    PROVE  TenantInv'
<1> DEFINE new == [branches EXCEPT !.plain = branches.plain \cup {n}]
<1>1. FindTenant(h, {"branches"}, None, json, new)
  BY DEF AddBranch
<1>2. \A b \in Columns :
        json[b] = IF b \notin {"branches"} THEN json[b] ELSE IF None.whole THEN None.object
                  ELSE Merge(json[b], None.object)
  BY TenancyAssumption
<1>3. "branches" \notin {"branches"} => new = branches
  OBVIOUS
<1> HIDE DEF new
<1> QED
  BY <1>1, <1>2, <1>3, FindKeepsTenant

LEMMA ReplaceKeepsTenant ==
    ASSUME TenantInv, NEW h \in Handlers, NEW names, ReplaceBranches(h, names)
    PROVE  TenantInv'
<1> DEFINE new == [objects |-> {}, plain |-> names]
<1>1. FindTenant(h, {"branches"}, None, json, new)
  BY DEF ReplaceBranches
<1>2. \A b \in Columns :
        json[b] = IF b \notin {"branches"} THEN json[b] ELSE IF None.whole THEN None.object
                  ELSE Merge(json[b], None.object)
  BY TenancyAssumption
<1>3. "branches" \notin {"branches"} => new = branches
  OBVIOUS
<1> HIDE DEF new
<1> QED
  BY <1>1, <1>2, <1>3, FindKeepsTenant

LEMMA ManageKeepsTenant ==
    ASSUME TenantInv, NEW h \in Handlers, NEW step \in {"branch-create", "branch-edit"},
           ManageBranches(h, step)
    PROVE  TenantInv'
<1>1. Begin(h, step, <<"tenant">>, Parsed(branches)) /\ UNCHANGED tenantRow
  BY DEF ManageBranches, tenancyTables
<1>2. task'[h] = [at |-> step, on |-> <<"tenant">>, data |-> Parsed(branches)]
  BY <1>1, BeginMoves DEF TenantInv
<1>3. "branches" \notin mixed /\ ~named => opened \subseteq Parsed(branches)
  BY DEF TenantInv, AllListed, Parsed
<1>4. TenantAtWork(h)'
  BY <1>1, <1>2, <1>3 DEF TenantAtWork, MergeKnows, SaveKnows, BranchesRead, At, Data, tenantRow
<1> QED
  BY <1>1, <1>4, BeginKeepsTenant

\* The last statement of a request.
LEMMA AnswerKeepsTenant ==
    ASSUME TenantInv, NEW h \in Handlers, Busy(h), Answer(h), NEW columns, Marks(h, columns)
    PROVE  Moves(h) /\ \A g \in Handlers : TenantAtWork(g)'
<1>1. Moves(h) /\ task'[h] = Idle
  BY AnswerMoves DEF TenantInv
<1>2. TenantAtWork(h)'
  BY <1>1 DEF TenantAtWork, MergeKnows, SaveKnows, BranchesRead, At, Idle
<1> QED
  BY <1>1, <1>2, OthersKnowTenant

LEMMA MergeWriteKeepsTenant ==
    ASSUME TenantInv, NEW h \in Handlers, MergeWrite(h)
    PROVE  TenantInv'
<1> DEFINE c == Data(h).column
           patch == Data(h).patch
<1>1. At(h, "merge-write") /\ Busy(h) /\ Answer(h) /\ Written(h, {c}, {c})
  BY DEF MergeWrite, At, Busy
<1>2. /\ json' = [json EXCEPT ![c] = Merge(Data(h).read, patch)]
      /\ asked' = [asked EXCEPT ![c] = Merge(asked[c], patch)]
      /\ UNCHANGED <<branches, opened, named>>
  BY DEF MergeWrite, Merged
<1>3. c \in Columns /\ (<<h, c>> \notin stale => Data(h).read = json[c])
  BY <1>1 DEF TenantInv, TenantAtWork, MergeKnows
<1>4. /\ mixed \subseteq mixed' /\ (c \notin mixed' => <<h, c>> \notin stale)
      /\ Marks(h, {c})
  BY <1>1, <1>2, WrittenMarks DEF Marks, TenantInv
<1>5. Moves(h) /\ \A g \in Handlers : TenantAtWork(g)'
  BY <1>1, <1>4, AnswerKeepsTenant
<1>6. AsAsked'
  <2>1. c \notin mixed' => json'[c] = asked'[c]
    BY <1>2, <1>3, <1>4 DEF TenantInv, AsAsked
  <2> QED
    BY <1>2, <1>4, <2>1 DEF TenantInv, AsAsked
<1>7. AllListed'
  BY <1>2, <1>4 DEF TenantInv, AllListed
<1>8. json' = [b \in Columns |-> json'[b]] /\ asked' = [b \in Columns |-> asked'[b]]
  BY <1>2 DEF TenantInv
<1> QED
  BY <1>5, <1>6, <1>7, <1>8 DEF TenantInv, Moves

LEMMA SystemConfigKeepsTenant ==
    ASSUME TenantInv, NEW h \in Handlers, NEW flags, UpdateSystemConfig(h, flags)
    PROVE  TenantInv'
<1> DEFINE c == "feature_flags"
<1>1. c \in Columns /\ AtOnce(h, <<"tenant">>) /\ Written(h, {c}, {})
  BY DEF UpdateSystemConfig
<1>2. Moves(h) /\ task' = task /\ task[h].at = "idle"
  BY <1>1, AtOnceMoves DEF TenantInv, AtOnce, Busy
<1>3. /\ json' = [json EXCEPT ![c] = flags] /\ asked' = [asked EXCEPT ![c] = flags]
      /\ UNCHANGED <<branches, opened, named>>
  BY DEF UpdateSystemConfig
<1>4. mixed \subseteq mixed' /\ Marks(h, {c})
  BY <1>1, <1>3, WrittenMarks DEF Marks, TenantInv
<1>5. \A g \in Handlers : TenantAtWork(g)'
  <2>1. TenantAtWork(h)'
    BY <1>2 DEF TenantAtWork, MergeKnows, SaveKnows, BranchesRead, At
  <2> QED
    BY <1>2, <1>4, <2>1, OthersKnowTenant
<1>6. AsAsked'
  BY <1>1, <1>3, <1>4 DEF TenantInv, AsAsked
<1>7. AllListed'
  BY <1>3, <1>4 DEF TenantInv, AllListed
<1>8. json' = [b \in Columns |-> json'[b]] /\ asked' = [b \in Columns |-> asked'[b]]
  BY <1>3 DEF TenantInv
<1> QED
  BY <1>2, <1>5, <1>6, <1>7, <1>8 DEF TenantInv, Moves

LEMMA LoadKeepsTenant ==
    ASSUME TenantInv, NEW h \in Handlers, TenantLoad(h)
    PROVE  TenantInv'
<1> DEFINE held == Data(h)
           new  == [held EXCEPT !.dirty = Dirty(held)]
<1>1. At(h, "tenant-load") /\ Busy(h) /\ Goto(h, "tenant-save", new) /\ UNCHANGED tenantRow
  BY DEF TenantLoad, At, Busy, tenancyTables
<1>2. Moves(h) /\ task'[h] = [at |-> "tenant-save", on |-> task[h].on, data |-> new]
  BY <1>1, GotoMoves DEF TenantInv
<1>3. HeldKnows(h, held)
  BY <1>1 DEF TenantInv, TenantAtWork, SaveKnows
<1>4. /\ new = [own |-> held.own, change |-> held.change, json |-> held.json,
                branches |-> held.branches, dirty |-> Dirty(held)]
      /\ new.own = held.own /\ new.change = held.change /\ new.json = held.json
      /\ new.branches = held.branches /\ new.dirty = Dirty(held)
  <2> DEFINE found == Dirty(held)
  <2> HIDE DEF found
  <2>1. held = [own |-> held.own, change |-> held.change, json |-> held.json,
                branches |-> held.branches, dirty |-> held.dirty]
    BY <1>3 DEF HeldKnows
  <2>2. [held EXCEPT !.dirty = found]
          = [own |-> held.own, change |-> held.change, json |-> held.json,
             branches |-> held.branches, dirty |-> found]
    BY <2>1
  <2> QED
    BY <2>2 DEF found
<1> HIDE DEF new
<1>5. HeldKnows(h, new)
  BY <1>3, <1>4 DEF HeldKnows, Wanted
<1>6. DirtyKnown(h, new)
  <2>1. \A c \in Columns : c \notin new.dirty => new.json[c] = json[c]
    BY <1>4 DEF Dirty
  <2>2. ASSUME NEW c \in Columns, c \in new.dirty, c \notin new.own PROVE <<h, c>> \in stale
    <3>1. held.json[c] # json[c]
      BY <1>4, <2>2, TenancyAssumption DEF Dirty
    <3> QED
      BY <1>3, <1>4, <2>2, <3>1 DEF HeldKnows, Wanted
  <2>3. ASSUME "branches" \in new.dirty, "branches" \notin new.own
        PROVE  <<h, "branches">> \in stale
    <3>1. held.branches # branches
      BY <1>4, <2>3, TenancyAssumption DEF Dirty
    <3> QED
      BY <1>3, <1>4, <2>3, <3>1 DEF HeldKnows
  <2> QED
    BY <2>1, <2>2, <2>3 DEF DirtyKnown
<1>7. TenantAtWork(h)'
  <2>1. Data(h)' = new
    BY <1>2 DEF Data
  <2>2. HeldKnows(h, Data(h))' /\ DirtyKnown(h, Data(h))'
    BY <1>1, <1>5, <1>6, <2>1 DEF HeldKnows, DirtyKnown, tenantRow, Wanted
  <2> QED
    BY <1>2, <2>2 DEF TenantAtWork, MergeKnows, SaveKnows, BranchesRead, At
<1>8. Marks(h, {})
  BY <1>1 DEF Marks, tenantRow
<1>9. \A g \in Handlers : TenantAtWork(g)'
  BY <1>2, <1>7, <1>8, OthersKnowTenant
<1> QED
  BY <1>1, <1>2, <1>9 DEF TenantInv, Moves, tenantRow, AsAsked, AllListed

LEMMA SaveKeepsTenant ==
    ASSUME TenantInv, NEW h \in Handlers, TenantSave(h)
    PROVE  TenantInv'
<1> DEFINE held == Data(h)
           columns == held.dirty
<1>1. At(h, "tenant-save") /\ Busy(h) /\ Answer(h) /\ Written(h, columns, held.own)
  BY DEF TenantSave, At, Busy
<1>2. /\ json' = [c \in Columns |-> IF c \in columns THEN held.json[c] ELSE json[c]]
      /\ branches' = IF "branches" \in columns THEN held.branches ELSE branches
      /\ asked' = [c \in Columns |-> Wanted(held, c, asked[c])]
      /\ named' = (named \/ "branches" \in held.own)
      /\ opened' = opened
  BY DEF TenantSave, Wanted
<1>3. HeldKnows(h, held) /\ DirtyKnown(h, held)
  BY <1>1 DEF TenantInv, TenantAtWork, SaveKnows
<1>4. /\ mixed \subseteq mixed'
      /\ \A c \in columns \cup held.own : <<h, c>> \in stale => c \in mixed'
      /\ \A g \in Handlers \ {h} : \A c :
           Busy(g) /\ (c \in columns \/ <<g, c>> \in stale) => <<g, c>> \in stale'
  BY <1>1, WrittenMarks
<1> HIDE DEF held
<1>5. ASSUME NEW c \in Columns \ mixed' PROVE json'[c] = asked'[c]
  <2>1. json[c] = asked[c]
    BY <1>4 DEF TenantInv, AsAsked
  <2>2. CASE c \in held.own
    <3>1. <<h, c>> \notin stale
      BY <1>4, <2>2
    <3>2. held.json[c] = Wanted(held, c, json[c])
      BY <1>3, <3>1 DEF HeldKnows
    <3>3. json'[c] = held.json[c]
      BY <1>2, <1>3, <2>2, <3>1 DEF DirtyKnown
    <3> QED
      BY <1>2, <2>1, <3>2, <3>3
  <2>3. CASE c \notin held.own
    <3>1. c \notin columns
      BY <1>3, <1>4, <2>3 DEF DirtyKnown
    <3> QED
      BY <1>2, <2>1, <2>3, <3>1 DEF Wanted
  <2> QED
    BY <2>2, <2>3
<1>6. \A c \in Columns \ columns : json'[c] = json[c]
  BY <1>2
<1>7. AllListed'
  <2>1. ASSUME "branches" \notin mixed', ~named' PROVE branches' = branches /\ ~named
    BY <1>2, <1>3, <1>4, <2>1 DEF DirtyKnown
  <2> QED
    BY <1>2, <1>4, <2>1 DEF TenantInv, AllListed
<1>8. /\ "branches" \notin columns => UNCHANGED <<branches, opened>>
      /\ named => named'
  BY <1>2
<1>9. Moves(h) /\ \A g \in Handlers : TenantAtWork(g)'
  BY <1>1, <1>4, <1>6, <1>8, AnswerKeepsTenant DEF Marks
<1>10. AsAsked'
  BY <1>5 DEF AsAsked
<1> QED
  BY <1>2, <1>7, <1>9, <1>10 DEF TenantInv, Moves

LEMMA CreateKeepsTenant ==
    ASSUME TenantInv, NEW h \in Handlers, NEW b, CreateBranch(h, b)
    PROVE  TenantInv'
<1>1. At(h, "branch-create") /\ Busy(h) /\ Answer(h) /\ Written(h, {"branches"}, {})
  BY DEF CreateBranch, At, Busy
<1>2. /\ branches' = [objects |-> Data(h) \cup {b}, plain |-> {}]
      /\ opened' = opened \cup {b} /\ UNCHANGED <<json, asked, named>>
  BY DEF CreateBranch, WithNew
<1>3. <<h, "branches">> \notin stale /\ "branches" \notin mixed /\ ~named => opened \subseteq Data(h)
  BY <1>1 DEF TenantInv, TenantAtWork, BranchesRead
<1>4. /\ mixed \subseteq mixed' /\ (<<h, "branches">> \in stale => "branches" \in mixed')
      /\ Marks(h, {"branches"})
  BY <1>1, <1>2, WrittenMarks DEF Marks
<1>5. Moves(h) /\ \A g \in Handlers : TenantAtWork(g)'
  BY <1>1, <1>4, AnswerKeepsTenant
<1>6. AllListed' /\ AsAsked'
  BY <1>2, <1>3, <1>4 DEF TenantInv, AllListed, AsAsked
<1> QED
  BY <1>2, <1>5, <1>6 DEF TenantInv, Moves

LEMMA EditKeepsTenant ==
    ASSUME TenantInv, NEW h \in Handlers, EditBranch(h)
    PROVE  TenantInv'
<1>1. At(h, "branch-edit") /\ Busy(h) /\ Answer(h) /\ Written(h, {"branches"}, {})
  BY DEF EditBranch, At, Busy
<1>2. branches' = [objects |-> Data(h), plain |-> {}] /\ UNCHANGED <<json, asked, opened, named>>
  BY DEF EditBranch
<1>3. <<h, "branches">> \notin stale /\ "branches" \notin mixed /\ ~named => opened \subseteq Data(h)
  BY <1>1 DEF TenantInv, TenantAtWork, BranchesRead
<1>4. /\ mixed \subseteq mixed' /\ (<<h, "branches">> \in stale => "branches" \in mixed')
      /\ Marks(h, {"branches"})
  BY <1>1, <1>2, WrittenMarks DEF Marks
<1>5. Moves(h) /\ \A g \in Handlers : TenantAtWork(g)'
  BY <1>1, <1>4, AnswerKeepsTenant
<1>6. AllListed' /\ AsAsked'
  BY <1>2, <1>3, <1>4 DEF TenantInv, AllListed, AsAsked
<1> QED
  BY <1>2, <1>5, <1>6 DEF TenantInv, Moves

LEMMA BreakKeepsTenant ==
    ASSUME TenantInv, NEW h \in Handlers, TenancyBreaks(h)
    PROVE  TenantInv'
<1>1. /\ Breaks(h) /\ stale' = {p \in stale : p[1] # h}
      /\ UNCHANGED <<json, branches, asked, opened, named, mixed>>
  BY DEF TenancyBreaks
<1>2. Moves(h) /\ task'[h] = Idle
  BY <1>1, BreaksMoves DEF TenantInv
<1>3. \A g \in Handlers \ {h} : \A c : <<g, c>> \in stale => <<g, c>> \in stale'
  BY <1>1
<1>4. Marks(h, {})
  BY <1>1, <1>3 DEF Marks
<1>5. TenantAtWork(h)'
  BY <1>2 DEF TenantAtWork, MergeKnows, SaveKnows, BranchesRead, At, Idle
<1>6. \A g \in Handlers : TenantAtWork(g)'
  BY <1>2, <1>4, <1>5, OthersKnowTenant
<1> QED
  BY <1>1, <1>2, <1>6 DEF TenantInv, Moves, AsAsked, AllListed

LEMMA TenantStep == ASSUME TenantInv, TenantNext PROVE TenantInv'
<1>1. PICK h \in Handlers :
        \/ \E c \in Columns, p \in Patches :
              MergeRead(h, c, p) \/ MergeInto(h, c, p) \/ UpdateTenant(h, c, p)
        \/ \E p \in Patches : UpdateSystemConfig(h, p)
        \/ \E step \in {"branch-create", "branch-edit"} : ManageBranches(h, step)
        \/ \E b \in Branches : CreateBranch(h, b)
        \/ \E n \in Names : AddBranch(h, n)
        \/ \E names \in SUBSET Names : ReplaceBranches(h, names)
        \/ MergeWrite(h) \/ TenantLoad(h) \/ TenantSave(h) \/ EditBranch(h)
        \/ TenancyBreaks(h)
  BY DEF TenantNext
<1> QED
  BY <1>1, MergeReadKeepsTenant, MergeIntoKeepsTenant, UpdateKeepsTenant,
     SystemConfigKeepsTenant, ManageKeepsTenant, CreateKeepsTenant, AddKeepsTenant,
     ReplaceKeepsTenant, MergeWriteKeepsTenant, LoadKeepsTenant, SaveKeepsTenant, EditKeepsTenant, BreakKeepsTenant

TenantPart ==
    IF focus = "tenant" THEN TenantInv
    ELSE /\ json = [c \in Columns |-> Defaults] /\ asked = [c \in Columns |-> Defaults]
         /\ branches = [objects |-> {}, plain |-> {}] /\ opened = {}

LEMMA TenantPartHolds == Spec => []TenantPart
<1>1. Init => TenantPart
  <2> SUFFICES ASSUME Init, focus = "tenant" PROVE TenantInv
    BY DEF Init, TenancyInit, TenantPart
  <2>1. RequestsInv
    BY ControlStarts DEF Init
  <2>2. \A h \in Handlers : TenantAtWork(h)
    BY DEF Init, ControlInit, TenantAtWork, MergeKnows, SaveKnows, BranchesRead, At, Idle
  <2> QED
    BY <2>1, <2>2 DEF Init, TenancyInit, TenantInv, AsAsked, AllListed
<1>2. TenantPart /\ [Next]_vars => TenantPart'
  <2> SUFFICES ASSUME TenantPart, [Next]_vars PROVE TenantPart'
    OBVIOUS
  <2>1. CASE Next /\ focus = "tenant"
    <3>1. TenantNext /\ focus' = "tenant"
      BY <2>1 DEF Next
    <3> QED
      BY <2>1, <3>1, TenantStep DEF TenantPart
  <2>2. CASE Next /\ focus # "tenant"
    BY <2>2 DEF Next, Rest, TenantPart, tenantRow
  <2>3. CASE UNCHANGED vars
    <3>1. UNCHANGED <<focus, control, tenantRow>>
      BY <2>3 DEF vars, tenancyTables
    <3>2. RequestsInv => RequestsInv'
      BY <3>1 DEF control, RequestsInv, Shape, OverlapsNoted, Busy
    <3>3. \A h \in Handlers : TenantAtWork(h) => TenantAtWork(h)'
      BY <3>1 DEF control, tenantRow, TenantAtWork, MergeKnows, SaveKnows, HeldKnows, DirtyKnown,
         BranchesRead, Wanted, At, Data
    <3>4. TenantInv => TenantInv'
      BY <3>1, <3>2, <3>3 DEF tenantRow, TenantInv, AsAsked, AllListed
    <3> QED
      BY <3>1, <3>4 DEF TenantPart, tenantRow
  <2> QED
    BY <2>1, <2>2, <2>3
<1> QED
  BY <1>1, <1>2, PTL DEF Spec

\* What a reader is shown of the flags and settings is what the requests asked for, one after
\* the other, whatever whole rows were saved between: a row saved by a request that read it
\* before another wrote it carries an old value only of the columns noted as mixed.
THEOREM ConfigStandsHolds == Spec => []ConfigStands
<1>1. TenantPart => ConfigStands
  BY DEF TenantPart, TenantInv, AsAsked, ConfigStands
<1> QED
  BY <1>1, TenantPartHolds, PTL

\* Every branch the owner created is listed, whatever was created, edited or saved since,
\* unless one who had read the branches before another wrote them wrote them back, or a plain
\* name was added.
THEOREM BranchesStandHolds == Spec => []BranchesStand
<1>1. TenantPart => BranchesStand
  BY DEF TenantPart, TenantInv, AllListed, BranchesStand, Parsed
<1> QED
  BY <1>1, TenantPartHolds, PTL
-----------------------------------------------------------------------------
(* Roles.                                                                  *)

\* No other request is under way that changes what `tag` names, or that was noted.
Alone(h, tag) ==
    tag \notin disturbed' => \A g \in Handlers \ {h} : ~(Busy(g) /\ task[g].on = tag)

LEMMA BeginsAlone == ASSUME NEW h, NEW tag, Joins(h, tag) PROVE Alone(h, tag)
BY DEF Joins, Alone, disturbed

LEMMA WorksAlone ==
    ASSUME RequestsInv, NEW h \in Handlers, Busy(h), Moves(h) PROVE Alone(h, task[h].on)
BY DEF RequestsInv, OverlapsNoted, Moves, Alone, disturbed

RolesTag   == <<"roles">>
RoleTag(r) == <<"role", r>>

Deleting(h) == At(h, "role-find") \/ At(h, "role-remove")

\* Rows are used once; system roles have a name and are never removed.
RowsTyped ==
    \A r \in RoleIds :
        /\ roles[r].state = "absent" => roles[r] = NoRole
        /\ roles[r].system => roles[r].state = "live"
        /\ roles[r].system <=> roles[r].name # None

RolesTyped ==
    /\ roles \in [RoleIds -> Role]
    /\ holds \in [Staff -> RoleIds \cup {None}]
    /\ RowsTyped
    /\ away \subseteq bygone /\ bygone \subseteq Staff

\* A request that lists the roles has still to insert what is not there.
SeedAtWork(h) ==
    /\ At(h, "seed") =>
         /\ task[h].on = RolesTag
         /\ Data(h) \subseteq SystemRoles /\ SystemRoles \ Data(h) \subseteq NamesOfRoles
         /\ RolesTag \notin disturbed => \A n \in Data(h) : SeededAs(n) = {}
    /\ At(h, "roles-count") => SystemRoles \subseteq NamesOfRoles

\* Nobody holds it, but for users who were deleted with it.
Unused(r) == \A u \in Staff \ bygone : holds[u] # r

\* So it is with a role that is being deleted after its users were counted.
DeleteAtWork(h) ==
    LET r == Data(h) IN
    /\ At(h, "holders-count") \/ Deleting(h) =>
         /\ r \in RoleIds
         /\ task[h].on = RoleTag(r)
         /\ ~roles[r].system /\ roles[r].state # "absent"
    /\ Deleting(h) => \/ r \in unchecked \/ RoleTag(r) \in disturbed
                      \/ Unused(r)

AssignAtWork(h) ==
    LET r == Data(h).role IN
    At(h, "assign") =>
        /\ Data(h).user \in Staff /\ r \in RoleIds \cup {None}
        /\ r # None => /\ task[h].on = RoleTag(r)
                       /\ r \in LiveRoles \cup unchecked \/ RoleTag(r) \in disturbed

Created == {r \in RoleIds : roles[r].state # "absent"}

RowAtWork(h) ==
    /\ At(h, "user-delete") \/ At(h, "user-restore") => Data(h) \in Staff
    /\ At(h, "permissions-load") => Data(h) \in Created
    /\ At(h, "permissions-write") => Data(h).role \in Created

RoleAtWork(h) == SeedAtWork(h) /\ DeleteAtWork(h) /\ AssignAtWork(h) /\ RowAtWork(h)

SeededOnce ==
    RolesTag \notin disturbed =>
        \A n \in SystemRoles : \A r, s \in SeededAs(n) : r = s

RolesInv ==
    /\ RequestsInv
    /\ RolesTyped
    /\ \A h \in Handlers : RoleAtWork(h)
    /\ SeededOnce
    /\ HeldRolesExist

\* What a row becomes: it is used for a role, or a role that a client created is removed or
\* comes back.
RowsKept ==
    \A r \in RoleIds :
        \/ roles'[r] = roles[r]
        \/ roles[r].state = "absent" /\ roles'[r].state = "live"
        \/ /\ ~roles[r].system /\ roles[r].state # "absent"
           /\ roles'[r].state # "absent" /\ ~roles'[r].system

\* Whatever another request could miss happens on the tag that request has, too.
OnTags(h) ==
    /\ \A r \in RoleIds :
         /\ roles'[r].system /\ ~roles[r].system => Alone(h, RolesTag)
         /\ r \in LiveRoles /\ r \notin LiveRoles' => Alone(h, RoleTag(r))
    /\ \A u \in Staff \ bygone' :
         (u \in bygone \/ holds'[u] # holds[u]) /\ holds'[u] # None => Alone(h, RoleTag(holds'[u]))

\* The names of the system roles that are there stay there.
LEMMA NamesStay ==
    ASSUME RolesTyped, RolesTyped', RowsKept, NEW n \in SystemRoles, n \in NamesOfRoles
    PROVE  n \in NamesOfRoles'
<1>1. PICK r \in LiveRoles : roles[r].name = n
  BY DEF NamesOfRoles
<1>2. r \in RoleIds /\ roles[r].state = "live" /\ roles[r].system
  BY <1>1, TenancyAssumption DEF RolesTyped, RowsTyped, LiveRoles
<1>3. roles'[r] = roles[r]
  BY <1>2 DEF RowsKept
<1>4. r \in LiveRoles' /\ roles'[r].name = n
  BY <1>1, <1>2, <1>3 DEF LiveRoles
<1> QED
  BY <1>4 DEF NamesOfRoles

LEMMA SeedsStay ==
    ASSUME RolesTyped, RolesTyped', RowsKept, NEW n \in SystemRoles,
           \A r \in RoleIds : roles'[r].system => roles[r].system
    PROVE  SeededAs(n)' = SeededAs(n)
<1>1. ASSUME NEW r \in RoleIds, roles[r].system \/ roles'[r].system
      PROVE  roles'[r] = roles[r]
  <2>1. roles[r].system /\ roles[r].state = "live"
    BY <1>1 DEF RolesTyped, RowsTyped
  <2> QED
    BY <2>1 DEF RowsKept
<1> QED
  BY <1>1 DEF SeededAs, LiveRoles

LEMMA OthersKnowRoles ==
    ASSUME RolesInv, NEW h \in Handlers, Moves(h), RolesTyped', RowsKept, OnTags(h),
           unchecked \subseteq unchecked', NEW g \in Handlers \ {h}
    PROVE  RoleAtWork(g)'
<1>1. task'[g] = task[g] /\ disturbed \subseteq disturbed'
  BY DisturbedGrows DEF Moves
<1>2. RoleAtWork(g) /\ RolesTyped
  BY DEF RolesInv
<1>3. SeedAtWork(g)'
  <2>1. ASSUME At(g, "seed"), RolesTag \notin disturbed', NEW n \in Data(g)
        PROVE  SeededAs(n)' = {}
    <3>1. /\ task[g].on = RolesTag /\ n \in SystemRoles /\ SeededAs(n) = {}
          /\ Busy(g)
      BY <1>1, <1>2, <2>1 DEF RoleAtWork, SeedAtWork, At, Busy
    <3>2. ~Alone(h, RolesTag)
      BY <2>1, <3>1 DEF Alone
    <3>3. \A r \in RoleIds : roles'[r].system => roles[r].system
      BY <3>2 DEF OnTags
    <3> QED
      BY <1>2, <3>1, <3>3, SeedsStay
  <2>2. \A n \in SystemRoles : n \in NamesOfRoles => n \in NamesOfRoles'
    BY <1>2, NamesStay
  <2> QED
    BY <1>1, <1>2, <2>1, <2>2 DEF RoleAtWork, SeedAtWork, At, Data
<1>4. DeleteAtWork(g)'
  <2> DEFINE r == Data(g)
  <2>1. CASE At(g, "holders-count") \/ Deleting(g)
    <3>0. r' = r
      BY <1>1 DEF Data
    <3>1. /\ r \in RoleIds /\ task[g].on = RoleTag(r)
          /\ ~roles[r].system /\ roles[r].state # "absent"
      BY <1>2, <2>1 DEF RoleAtWork, DeleteAtWork
    <3>2. ~roles'[r].system /\ roles'[r].state # "absent"
      BY <3>1 DEF RowsKept
    <3>3. Deleting(g) => \/ r \in unchecked' \/ RoleTag(r) \in disturbed'
                         \/ Unused(r)'
      <4> SUFFICES ASSUME Deleting(g), r \notin unchecked', RoleTag(r) \notin disturbed'
                   PROVE  Unused(r)'
        OBVIOUS
      <4>1. Unused(r)
        BY <1>1, <1>2 DEF RoleAtWork, DeleteAtWork
      <4>2. Busy(g) /\ ~Alone(h, RoleTag(r))
        BY <2>1, <3>1 DEF Alone, Busy, Deleting, At
      <4>3. r # None
        BY <3>1, TenancyAssumption
      <4> HIDE DEF r
      <4>4. \A u \in Staff \ bygone' : holds'[u] # r
        BY <4>1, <4>2, <4>3 DEF OnTags, Unused
      <4> QED
        BY <3>0, <4>4 DEF Unused
    <3> QED
      BY <1>1, <3>0, <3>1, <3>2, <3>3 DEF DeleteAtWork, Deleting, At
  <2>2. CASE ~(At(g, "holders-count") \/ Deleting(g))
    BY <1>1, <2>2 DEF DeleteAtWork, Deleting, At
  <2> QED
    BY <2>1, <2>2
<1>5. AssignAtWork(g)'
  <2> DEFINE r == Data(g).role
  <2>1. CASE At(g, "assign")
    <3>1. /\ Data(g).user \in Staff /\ r \in RoleIds \cup {None}
          /\ r # None => /\ task[g].on = RoleTag(r)
                         /\ r \in LiveRoles \cup unchecked \/ RoleTag(r) \in disturbed
      BY <1>2, <2>1 DEF RoleAtWork, AssignAtWork
    <3>2. ASSUME r # None, RoleTag(r) \notin disturbed', r \notin unchecked'
          PROVE  r \in LiveRoles'
      <4>1. Busy(g) /\ task[g].on = RoleTag(r) /\ r \in LiveRoles /\ r \in RoleIds
        BY <1>1, <2>1, <3>1, <3>2 DEF Busy, At
      <4>2. ~Alone(h, RoleTag(r))
        BY <3>2, <4>1 DEF Alone
      <4> QED
        BY <4>1, <4>2 DEF OnTags
    <3>3. Data(g)' = Data(g)
      BY <1>1 DEF Data
    <3> QED
      BY <1>1, <3>1, <3>2, <3>3 DEF AssignAtWork, At
  <2>2. CASE ~At(g, "assign")
    BY <1>1, <2>2 DEF AssignAtWork, At
  <2> QED
    BY <2>1, <2>2
<1>6. RowAtWork(g)'
  <2>1. Created \subseteq Created'
    BY <1>2 DEF Created, RowsKept
  <2> QED
    BY <1>1, <1>2, <2>1 DEF RoleAtWork, RowAtWork, At, Data
<1> QED
  BY <1>3, <1>4, <1>5, <1>6 DEF RoleAtWork

\* A step that leaves the rows and the roles of the users alone.
LEMMA SameHolders ==
    ASSUME RolesInv, NEW h \in Handlers, Moves(h), UNCHANGED <<roles, holds>>,
           unchecked \subseteq unchecked', RoleAtWork(h)',
           bygone \subseteq bygone', away' \subseteq bygone', bygone' \subseteq Staff
    PROVE  RolesInv'
<1>1. RolesTyped' /\ RowsKept /\ OnTags(h) /\ disturbed \subseteq disturbed'
  BY DisturbedGrows DEF RolesInv, RolesTyped, RowsTyped, RowsKept, OnTags, LiveRoles
<1>2. \A g \in Handlers : RoleAtWork(g)'
  BY <1>1, OthersKnowRoles
<1>3. SeededOnce' /\ HeldRolesExist'
  BY <1>1 DEF RolesInv, SeededOnce, SeededAs, HeldRolesExist, LiveRoles
<1> QED
  BY <1>1, <1>2, <1>3 DEF RolesInv, Moves

LEMMA SameRoles ==
    ASSUME RolesInv, NEW h \in Handlers, Moves(h), UNCHANGED <<roles, holds, away, bygone>>,
           unchecked \subseteq unchecked', RoleAtWork(h)'
    PROVE  RolesInv'
BY SameHolders DEF RolesInv, RolesTyped

LEMMA ListKeepsRoles ==
    ASSUME RolesInv, NEW h \in Handlers, ListRoles(h)
    PROVE  RolesInv'
<1> DEFINE data == SystemRoles \ NamesOfRoles
<1>1. Begin(h, "seed", RolesTag, data) /\ UNCHANGED <<roles, holds, away, unchecked, bygone>>
  BY DEF ListRoles, Missing, RolesTag, tenancyTables, rolesTables
<1> HIDE DEF data
<1>2. Moves(h) /\ task'[h] = [at |-> "seed", on |-> RolesTag, data |-> data]
  BY <1>1, BeginMoves DEF RolesInv
<1>3. SeedAtWork(h)'
  <2>1. \A n \in data : SeededAs(n) = {}
    BY DEF data, SeededAs, NamesOfRoles
  <2>2. data \subseteq SystemRoles /\ SystemRoles \ data \subseteq NamesOfRoles
    BY DEF data
  <2>3. NamesOfRoles' = NamesOfRoles /\ \A n : SeededAs(n)' = SeededAs(n)
    BY <1>1 DEF NamesOfRoles, SeededAs, LiveRoles
  <2> QED
    BY <1>2, <2>1, <2>2, <2>3 DEF SeedAtWork, At, Data
<1>4. DeleteAtWork(h)' /\ AssignAtWork(h)' /\ RowAtWork(h)'
  BY <1>2 DEF DeleteAtWork, AssignAtWork, RowAtWork, Deleting, At
<1> QED
  BY <1>1, <1>2, <1>3, <1>4, SameRoles DEF RoleAtWork

LEMMA SeedKeepsRoles ==
    ASSUME RolesInv, NEW h \in Handlers, NEW n \in SystemRoles, NEW r \in RoleIds,
           SeedRole(h, n, r)
    PROVE  RolesInv'
<1> DEFINE data == Data(h) \ {n}
<1>1. /\ At(h, "seed") /\ Busy(h) /\ Goto(h, "seed", data) /\ n \in Data(h)
      /\ roles[r].state = "absent" /\ UNCHANGED <<holds, away, unchecked, bygone>>
      /\ roles' = [roles EXCEPT ![r] = [state |-> "live", system |-> TRUE, name |-> n]]
  BY DEF SeedRole, At, Busy
<1> HIDE DEF data
<1>2. /\ Moves(h) /\ overlapped' = overlapped /\ failed' = failed
      /\ task'[h] = [at |-> "seed", on |-> task[h].on, data |-> data]
  BY <1>1, GotoMoves DEF RolesInv
<1>3. /\ task[h].on = RolesTag /\ disturbed' = disturbed
      /\ Data(h) \subseteq SystemRoles /\ SystemRoles \ Data(h) \subseteq NamesOfRoles
      /\ RolesTag \notin disturbed => \A m \in Data(h) : SeededAs(m) = {}
  BY <1>1, <1>2 DEF RolesInv, RoleAtWork, SeedAtWork, disturbed
<1>4. n # None /\ roles[r] = NoRole
  BY <1>1, TenancyAssumption DEF RolesInv, RolesTyped, RowsTyped
<1>5. /\ roles'[r] = [state |-> "live", system |-> TRUE, name |-> n]
      /\ \A s \in RoleIds \ {r} : roles'[s] = roles[s]
      /\ roles' \in [RoleIds -> Role]
  BY <1>1 DEF RolesInv, RolesTyped, Role
<1>6. RolesTyped' /\ RowsKept
  BY <1>1, <1>4, <1>5 DEF RolesInv, RolesTyped, RowsTyped, RowsKept
<1>7. OnTags(h)
  <2>1. Alone(h, RolesTag)
    BY <1>1, <1>2, <1>3, WorksAlone DEF RolesInv
  <2> QED
    BY <1>1, <1>4, <1>5, <2>1 DEF OnTags, LiveRoles, NoRole
<1>8. LiveRoles' = LiveRoles \cup {r} /\ r \notin LiveRoles
  BY <1>1, <1>5 DEF LiveRoles
<1>9. /\ SeededAs(n)' = SeededAs(n) \cup {r}
      /\ \A m \in SystemRoles \ {n} : SeededAs(m)' = SeededAs(m)
  BY <1>5, <1>8 DEF SeededAs, LiveRoles
<1>10. RoleAtWork(h)'
  <2>1. \A m \in SystemRoles : m \in NamesOfRoles \/ m = n => m \in NamesOfRoles'
    BY <1>5, <1>6, <1>8, NamesStay DEF RolesInv, NamesOfRoles
  <2>2. At(h, "seed")' /\ Data(h)' = data /\ task'[h].on = RolesTag
    BY <1>2, <1>3 DEF At, Data
  <2>3. SeedAtWork(h)'
    BY <1>3, <1>9, <2>1, <2>2 DEF SeedAtWork, At, data
  <2> QED
    BY <2>2, <2>3 DEF RoleAtWork, DeleteAtWork, AssignAtWork, RowAtWork, Deleting, At
<1>11. \A g \in Handlers : RoleAtWork(g)'
  BY <1>1, <1>2, <1>6, <1>7, <1>10, OthersKnowRoles
<1>12. SeededOnce'
  BY <1>1, <1>3, <1>9 DEF RolesInv, SeededOnce
<1>13. HeldRolesExist'
  BY <1>1, <1>3, <1>8 DEF RolesInv, HeldRolesExist
<1> QED
  BY <1>2, <1>6, <1>11, <1>12, <1>13 DEF RolesInv, Moves

LEMMA FindKeepsRoles ==
    ASSUME RolesInv, NEW h \in Handlers, RolesFind(h) \/ RolesCount(h)
    PROVE  RolesInv'
<1>1. UNCHANGED <<roles, holds, away, unchecked, bygone>> /\ Busy(h)
  BY DEF RolesFind, RolesCount, tenancyTables, rolesTables, At, Busy
<1>2. SystemRoles \subseteq NamesOfRoles
  BY DEF RolesFind, RolesCount, RolesInv, RoleAtWork, SeedAtWork
<1>3. CASE Answer(h)
  <2>1. Moves(h) /\ task'[h] = Idle
    BY <1>1, <1>3, AnswerMoves DEF RolesInv
  <2>2. RoleAtWork(h)'
    BY <2>1 DEF RoleAtWork, SeedAtWork, DeleteAtWork, AssignAtWork, RowAtWork, Deleting, At, Idle
  <2> QED
    BY <1>1, <2>1, <2>2, SameRoles
<1>4. ASSUME NEW data, Goto(h, "roles-count", data)
      PROVE  RolesInv'
  <2>1. Moves(h) /\ task'[h] = [at |-> "roles-count", on |-> task[h].on, data |-> data]
    BY <1>1, <1>4, GotoMoves DEF RolesInv
  <2>2. NamesOfRoles' = NamesOfRoles
    BY <1>1 DEF NamesOfRoles, LiveRoles
  <2>3. RoleAtWork(h)'
    BY <1>2, <2>1, <2>2 DEF RoleAtWork, SeedAtWork, DeleteAtWork, AssignAtWork, RowAtWork, Deleting, At
  <2> QED
    BY <1>1, <2>1, <2>3, SameRoles
<1> QED
  BY <1>3, <1>4 DEF RolesFind, RolesCount

LEMMA RowOf ==
    ASSUME RolesTyped, NEW r \in RoleIds, NEW state \in {"live", "removed"},
           roles' = [roles EXCEPT ![r].state = state]
    PROVE  /\ roles'[r] = [state |-> state, system |-> roles[r].system, name |-> roles[r].name]
           /\ \A s \in RoleIds \ {r} : roles'[s] = roles[s]
           /\ roles' \in [RoleIds -> Role]
<1>1. roles[r] \in Role
  BY DEF RolesTyped
<1>2. roles[r] = [state |-> roles[r].state, system |-> roles[r].system, name |-> roles[r].name]
  BY <1>1 DEF Role
<1>3. roles'[r] = [state |-> state, system |-> roles[r].system, name |-> roles[r].name]
  BY <1>2 DEF RolesTyped
<1>4. roles'[r] \in Role
  BY <1>1, <1>3 DEF Role
<1>5. \A s \in RoleIds \ {r} : roles'[s] = roles[s]
  BY DEF RolesTyped
<1>6. roles' = [s \in RoleIds |-> roles'[s]]
  BY DEF RolesTyped
<1> QED
  BY <1>3, <1>4, <1>5, <1>6 DEF RolesTyped

\* A role that a client created appears, for the first time or again.
LEMMA RowAppears ==
    ASSUME RolesTyped, NEW r \in RoleIds, roles' = [roles EXCEPT ![r].state = "live"],
           UNCHANGED <<holds, away, bygone>>
    PROVE  /\ RolesTyped' /\ RowsKept /\ LiveRoles \subseteq LiveRoles'
           /\ \A s \in RoleIds : roles'[s].system => roles[s].system
<1>1. /\ roles'[r] = [state |-> "live", system |-> roles[r].system, name |-> roles[r].name]
      /\ \A s \in RoleIds \ {r} : roles'[s] = roles[s]
      /\ roles' \in [RoleIds -> Role]
  BY RowOf
<1>2. /\ roles'[r].state = "live"
      /\ roles'[r].system = roles[r].system /\ roles'[r].name = roles[r].name
  BY <1>1
<1>3. ASSUME roles[r].system PROVE roles'[r] = roles[r]
  <2>1. roles[r].state = "live" /\ roles[r] \in Role
    BY <1>3 DEF RolesTyped, RowsTyped
  <2> QED
    BY <1>1, <2>1 DEF Role
<1>4. RowsTyped'
  BY <1>1, <1>2 DEF RolesTyped, RowsTyped
<1>5. ~roles[r].system \/ roles[r].system
  BY DEF RolesTyped, Role
<1>6. RowsKept
  <2> SUFFICES ASSUME NEW s \in RoleIds
               PROVE  \/ roles'[s] = roles[s]
                      \/ roles[s].state = "absent" /\ roles'[s].state = "live"
                      \/ /\ ~roles[s].system /\ roles[s].state # "absent"
                         /\ roles'[s].state # "absent" /\ ~roles'[s].system
    BY DEF RowsKept
  <2>1. CASE s = r
    BY <1>2, <1>3, <2>1
  <2> QED
    BY <1>1, <2>1
<1>7. LiveRoles \subseteq LiveRoles' /\ \A s \in RoleIds : roles'[s].system => roles[s].system
  BY <1>1, <1>2 DEF LiveRoles
<1> QED
  BY <1>1, <1>4, <1>6, <1>7 DEF RolesTyped

LEMMA CreateKeepsRoles ==
    ASSUME RolesInv, NEW h \in Handlers, NEW r \in RoleIds, CreateRole(h, r)
    PROVE  RolesInv'
<1>1. /\ AtOnce(h, RoleTag(r)) /\ roles[r].state = "absent" /\ UNCHANGED <<holds, away, unchecked, bygone>>
      /\ roles' = [roles EXCEPT ![r].state = "live"]
  BY DEF CreateRole, RoleTag
<1>2. Moves(h) /\ task' = task /\ task[h].at = "idle"
  BY <1>1, AtOnceMoves DEF RolesInv, AtOnce, Busy
<1>3. /\ RolesTyped' /\ RowsKept /\ LiveRoles \subseteq LiveRoles'
      /\ \A s \in RoleIds : roles'[s].system => roles[s].system
  BY <1>1, RowAppears DEF RolesInv
<1>4. OnTags(h)
  BY <1>1, <1>3 DEF OnTags
<1>5. RoleAtWork(h)'
  BY <1>2 DEF RoleAtWork, SeedAtWork, DeleteAtWork, AssignAtWork, RowAtWork, Deleting, At
<1>6. \A g \in Handlers : RoleAtWork(g)'
  BY <1>1, <1>2, <1>3, <1>4, <1>5, OthersKnowRoles
<1>7. SeededOnce' /\ HeldRolesExist'
  <2>1. \A n \in SystemRoles : SeededAs(n)' = SeededAs(n)
    BY <1>3, SeedsStay DEF RolesInv
  <2> QED
    BY <1>1, <1>2, <1>3, <2>1, DisturbedGrows DEF RolesInv, SeededOnce, HeldRolesExist
<1> QED
  BY <1>2, <1>3, <1>6, <1>7 DEF RolesInv, Moves

\* The permissions of a role are edited: the role is found, read again, and at most comes back.
LEMMA EditKeepsRoles ==
    ASSUME RolesInv, NEW h \in Handlers,
           PermissionsLoad(h) \/ \E r \in RoleIds : UpdateRolePermissions(h, r)
    PROVE  RolesInv'
<1>1. UNCHANGED <<roles, holds, away, unchecked, bygone>>
  BY DEF PermissionsLoad, UpdateRolePermissions, tenancyTables, rolesTables
<1>2. Created' = Created
  BY <1>1 DEF Created
<1>3. CASE PermissionsLoad(h)
  <2> DEFINE found == [role |-> Data(h), gone |-> Data(h) \notin LiveRoles]
  <2>0. task[h].at = "permissions-load" /\ Goto(h, "permissions-write", found)
    BY <1>3 DEF PermissionsLoad, At
  <2> HIDE DEF found
  <2>1. Moves(h) /\ task'[h] = [at |-> "permissions-write", on |-> task[h].on, data |-> found]
    BY <2>0, GotoMoves DEF RolesInv, Busy
  <2>2. Data(h) \in Created
    BY <1>3 DEF PermissionsLoad, RolesInv, RoleAtWork, RowAtWork
  <2>3. task'[h].at = "permissions-write" /\ Data(h)'.role \in Created'
    BY <1>2, <2>1, <2>2 DEF Data, found
  <2>4. SeedAtWork(h)' /\ DeleteAtWork(h)' /\ AssignAtWork(h)'
    BY <2>3 DEF SeedAtWork, DeleteAtWork, AssignAtWork, Deleting, At
  <2>5. RowAtWork(h)'
    BY <2>3 DEF RowAtWork, At
  <2>6. RoleAtWork(h)'
    BY <2>4, <2>5 DEF RoleAtWork
  <2> QED
    BY <1>1, <2>1, <2>6, SameRoles
<1>4. ASSUME NEW r \in RoleIds, UpdateRolePermissions(h, r) PROVE RolesInv'
  <2>0. Begin(h, "permissions-load", <<"permissions", r>>, r)
    BY <1>4 DEF UpdateRolePermissions
  <2>1. Moves(h) /\ task'[h] = [at |-> "permissions-load", on |-> <<"permissions", r>>, data |-> r]
    BY <2>0, BeginMoves DEF RolesInv
  <2>2. r \in Created
    BY <1>4 DEF UpdateRolePermissions, LiveRoles, Created
  <2>3. task'[h].at = "permissions-load" /\ Data(h)' \in Created'
    BY <1>2, <2>1, <2>2 DEF Data
  <2>4. SeedAtWork(h)' /\ DeleteAtWork(h)' /\ AssignAtWork(h)'
    BY <2>3 DEF SeedAtWork, DeleteAtWork, AssignAtWork, Deleting, At
  <2>5. RowAtWork(h)'
    BY <2>3 DEF RowAtWork, At
  <2>6. RoleAtWork(h)'
    BY <2>4, <2>5 DEF RoleAtWork
  <2> QED
    BY <1>1, <2>1, <2>6, SameRoles
<1> QED
  BY <1>3, <1>4

LEMMA PermissionsKeepRoles ==
    ASSUME RolesInv, NEW h \in Handlers, PermissionsWrite(h)
    PROVE  RolesInv'
<1> DEFINE r == Data(h).role
<1>1. Moves(h) /\ task'[h].at = "idle"
  BY AnswerPasses DEF RolesInv, PermissionsWrite, Passes, At, Busy
<1>2. RoleAtWork(h)'
  BY <1>1 DEF RoleAtWork, SeedAtWork, DeleteAtWork, AssignAtWork, RowAtWork, Deleting, At
<1>3. CASE ~Data(h).gone
  BY <1>1, <1>2, <1>3, SameRoles DEF PermissionsWrite
<1>4. CASE Data(h).gone
  <2>1. r \in RoleIds /\ roles[r].state # "absent"
    BY DEF PermissionsWrite, RolesInv, RoleAtWork, RowAtWork, Created
  <2>2. UNCHANGED <<holds, away, unchecked, bygone>> /\ roles' = [roles EXCEPT ![r].state = "live"]
    BY <1>4 DEF PermissionsWrite
  <2> HIDE DEF r
  <2>3. /\ RolesTyped' /\ RowsKept /\ LiveRoles \subseteq LiveRoles'
        /\ \A s \in RoleIds : roles'[s].system => roles[s].system
    BY <2>1, <2>2, RowAppears DEF RolesInv
  <2>4. OnTags(h)
    BY <2>2, <2>3 DEF OnTags
  <2>5. \A g \in Handlers : RoleAtWork(g)'
    BY <1>1, <1>2, <2>2, <2>3, <2>4, OthersKnowRoles
  <2>6. SeededOnce' /\ HeldRolesExist'
    <3>1. \A n \in SystemRoles : SeededAs(n)' = SeededAs(n)
      BY <2>3, SeedsStay DEF RolesInv
    <3> QED
      BY <1>1, <2>2, <2>3, <3>1, DisturbedGrows DEF RolesInv, SeededOnce, HeldRolesExist
  <2> QED
    BY <1>1, <2>3, <2>5, <2>6 DEF RolesInv, Moves
<1> QED
  BY <1>3, <1>4

LEMMA DeleteKeepsRoles ==
    ASSUME RolesInv, NEW h \in Handlers, NEW r \in RoleIds, DeleteRole(h, r)
    PROVE  RolesInv'
<1>1. /\ Begin(h, "holders-count", RoleTag(r), r) /\ UNCHANGED <<roles, holds, away, unchecked, bygone>>
      /\ roles[r].state = "live" /\ ~roles[r].system
  BY DEF DeleteRole, RoleTag, tenancyTables, rolesTables, LiveRoles
<1>2. Moves(h) /\ task'[h] = [at |-> "holders-count", on |-> RoleTag(r), data |-> r]
  BY <1>1, BeginMoves DEF RolesInv
<1>3. RoleAtWork(h)'
  BY <1>1, <1>2 DEF RoleAtWork, SeedAtWork, DeleteAtWork, AssignAtWork, RowAtWork, Deleting, At, Data
<1> QED
  BY <1>1, <1>2, <1>3, SameRoles

LEMMA RemoveRoleKeepsRoles ==
    ASSUME RolesInv, NEW h \in Handlers, NEW r \in RoleIds, RemoveRole(h, r)
    PROVE  RolesInv'
<1>1. /\ Begin(h, "role-remove", RoleTag(r), r) /\ UNCHANGED <<roles, holds, away, bygone>>
      /\ roles[r].state = "live" /\ ~roles[r].system /\ unchecked' = unchecked \cup {r}
  BY DEF RemoveRole, RoleTag, LiveRoles
<1>2. Moves(h) /\ task'[h] = [at |-> "role-remove", on |-> RoleTag(r), data |-> r]
  BY <1>1, BeginMoves DEF RolesInv
<1>3. RoleAtWork(h)'
  BY <1>1, <1>2 DEF RoleAtWork, SeedAtWork, DeleteAtWork, AssignAtWork, RowAtWork, Deleting, At, Data
<1> QED
  BY <1>1, <1>2, <1>3, SameRoles

\* The two statements before a deletion: they go on with the same role, or end.
LEMMA CountKeepsRoles ==
    ASSUME RolesInv, NEW h \in Handlers, HoldersCount(h) \/ RoleFind(h)
    PROVE  RolesInv'
<1> DEFINE r == Data(h)
<1>1. UNCHANGED <<roles, holds, away, unchecked, bygone>> /\ Busy(h)
  BY DEF HoldersCount, RoleFind, tenancyTables, rolesTables, At, Busy
<1>2. /\ r \in RoleIds /\ task[h].on = RoleTag(r)
      /\ ~roles[r].system /\ roles[r].state # "absent"
  BY DEF HoldersCount, RoleFind, RolesInv, RoleAtWork, DeleteAtWork, Deleting
<1>3. CASE Answer(h)
  <2>1. Moves(h) /\ task'[h] = Idle
    BY <1>1, <1>3, AnswerMoves DEF RolesInv
  <2>2. RoleAtWork(h)'
    BY <2>1 DEF RoleAtWork, SeedAtWork, DeleteAtWork, AssignAtWork, RowAtWork, Deleting, At, Idle
  <2> QED
    BY <1>1, <2>1, <2>2, SameRoles
<1>4. ASSUME NEW step \in {"role-find", "role-remove"}, Goto(h, step, r),
             Unused(r) \/ RoleFind(h)
      PROVE  RolesInv'
  <2>1. /\ Moves(h)
        /\ task'[h] = [at |-> step, on |-> task[h].on, data |-> r]
    BY <1>1, <1>4, GotoMoves DEF RolesInv
  <2>2. r \in unchecked \/ RoleTag(r) \in disturbed \/ Unused(r)
    BY <1>4 DEF RoleFind, RolesInv, RoleAtWork, DeleteAtWork, Deleting
  <2>3. Data(h)' = r /\ task'[h].on = RoleTag(r) /\ task'[h].at = step
    BY <1>2, <2>1 DEF Data
  <2>4. disturbed \subseteq disturbed'
    BY <2>1, DisturbedGrows
  <2>5. DeleteAtWork(h)'
    BY <1>1, <1>2, <2>2, <2>3, <2>4 DEF DeleteAtWork, Unused
  <2>6. RoleAtWork(h)'
    BY <1>4, <2>3, <2>5 DEF RoleAtWork, SeedAtWork, AssignAtWork, RowAtWork, At
  <2> QED
    BY <1>1, <2>1, <2>6, SameRoles
<1>5. CASE HoldersCount(h)
  <2>1. Unheld(r) => Unused(r)
    BY DEF Unheld, HoldersOf, Unused, RolesInv, RolesTyped
  <2> QED
    BY <1>3, <1>4, <1>5, <2>1 DEF HoldersCount
<1>6. CASE RoleFind(h)
  BY <1>3, <1>4, <1>6 DEF RoleFind
<1> QED
  BY <1>5, <1>6

LEMMA RoleRemoveKeepsRoles ==
    ASSUME RolesInv, NEW h \in Handlers, RoleRemove(h)
    PROVE  RolesInv'
<1> DEFINE r == Data(h)
<1>1. At(h, "role-remove") /\ Busy(h) /\ Answer(h) /\ UNCHANGED <<holds, away, unchecked, bygone>>
  BY DEF RoleRemove, At, Busy
<1>2. roles' = [roles EXCEPT ![r].state = "removed"]
  BY DEF RoleRemove
<1>3. Moves(h) /\ task'[h] = Idle /\ overlapped' = overlapped /\ failed' = failed
  BY <1>1, AnswerMoves DEF RolesInv
<1>4. /\ r \in RoleIds /\ task[h].on = RoleTag(r)
      /\ ~roles[r].system /\ roles[r].state # "absent"
      /\ r \in unchecked \/ RoleTag(r) \in disturbed \/ Unused(r)
  BY <1>1 DEF RolesInv, RoleAtWork, DeleteAtWork, Deleting
<1>5. /\ roles'[r] = [state |-> "removed", system |-> roles[r].system, name |-> roles[r].name]
      /\ \A s \in RoleIds \ {r} : roles'[s] = roles[s]
      /\ roles' \in [RoleIds -> Role]
  BY <1>2, <1>4, RowOf DEF RolesInv
<1> HIDE DEF r
<1>6. /\ RolesTyped' /\ RowsKept
      /\ \A s \in RoleIds : roles'[s].system => roles[s].system
  BY <1>1, <1>4, <1>5 DEF RolesInv, RolesTyped, RowsTyped, RowsKept
<1>7. \A s \in LiveRoles : s = r \/ s \in LiveRoles'
  BY <1>5 DEF LiveRoles
<1>8. OnTags(h)
  <2>1. Alone(h, RoleTag(r))
    BY <1>1, <1>3, <1>4, WorksAlone DEF RolesInv
  <2> QED
    BY <1>1, <1>6, <1>7, <2>1 DEF OnTags
<1>9. RoleAtWork(h)'
  BY <1>3 DEF RoleAtWork, SeedAtWork, DeleteAtWork, AssignAtWork, RowAtWork, Deleting, At, Idle
<1>10. \A g \in Handlers : RoleAtWork(g)'
  BY <1>1, <1>3, <1>6, <1>8, <1>9, OthersKnowRoles
<1>11. disturbed' = disturbed
  BY <1>3 DEF disturbed
<1>12. SeededOnce'
  <2>1. \A n \in SystemRoles : SeededAs(n)' = SeededAs(n)
    BY <1>6, SeedsStay DEF RolesInv
  <2> QED
    BY <1>11, <2>1 DEF RolesInv, SeededOnce
<1>13. HeldRolesExist'
  <2> SUFFICES ASSUME NEW u \in Staff \ bygone
               PROVE  \/ holds[u] = None \/ holds[u] \in LiveRoles' \cup unchecked
                      \/ RoleTag(holds[u]) \in disturbed
    BY <1>1, <1>11 DEF HeldRolesExist, RoleTag
  <2>1. \/ holds[u] = None \/ holds[u] \in LiveRoles \cup unchecked
        \/ RoleTag(holds[u]) \in disturbed
    BY DEF RolesInv, HeldRolesExist, RoleTag
  <2>2. CASE holds[u] = r
    BY <1>4, <2>2 DEF Unused
  <2>3. CASE holds[u] # r
    BY <1>7, <2>1, <2>3
  <2> QED
    BY <2>2, <2>3
<1> QED
  BY <1>3, <1>6, <1>10, <1>12, <1>13 DEF RolesInv, Moves

LEMMA AssignKeepsRoles ==
    ASSUME RolesInv, NEW h \in Handlers, NEW r \in RoleIds, NEW u \in Staff,
           AssignRole(h, r, u) \/ RevokeRole(h, r, u)
    PROVE  RolesInv'
<1>1. UNCHANGED <<roles, holds, away, unchecked, bygone>> /\ r \in LiveRoles
  BY DEF AssignRole, RevokeRole, tenancyTables, rolesTables
<1>2. ASSUME NEW s \in {r, None}, Begin(h, "assign", RoleTag(r), [user |-> u, role |-> s])
      PROVE  RolesInv'
  <2>1. /\ Moves(h)
        /\ task'[h] = [at |-> "assign", on |-> RoleTag(r), data |-> [user |-> u, role |-> s]]
    BY <1>2, BeginMoves DEF RolesInv
  <2>2. At(h, "assign")' /\ Data(h)' = [user |-> u, role |-> s] /\ task'[h].on = RoleTag(r)
    BY <2>1 DEF At, Data
  <2>3. AssignAtWork(h)'
    BY <1>1, <2>2 DEF AssignAtWork, LiveRoles
  <2>4. RoleAtWork(h)'
    BY <2>2, <2>3 DEF RoleAtWork, SeedAtWork, DeleteAtWork, RowAtWork, Deleting, At
  <2> QED
    BY <1>1, <2>1, <2>4, SameRoles
<1> QED
  BY <1>2 DEF AssignRole, RevokeRole, RoleTag

LEMMA RoleAssignKeepsRoles ==
    ASSUME RolesInv, NEW h \in Handlers, RoleAssign(h)
    PROVE  RolesInv'
<1> DEFINE r == Data(h).role
           u == Data(h).user
<1>1. At(h, "assign") /\ Busy(h) /\ Answer(h) /\ UNCHANGED <<roles, away, unchecked>>
  BY DEF RoleAssign, At, Busy
<1>2. /\ holds' = [holds EXCEPT ![u] = r]
      /\ bygone' = IF u \in away THEN bygone \cup {u} ELSE bygone \ {u}
  BY DEF RoleAssign
<1>3. Moves(h) /\ task'[h] = Idle /\ overlapped' = overlapped /\ failed' = failed
  BY <1>1, AnswerMoves DEF RolesInv
<1>4. /\ u \in Staff /\ r \in RoleIds \cup {None}
      /\ r # None => /\ task[h].on = RoleTag(r)
                     /\ r \in LiveRoles \cup unchecked \/ RoleTag(r) \in disturbed
  BY <1>1 DEF RolesInv, RoleAtWork, AssignAtWork
<1> HIDE DEF r, u
<1>5. /\ RolesTyped' /\ RowsKept
      /\ \A v \in Staff : holds'[v] = IF v = u THEN r ELSE holds[v]
  BY <1>1, <1>2, <1>4 DEF RolesInv, RolesTyped, RowsTyped, RowsKept
<1>6. OnTags(h)
  <2>1. r # None => Alone(h, RoleTag(r))
    BY <1>1, <1>3, <1>4, WorksAlone DEF RolesInv
  <2>2. LiveRoles' = LiveRoles
    BY <1>1 DEF LiveRoles
  <2> QED
    BY <1>1, <1>2, <1>5, <2>1, <2>2 DEF OnTags
<1>7. RoleAtWork(h)'
  BY <1>3 DEF RoleAtWork, SeedAtWork, DeleteAtWork, AssignAtWork, RowAtWork, Deleting, At, Idle
<1>8. \A g \in Handlers : RoleAtWork(g)'
  BY <1>1, <1>3, <1>5, <1>6, <1>7, OthersKnowRoles
<1>9. SeededOnce' /\ HeldRolesExist'
  <2>1. disturbed' = disturbed /\ LiveRoles' = LiveRoles
    BY <1>1, <1>3 DEF disturbed, LiveRoles
  <2>2. SeededOnce'
    BY <1>1, <2>1 DEF RolesInv, SeededOnce, SeededAs
  <2>3. HeldRolesExist'
    BY <1>1, <1>2, <1>4, <1>5, <2>1 DEF RolesInv, HeldRolesExist, RoleTag
  <2> QED
    BY <2>2, <2>3
<1> QED
  BY <1>3, <1>5, <1>8, <1>9 DEF RolesInv, Moves

\* Whoever is deleted from now on keeps the role, whether it exists or not.
LEMMA UsersKeepRoles ==
    ASSUME RolesInv, NEW h \in Handlers,
           DeleteUser(h) \/ RestoreUser(h) \/ \E u \in Staff : FindUser(h, u)
    PROVE  RolesInv'
<1>1. away \subseteq bygone /\ bygone \subseteq Staff
  BY DEF RolesInv, RolesTyped
<1>2. CASE DeleteUser(h) \/ RestoreUser(h)
  <2>1. Busy(h) /\ Answer(h) /\ UNCHANGED <<roles, holds, unchecked>> /\ Data(h) \in Staff
    BY <1>2 DEF DeleteUser, RestoreUser, At, Busy, RolesInv, RoleAtWork, RowAtWork
  <2>2. Moves(h) /\ task'[h] = Idle
    BY <2>1, AnswerMoves DEF RolesInv
  <2>3. bygone \subseteq bygone' /\ away' \subseteq bygone' /\ bygone' \subseteq Staff
    BY <1>1, <1>2, <2>1 DEF DeleteUser, RestoreUser
  <2>4. RoleAtWork(h)'
    BY <2>2 DEF RoleAtWork, SeedAtWork, DeleteAtWork, AssignAtWork, RowAtWork, Deleting, At, Idle
  <2> QED
    BY <2>1, <2>2, <2>3, <2>4, SameHolders
<1>3. ASSUME NEW u \in Staff, FindUser(h, u) PROVE RolesInv'
  <2>1. PICK step \in {"user-delete", "user-restore"} : Begin(h, step, <<"user", u>>, u)
    BY <1>3 DEF FindUser
  <2>2. Moves(h) /\ task'[h] = [at |-> step, on |-> <<"user", u>>, data |-> u]
    BY <2>1, BeginMoves DEF RolesInv
  <2>3. RoleAtWork(h)'
    BY <2>2 DEF RoleAtWork, SeedAtWork, DeleteAtWork, AssignAtWork, RowAtWork, Deleting, At, Data
  <2>4. UNCHANGED <<roles, holds, away, unchecked, bygone>>
    BY <1>3 DEF FindUser, tenancyTables, rolesTables
  <2> QED
    BY <2>2, <2>3, <2>4, SameRoles
<1> QED
  BY <1>2, <1>3

LEMMA BreakKeepsRoles ==
    ASSUME RolesInv, NEW h \in Handlers, Breaks(h), UNCHANGED <<roles, holds, away, unchecked, bygone>>
    PROVE  RolesInv'
<1>1. Moves(h) /\ task'[h] = Idle
  BY BreaksMoves DEF RolesInv
<1>2. RoleAtWork(h)'
  BY <1>1 DEF RoleAtWork, SeedAtWork, DeleteAtWork, AssignAtWork, RowAtWork, Deleting, At, Idle
<1> QED
  BY <1>1, <1>2, SameRoles

LEMMA RolesStep == ASSUME RolesInv, RolesNext PROVE RolesInv'
<1>1. PICK h \in Handlers :
        \/ \E r \in RoleIds : CreateRole(h, r) \/ UpdateRolePermissions(h, r)
                              \/ DeleteRole(h, r) \/ RemoveRole(h, r)
        \/ \E r \in RoleIds, u \in Staff : AssignRole(h, r, u) \/ RevokeRole(h, r, u)
        \/ \E n \in SystemRoles, r \in RoleIds : SeedRole(h, n, r)
        \/ ListRoles(h) \/ RolesFind(h) \/ RolesCount(h)
        \/ PermissionsLoad(h) \/ PermissionsWrite(h)
        \/ \E u \in Staff : FindUser(h, u)
        \/ HoldersCount(h) \/ RoleFind(h) \/ RoleRemove(h) \/ RoleAssign(h)
        \/ DeleteUser(h) \/ RestoreUser(h)
        \/ TenancyBreaks(h)
  BY DEF RolesNext
<1>2. CASE \E r \in RoleIds : CreateRole(h, r) \/ UpdateRolePermissions(h, r)
                              \/ DeleteRole(h, r) \/ RemoveRole(h, r)
  BY <1>2, CreateKeepsRoles, EditKeepsRoles, DeleteKeepsRoles, RemoveRoleKeepsRoles
<1>3. CASE \E r \in RoleIds, u \in Staff : AssignRole(h, r, u) \/ RevokeRole(h, r, u)
  BY <1>3, AssignKeepsRoles
<1>4. CASE \E n \in SystemRoles, r \in RoleIds : SeedRole(h, n, r)
  BY <1>4, SeedKeepsRoles
<1>5. CASE \/ ListRoles(h) \/ RolesFind(h) \/ RolesCount(h)
           \/ PermissionsLoad(h) \/ PermissionsWrite(h)
  BY <1>5, ListKeepsRoles, FindKeepsRoles, EditKeepsRoles, PermissionsKeepRoles
<1>6. CASE HoldersCount(h) \/ RoleFind(h) \/ RoleRemove(h) \/ RoleAssign(h)
  BY <1>6, CountKeepsRoles, RoleRemoveKeepsRoles, RoleAssignKeepsRoles
<1>7. CASE TenancyBreaks(h)
  BY <1>7, BreakKeepsRoles DEF TenancyBreaks, tenancyTables, rolesTables
<1>8. CASE DeleteUser(h) \/ RestoreUser(h) \/ \E u \in Staff : FindUser(h, u)
  BY <1>8, UsersKeepRoles
<1> QED
  BY <1>1, <1>2, <1>3, <1>4, <1>5, <1>6, <1>7, <1>8

NoRoles ==
    /\ roles = [r \in RoleIds |-> NoRole] /\ holds = [u \in Staff |-> None]
    /\ away = {} /\ bygone = {}

RolesPart == IF focus = "roles" THEN RolesInv ELSE NoRoles

LEMMA RolesPartHolds == Spec => []RolesPart
<1>1. Init => RolesPart
  <2> SUFFICES ASSUME Init PROVE RolesPart
    OBVIOUS
  <2>1. RequestsInv /\ \A h \in Handlers : task[h] = Idle
    BY ControlStarts DEF Init, ControlInit
  <2>2. \A h \in Handlers : RoleAtWork(h)
    BY <2>1 DEF RequestsInv, RoleAtWork, SeedAtWork, DeleteAtWork, AssignAtWork, RowAtWork,
       Deleting, At, Idle
  <2>3. NoRoles
    BY DEF Init, TenancyInit, NoRoles
  <2>4. RolesTyped /\ \A r \in RoleIds : roles[r].state = "absent"
    BY <2>3 DEF NoRoles, RolesTyped, RowsTyped, Role, NoRole
  <2>5. SeededOnce /\ HeldRolesExist
    BY <2>3, <2>4 DEF NoRoles, SeededOnce, SeededAs, LiveRoles, HeldRolesExist
  <2> QED
    BY <2>1, <2>2, <2>3, <2>4, <2>5 DEF RolesPart, RolesInv
<1>2. RolesPart /\ [Next]_vars => RolesPart'
  <2> SUFFICES ASSUME RolesPart, [Next]_vars PROVE RolesPart'
    OBVIOUS
  <2>1. CASE Next /\ focus = "roles"
    <3>1. RolesNext /\ focus' = "roles"
      BY <2>1 DEF Next
    <3> QED
      BY <2>1, <3>1, RolesStep DEF RolesPart
  <2>2. CASE Next /\ focus # "roles"
    BY <2>2 DEF Next, Rest, RolesPart, NoRoles, rolesTables
  <2>3. CASE UNCHANGED vars
    <3>1. UNCHANGED <<focus, control, rolesTables>>
      BY <2>3 DEF vars, tenancyTables, rolesTables
    <3>2. RequestsInv => RequestsInv'
      BY <3>1 DEF control, RequestsInv, Shape, OverlapsNoted, Busy
    <3>3. RolesInv => RolesInv'
      BY <3>1, <3>2 DEF control, rolesTables, RolesInv, RolesTyped, RowsTyped, RoleAtWork, SeedAtWork,
         DeleteAtWork, AssignAtWork, RowAtWork, Deleting, SeededOnce, SeededAs, HeldRolesExist,
         Unused, NamesOfRoles, LiveRoles, Created, disturbed, At, Data
    <3> QED
      BY <3>1, <3>3 DEF RolesPart, NoRoles, rolesTables
  <2> QED
    BY <2>1, <2>2, <2>3
<1> QED
  BY <1>1, <1>2, PTL DEF Spec

\* A system role is there once unless two requests seeded at the same time, whoever lists the
\* roles finds every one of them, and nobody holds a role that is gone unless it was deleted
\* without counting its users or while it was being assigned, or they were deleted with it.
THEOREM RolesStandHolds == Spec => []RolesStand
<1>1. RolesPart /\ KeepsToPart => RolesStand
  <2> SUFFICES ASSUME RolesPart, KeepsToPart PROVE RolesStand
    OBVIOUS
  <2>1. CASE focus = "roles"
    <3>1. ASSUME RolesTag \notin disturbed, NEW n \in SystemRoles
          PROVE  Cardinality(SeededAs(n)) <= 1
      <4>1. \A r, s \in SeededAs(n) : r = s
        BY <2>1, <3>1 DEF RolesPart, RolesInv, SeededOnce
      <4>2. CASE SeededAs(n) = {}
        BY <4>2, FS_EmptySet
      <4>3. CASE SeededAs(n) # {}
        <5>1. PICK r : SeededAs(n) = {r}
          BY <4>1, <4>3
        <5>2. Cardinality({r}) = 1
          BY FS_Singleton
        <5> QED
          BY <5>1, <5>2
      <4> QED
        BY <4>2, <4>3
    <3>2. \A h \in Handlers : At(h, "roles-count") => SystemRoles \subseteq NamesOfRoles
      BY <2>1 DEF RolesPart, RolesInv, RoleAtWork, SeedAtWork
    <3> QED
      BY <2>1, <3>1, <3>2 DEF RolesPart, RolesInv, RolesStand, SystemRolesOnce, RolesTag
  <2>2. CASE focus # "roles"
    <3>1. \A n : SeededAs(n) = {}
      BY <2>2 DEF RolesPart, NoRoles, NoRole, SeededAs, LiveRoles
    <3>2. \A h \in Handlers : ~At(h, "roles-count")
      <4>1. "roles-count" \notin StepsOf(focus)
        BY <2>2 DEF StepsOf, ChatSteps, MessagingSteps, TenantSteps, OfficeSteps, ReportsSteps,
           ViewsSteps
      <4> QED
        BY <4>1 DEF KeepsToPart, Within, At, Idle
    <3> QED
      BY <2>2, <3>1, <3>2, FS_EmptySet DEF RolesPart, NoRoles, RolesStand, SystemRolesOnce,
         HeldRolesExist
  <2> QED
    BY <2>1, <2>2
<1> QED
  BY <1>1, RolesPartHolds, KeepsToPartHolds, PTL
-----------------------------------------------------------------------------
(* Notifications.  A reminder begins a send in every handler at once, so   *)
(* that what overlaps is not noted; sends do not need it.                  *)

Sending(h) == At(h, "user-find") \/ At(h, "sent-update") \/ At(h, "failed-update")

\* A send knows for whom it is; after the insert it has a row that is pending.
SendAtWork(h) ==
    LET d == Data(h)  n == d.notice IN
    /\ At(h, "template") \/ At(h, "notice-insert") \/ Sending(h)
         => /\ d = [user |-> d.user, channel |-> d.channel, notice |-> n]
            /\ task[h].on = ToTag(d.user)
    /\ Sending(h) => /\ n \in Notices
                     /\ notices[n].exists
                     /\ notices[n].status = "pending"
                     /\ notices[n].user = d.user
    /\ At(h, "notice-remove") => n \in Notices /\ notices[n].exists

\* Two sends never have the same row.
SendsApart ==
    \A g, h \in Handlers :
        g # h /\ Sending(g) /\ Sending(h) => Data(g).notice # Data(h).notice

\* Every row that waits has the send that inserted it, or that send failed.
WaitsForSend ==
    \A n \in Notices :
        notices[n].exists /\ notices[n].status = "pending" /\ HasAddress(n)
            => \/ ToTag(notices[n].user) \in failed
               \/ \E h \in Handlers : Sending(h) /\ Data(h).notice = n

NoticesTyped ==
    /\ notices = [n \in Notices |-> notices[n]]
    /\ \A n \in Notices :
         /\ notices[n] = [exists |-> notices[n].exists, user |-> notices[n].user,
                          channel |-> notices[n].channel, status |-> notices[n].status,
                          read |-> notices[n].read, deleted |-> notices[n].deleted]
         /\ notices[n].exists \in BOOLEAN
         /\ ~notices[n].exists => notices[n] = NoNotice

MessagingInv ==
    /\ Shape
    /\ NoticesTyped
    /\ \A h \in Handlers : SendAtWork(h)
    /\ SendsApart
    /\ WaitsForSend

\* A step of h alone.
Steps(h) ==
    /\ Shape'
    /\ \A g \in Handlers \ {h} : task'[g] = task[g]
    /\ failed \subseteq failed'

\* What a step of h does to a row: it is stored, its send ends, or its reader changes it.
RowGoesOn(h, n) ==
    /\ notices[n].exists => /\ notices'[n].exists
                            /\ notices'[n].user = notices[n].user
                            /\ notices'[n].channel = notices[n].channel
    /\ \/ notices'[n].status = notices[n].status
       \/ Sending(h) /\ n = Data(h).notice /\ notices'[n].status # "pending"
    /\ notices'[n].exists /\ ~notices[n].exists
         => \/ Sending(h)' /\ Data(h)'.notice = n
            \/ notices'[n].channel = "push"
    /\ notices[n].read => notices'[n].read
    /\ notices[n].deleted => notices'[n].deleted

\* What becomes of the send of h: it goes on with its row, has failed, or is done with it.
SendGoesOn(h) ==
    /\ Sending(h) => \/ Sending(h)' /\ Data(h)'.notice = Data(h).notice
                     \/ ToTag(Data(h).user) \in failed'
                     \/ notices'[Data(h).notice].status # "pending"
                     \/ ~HasAddress(Data(h).notice)
    /\ Sending(h)' => \/ Sending(h) /\ Data(h)'.notice = Data(h).notice
                      \/ ~notices[Data(h)'.notice].exists

\* What readers did and sends that are done stay.
NoticesStand ==
    \A n \in Notices :
        /\ notices[n].read => notices'[n].read
        /\ notices[n].deleted => notices'[n].deleted
        /\ notices[n].status # "pending" => notices'[n].status = notices[n].status

LEMMA MessagingGoesOn ==
    ASSUME MessagingInv, NEW h \in Handlers, Steps(h), NoticesTyped', SendAtWork(h)',
           \A n \in Notices : RowGoesOn(h, n), SendGoesOn(h)
    PROVE  MessagingInv' /\ NoticesStand
<1>1. ASSUME NEW g \in Handlers \ {h} PROVE SendAtWork(g)'
  <2>1. task'[g] = task[g]
    BY DEF Steps
  <2>2. ASSUME Sending(g)
        PROVE  LET n == Data(g).notice IN
               notices'[n].exists /\ notices'[n].status = "pending" /\ notices'[n].user = Data(g).user
    <3>1. LET n == Data(g).notice IN
          n \in Notices /\ notices[n].exists /\ notices[n].status = "pending"
          /\ notices[n].user = Data(g).user
      BY <2>2 DEF MessagingInv, SendAtWork
    <3>2. ~(Sending(h) /\ Data(g).notice = Data(h).notice)
      BY <2>2 DEF MessagingInv, SendsApart
    <3> QED
      BY <3>1, <3>2 DEF RowGoesOn
  <2>3. SendAtWork(g)
    BY DEF MessagingInv
  <2>4. At(g, "notice-remove") => LET n == Data(g).notice IN n \in Notices /\ notices'[n].exists
    BY <2>3 DEF SendAtWork, RowGoesOn
  <2>5. ~Sending(g) => SendAtWork(g)'
    BY <2>1, <2>3, <2>4 DEF SendAtWork, Sending, At, Data
  <2>6. Sending(g) => SendAtWork(g)'
    BY <2>1, <2>2, <2>3 DEF SendAtWork, Sending, At, Data
  <2> QED
    BY <2>5, <2>6
<1>2. SendsApart'
  <2>1. ASSUME NEW g \in Handlers \ {h}, Sending(g)', Sending(h)'
        PROVE  Data(g)'.notice # Data(h)'.notice
    <3>1. task'[g] = task[g]
      BY DEF Steps
    <3>2. Sending(g) /\ Data(g)' = Data(g)
      BY <2>1, <3>1 DEF Sending, At, Data
    <3>3. notices[Data(g).notice].exists
      BY <3>2 DEF MessagingInv, SendAtWork
    <3> QED
      BY <2>1, <3>2, <3>3 DEF SendGoesOn, MessagingInv, SendsApart
  <2>2. ASSUME NEW g \in Handlers \ {h}, NEW f \in Handlers \ {h}, g # f, Sending(g)', Sending(f)'
        PROVE  Data(g)'.notice # Data(f)'.notice
    BY <2>2 DEF Steps, MessagingInv, SendsApart, Sending, At, Data
  <2> QED
    BY <2>1, <2>2 DEF SendsApart
<1>3. WaitsForSend'
  <2> SUFFICES ASSUME NEW n \in Notices, notices'[n].exists, notices'[n].status = "pending",
                      HasAddress(n)'
               PROVE  \/ ToTag(notices'[n].user) \in failed'
                      \/ \E g \in Handlers : Sending(g)' /\ Data(g)'.notice = n
    BY DEF WaitsForSend, ToTag
  <2>1. CASE notices[n].exists
    <3>1. /\ notices[n].status = "pending" /\ HasAddress(n)
          /\ notices'[n].user = notices[n].user
      BY <2>1 DEF RowGoesOn, HasAddress
    <3>2. \/ ToTag(notices[n].user) \in failed
          \/ \E g \in Handlers : Sending(g) /\ Data(g).notice = n
      BY <2>1, <3>1 DEF MessagingInv, WaitsForSend
    <3>3. CASE ToTag(notices[n].user) \in failed
      BY <3>1, <3>3 DEF Steps
    <3>4. ASSUME NEW g \in Handlers, Sending(g), Data(g).notice = n
          PROVE  \/ ToTag(notices'[n].user) \in failed'
                 \/ Sending(g)' /\ Data(g)'.notice = n
      <4>1. Data(g).user = notices[n].user
        BY <3>4 DEF MessagingInv, SendAtWork
      <4>2. CASE g = h
        BY <3>1, <3>4, <4>1, <4>2 DEF SendGoesOn
      <4>3. CASE g # h
        BY <3>4, <4>3 DEF Steps, Sending, At, Data
      <4> QED
        BY <4>2, <4>3
    <3> QED
      BY <3>2, <3>3, <3>4
  <2>2. CASE ~notices[n].exists
    BY <2>2 DEF RowGoesOn, HasAddress
  <2> QED
    BY <2>1, <2>2 DEF MessagingInv, NoticesTyped
<1>4. NoticesStand
  BY DEF NoticesStand, RowGoesOn, MessagingInv, SendAtWork
<1> QED
  BY <1>1, <1>2, <1>3, <1>4 DEF MessagingInv, Steps

LEMMA OneSteps ==
    ASSUME Shape, NEW h \in Handlers
    PROVE  /\ \A step, on, data : Begin(h, step, on, data) =>
                Steps(h) /\ task'[h] = [at |-> step, on |-> on, data |-> data]
           /\ \A step, data : Goto(h, step, data) =>
                Steps(h) /\ task'[h] = [at |-> step, on |-> task[h].on, data |-> data]
           /\ Answer(h) => Steps(h) /\ task'[h] = Idle
           /\ Breaks(h) => Steps(h) /\ task'[h] = Idle /\ task[h].on \in failed'
           /\ \A on : AtOnce(h, on) => Steps(h) /\ task' = task
<1>1. ASSUME NEW step, NEW on, NEW data, Begin(h, step, on, data)
      PROVE  Steps(h) /\ task'[h] = [at |-> step, on |-> on, data |-> data]
  <2>1. task' = [task EXCEPT ![h] = [at |-> step, on |-> on, data |-> data]] /\ failed' = failed
    BY <1>1 DEF Begin
  <2> QED
    BY <2>1 DEF Steps, Shape
<1>2. ASSUME NEW step, NEW data, Goto(h, step, data)
      PROVE  Steps(h) /\ task'[h] = [at |-> step, on |-> task[h].on, data |-> data]
  <2>1. failed' = failed
    BY <1>2 DEF Goto
  <2> QED
    BY <1>2, <2>1, GotoTask DEF Steps
<1>3. ASSUME Answer(h) \/ Breaks(h) PROVE Steps(h) /\ task'[h] = Idle
  <2>1. task' = [task EXCEPT ![h] = Idle] /\ failed \subseteq failed'
    BY <1>3 DEF Answer, Breaks
  <2> QED
    BY <2>1 DEF Steps, Shape, Idle
<1>4. ASSUME Breaks(h) PROVE task[h].on \in failed'
  BY <1>4 DEF Breaks
<1>5. ASSUME NEW on, AtOnce(h, on) PROVE Steps(h) /\ task' = task
  BY <1>5 DEF AtOnce, Steps, Shape
<1> QED
  BY <1>1, <1>2, <1>3, <1>4, <1>5

\* A step of h that leaves the notifications alone.
LEMMA SameNotices ==
    ASSUME MessagingInv, NEW h \in Handlers, UNCHANGED notices
    PROVE  NoticesTyped' /\ \A n \in Notices : RowGoesOn(h, n)
BY DEF MessagingInv, NoticesTyped, RowGoesOn

\* A step of h that changes one notification.
LEMMA OneNotice ==
    ASSUME MessagingInv, NEW h \in Handlers, NEW n \in Notices, NEW row,
           notices' = [notices EXCEPT ![n] = row],
           row = [exists |-> row.exists, user |-> row.user, channel |-> row.channel,
                  status |-> row.status, read |-> row.read, deleted |-> row.deleted],
           row.exists, RowGoesOn(h, n)
    PROVE  NoticesTyped' /\ \A m \in Notices : RowGoesOn(h, m)
<1>1. notices'[n] = row /\ \A m \in Notices \ {n} : notices'[m] = notices[m]
  BY DEF MessagingInv, NoticesTyped
<1>2. \A m \in Notices \ {n} : RowGoesOn(h, m)
  BY <1>1 DEF RowGoesOn
<1>3. notices' = [m \in Notices |-> notices'[m]]
  BY DEF MessagingInv, NoticesTyped
<1>4. ASSUME NEW m \in Notices
      PROVE  /\ notices'[m] = [exists |-> notices'[m].exists, user |-> notices'[m].user,
                               channel |-> notices'[m].channel, status |-> notices'[m].status,
                               read |-> notices'[m].read, deleted |-> notices'[m].deleted]
             /\ notices'[m].exists \in BOOLEAN
             /\ ~notices'[m].exists => notices'[m] = NoNotice
  <2>1. CASE m = n
    BY <1>1, <2>1
  <2>2. CASE m # n
    BY <1>1, <2>2 DEF MessagingInv, NoticesTyped
  <2> QED
    BY <2>1, <2>2
<1> QED
  BY <1>2, <1>3, <1>4 DEF NoticesTyped

\* A row of which one column is written.
LEMMA RowWith ==
    ASSUME NEW old, NEW new, NEW x,
           old = [exists |-> old.exists, user |-> old.user, channel |-> old.channel,
                  status |-> old.status, read |-> old.read, deleted |-> old.deleted]
    PROVE  /\ new = [old EXCEPT !.read = x] =>
                new = [exists |-> old.exists, user |-> old.user, channel |-> old.channel,
                       status |-> old.status, read |-> x, deleted |-> old.deleted]
           /\ new = [old EXCEPT !.deleted = x] =>
                new = [exists |-> old.exists, user |-> old.user, channel |-> old.channel,
                       status |-> old.status, read |-> old.read, deleted |-> x]
OBVIOUS

LEMMA NewRow ==
    ASSUME NEW new, NEW u, NEW c, NEW x,
           new = [NoNotice EXCEPT !.exists = x, !.user = u, !.channel = c]
    PROVE  new = [exists |-> x, user |-> u, channel |-> c, status |-> "pending",
                  read |-> FALSE, deleted |-> FALSE]
BY DEF NoNotice

LEMMA NotifyKeepsMessaging ==
    ASSUME MessagingInv, NEW h \in Handlers, NEW u, NEW c,
           NEW step \in {"template", "notice-insert"}, Notify(h, u, c, step)
    PROVE  MessagingInv' /\ NoticesStand
<1>1. /\ Steps(h) /\ ~Busy(h)
      /\ task'[h] = [at |-> step, on |-> ToTag(u), data |-> Payload(u, c)]
  <2>1. Begin(h, step, ToTag(u), Payload(u, c)) /\ Shape
    BY DEF Notify, MessagingInv
  <2>2. ~Busy(h)
    BY <2>1 DEF Begin
  <2> QED
    BY <2>1, <2>2, OneSteps
<1>2. task'[h].at = step /\ task'[h].on = ToTag(u) /\ task'[h].data = Payload(u, c)
  BY <1>1
<1>3. SendAtWork(h)' /\ SendGoesOn(h)
  BY <1>1, <1>2 DEF SendAtWork, SendGoesOn, Sending, At, Data, Busy, Payload, ToTag
<1> QED
  BY <1>1, <1>3, SameNotices, MessagingGoesOn DEF Notify, messagingTables

LEMMA RemindKeepsMessaging ==
    ASSUME MessagingInv, NEW to \in [Handlers -> Readers], Remind(to)
    PROVE  MessagingInv' /\ NoticesStand
<1>1. \A h \in Handlers :
        task'[h] = [at |-> "template", on |-> ToTag(to[h]), data |-> Payload(to[h], "in_app")]
  BY DEF Remind
<1>2. ASSUME NEW h \in Handlers
      PROVE  /\ task'[h].at = "template" /\ task'[h].on = ToTag(to[h])
             /\ task'[h].data = Payload(to[h], "in_app")
             /\ ~Sending(h)
  <2>1. task'[h] = [at |-> "template", on |-> ToTag(to[h]), data |-> Payload(to[h], "in_app")]
    BY <1>1
  <2> QED
    BY <2>1 DEF Remind, Busy, Sending, At
<1>3. Shape'
  BY <1>1 DEF Remind, Shape
<1>4. ASSUME NEW h \in Handlers PROVE SendAtWork(h)' /\ ~Sending(h)'
  <2>1. task'[h].at = "template" /\ task'[h].on = ToTag(to[h])
        /\ task'[h].data = [user |-> to[h], channel |-> "in_app", notice |-> None]
    BY <1>2 DEF Payload
  <2> QED
    BY <2>1 DEF SendAtWork, Sending, At, Data, ToTag
<1>5. notices' = notices /\ failed' = failed
  BY DEF Remind
<1>6. WaitsForSend'
  BY <1>2, <1>5 DEF MessagingInv, WaitsForSend, HasAddress, ToTag
<1>7. NoticesTyped' /\ NoticesStand
  BY <1>5 DEF MessagingInv, NoticesTyped, NoticesStand
<1> QED
  BY <1>3, <1>4, <1>6, <1>7 DEF MessagingInv, SendsApart

LEMMA RestartKeepsMessaging ==
    ASSUME MessagingInv, Restart PROVE MessagingInv' /\ NoticesStand
<1>1. /\ task' = [h \in Handlers |-> Idle] /\ notices' = notices
      /\ \A h \in Handlers : Busy(h) => task[h].on \in failed'
      /\ failed \subseteq failed'
  BY DEF Restart
<1>2. Shape' /\ \A h \in Handlers : SendAtWork(h)' /\ ~Sending(h)'
  BY <1>1 DEF Shape, SendAtWork, Sending, At, Idle
<1>3. ASSUME NEW h \in Handlers, Sending(h)
      PROVE  ToTag(notices[Data(h).notice].user) \in failed'
  BY <1>1, <1>3 DEF MessagingInv, SendAtWork, Busy, Sending, At
<1>4. WaitsForSend'
  BY <1>1, <1>3 DEF MessagingInv, WaitsForSend, HasAddress, ToTag
<1>5. NoticesTyped' /\ NoticesStand
  BY <1>1 DEF MessagingInv, NoticesTyped, NoticesStand
<1> QED
  BY <1>2, <1>4, <1>5 DEF MessagingInv, SendsApart

LEMMA InsertKeepsMessaging ==
    ASSUME MessagingInv, NEW h \in Handlers, NEW n \in Notices, NoticeInsert(h, n)
    PROVE  MessagingInv' /\ NoticesStand
<1> DEFINE d   == Data(h)
           row == [NoNotice EXCEPT !.exists = TRUE, !.user = d.user, !.channel = d.channel]
<1>1. /\ notices' = [notices EXCEPT ![n] = row] /\ ~notices[n].exists
      /\ row = [exists |-> TRUE, user |-> d.user, channel |-> d.channel,
                status |-> "pending", read |-> FALSE, deleted |-> FALSE]
  <2>1. notices' = [notices EXCEPT ![n] = row] /\ ~notices[n].exists
    BY DEF NoticeInsert
  <2>2. row = [exists |-> TRUE, user |-> d.user, channel |-> d.channel,
               status |-> "pending", read |-> FALSE, deleted |-> FALSE]
    BY NewRow
  <2> QED
    BY <2>1, <2>2
<1>2. notices'[n] = row /\ notices[n] = NoNotice
  BY <1>1 DEF MessagingInv, NoticesTyped
<1>3. d = [user |-> d.user, channel |-> d.channel, notice |-> d.notice]
      /\ task[h].on = ToTag(d.user) /\ ~Sending(h)
  BY DEF NoticeInsert, MessagingInv, SendAtWork, At, Sending
<1>4. Steps(h) /\ SendAtWork(h)' /\ SendGoesOn(h) /\ RowGoesOn(h, n)
  <2>1. ASSUME NEW step \in {"sent-update", "user-find"}, Goto(h, step, [d EXCEPT !.notice = n])
        PROVE  Steps(h) /\ SendAtWork(h)' /\ SendGoesOn(h) /\ RowGoesOn(h, n)
    <3>1. [d EXCEPT !.notice = n] = [user |-> d.user, channel |-> d.channel, notice |-> n]
      BY <1>3
    <3>2. Steps(h) /\ task'[h] = [at |-> step, on |-> task[h].on, data |-> [d EXCEPT !.notice = n]]
      BY <2>1, OneSteps DEF MessagingInv
    <3> HIDE DEF d
    <3>3. /\ task'[h].at = step /\ task'[h].on = ToTag(d.user)
          /\ task'[h].data = [user |-> d.user, channel |-> d.channel, notice |-> n]
      BY <1>3, <3>1, <3>2
    <3>4. /\ notices'[n].exists /\ notices'[n].status = "pending" /\ notices'[n].user = d.user
          /\ Data(h)' = [user |-> d.user, channel |-> d.channel, notice |-> n]
      <4> HIDE DEF row
      <4> QED
        BY <1>1, <1>2, <3>3 DEF Data
    <3>5. Sending(h)' /\ Data(h)'.notice = n
      BY <3>3, <3>4 DEF Sending, At
    <3> HIDE DEF row
    <3>6. SendAtWork(h)'
      BY <3>3, <3>4, <3>5 DEF SendAtWork, At, Data, ToTag
    <3>7. SendGoesOn(h) /\ RowGoesOn(h, n)
      BY <1>1, <1>2, <1>3, <3>4, <3>5 DEF SendGoesOn, RowGoesOn, NoNotice
    <3> QED
      BY <3>2, <3>6, <3>7
  <2>2. ASSUME d.channel = "push", Answer(h)
        PROVE  Steps(h) /\ SendAtWork(h)' /\ SendGoesOn(h) /\ RowGoesOn(h, n)
    <3>1. Steps(h) /\ task'[h].at = "idle"
      BY <2>2, OneSteps DEF MessagingInv, Idle
    <3>2. SendAtWork(h)' /\ SendGoesOn(h)
      BY <1>3, <3>1 DEF SendAtWork, SendGoesOn, Sending, At
    <3>3. RowGoesOn(h, n)
      BY <1>1, <1>2, <2>2 DEF RowGoesOn, NoNotice
    <3> QED
      BY <3>1, <3>2, <3>3
  <2> QED
    BY <2>1, <2>2 DEF NoticeInsert
<1> HIDE DEF d, row
<1>5. NoticesTyped' /\ \A m \in Notices : RowGoesOn(h, m)
  <2>1. /\ row.exists
        /\ row = [exists |-> row.exists, user |-> row.user, channel |-> row.channel,
                  status |-> row.status, read |-> row.read, deleted |-> row.deleted]
    BY <1>1
  <2> QED
    BY <1>1, <1>4, <2>1, OneNotice
<1> QED
  BY <1>4, <1>5, MessagingGoesOn

\* The other statements of a send, which leave the notifications alone.
LEMMA SendStepKeepsMessaging ==
    ASSUME MessagingInv, NEW h \in Handlers,
           \/ TemplateFind(h) \/ NoticeRejected(h) \/ UserFind(h) \/ DeliveryFails(h)
           \/ MessagingBreaks(h)
    PROVE  MessagingInv' /\ NoticesStand
<1>1. UNCHANGED notices
  BY DEF TemplateFind, NoticeRejected, UserFind, DeliveryFails, MessagingBreaks, messagingTables
<1>2. CASE TemplateFind(h)
  <2>1. Steps(h) /\ task'[h] = [at |-> "notice-insert", on |-> task[h].on, data |-> Data(h)]
    BY <1>2, OneSteps DEF TemplateFind, MessagingInv
  <2>2. task'[h].at = "notice-insert" /\ task'[h].on = task[h].on /\ task'[h].data = Data(h)
    BY <2>1
  <2>3. SendAtWork(h)' /\ SendGoesOn(h)
    BY <1>2, <2>2 DEF TemplateFind, MessagingInv, SendAtWork, SendGoesOn, Sending, At, Data
  <2> QED
    BY <1>1, <2>1, <2>3, SameNotices, MessagingGoesOn
<1>3. CASE NoticeRejected(h)
  <2>1. Steps(h) /\ task'[h].at = "idle"
    BY <1>3, OneSteps DEF NoticeRejected, MessagingInv, Idle
  <2>2. SendAtWork(h)' /\ SendGoesOn(h)
    BY <1>3, <2>1 DEF NoticeRejected, SendAtWork, SendGoesOn, Sending, At
  <2> QED
    BY <1>1, <2>1, <2>2, SameNotices, MessagingGoesOn
<1>4. CASE UserFind(h) /\ HasAddress(Data(h).notice) /\ Goto(h, "sent-update", Data(h))
  <2>1. Steps(h) /\ task'[h] = [at |-> "sent-update", on |-> task[h].on, data |-> Data(h)]
    BY <1>4, OneSteps DEF MessagingInv
  <2>2. task'[h].at = "sent-update" /\ task'[h].on = task[h].on /\ task'[h].data = Data(h)
    BY <2>1
  <2>3. SendAtWork(h)' /\ SendGoesOn(h)
    BY <1>1, <1>4, <2>2 DEF UserFind, MessagingInv, SendAtWork, SendGoesOn, Sending, At, Data
  <2> QED
    BY <1>1, <2>1, <2>3, SameNotices, MessagingGoesOn
<1>5. CASE UserFind(h) /\ ~HasAddress(Data(h).notice) /\ Answer(h)
  <2>1. Steps(h) /\ task'[h].at = "idle"
    BY <1>5, OneSteps DEF MessagingInv, Idle
  <2>2. SendAtWork(h)' /\ SendGoesOn(h)
    BY <1>5, <2>1 DEF SendAtWork, SendGoesOn, Sending, At
  <2> QED
    BY <1>1, <2>1, <2>2, SameNotices, MessagingGoesOn
<1>6. CASE DeliveryFails(h)
  <2>1. task' = [task EXCEPT ![h].at = "failed-update"] /\ failed' = failed
    BY <1>6 DEF DeliveryFails
  <2>2. task[h] = [at |-> task[h].at, on |-> task[h].on, data |-> task[h].data]
    BY DEF MessagingInv, Shape
  <2>3. task'[h] = [at |-> "failed-update", on |-> task[h].on, data |-> task[h].data]
    BY <2>1, <2>2 DEF MessagingInv, Shape
  <2>4. Steps(h)
    BY <2>1, <2>3 DEF MessagingInv, Shape, Steps
  <2>5. /\ task'[h].at = "failed-update" /\ task'[h].on = task[h].on
        /\ task'[h].data = task[h].data
    BY <2>3
  <2>6. SendAtWork(h)' /\ SendGoesOn(h)
    BY <1>1, <1>6, <2>5 DEF DeliveryFails, Caught, MessagingInv, SendAtWork, SendGoesOn, Sending,
       At, Data
  <2> QED
    BY <1>1, <2>4, <2>6, SameNotices, MessagingGoesOn
<1>7. CASE MessagingBreaks(h)
  <2>1. Steps(h) /\ task'[h].at = "idle" /\ task[h].on \in failed'
    BY <1>7, OneSteps DEF MessagingBreaks, MessagingInv, Idle
  <2>2. SendAtWork(h)'
    BY <2>1 DEF SendAtWork, Sending, At
  <2>3. Sending(h) => task[h].on = ToTag(Data(h).user)
    BY DEF MessagingInv, SendAtWork
  <2>4. SendGoesOn(h)
    BY <2>1, <2>3 DEF SendGoesOn, Sending, At
  <2> QED
    BY <1>1, <2>1, <2>2, <2>4, SameNotices, MessagingGoesOn
<1> QED
  BY <1>2, <1>3, <1>4, <1>5, <1>6, <1>7 DEF UserFind

LEMMA UpdateKeepsMessaging ==
    ASSUME MessagingInv, NEW h \in Handlers, NEW status \in {"sent", "failed"}, Sending(h),
           notices' = [notices EXCEPT ![Data(h).notice] = Updated(Data(h).notice, status)],
           Answer(h)
    PROVE  MessagingInv' /\ NoticesStand
<1> DEFINE n   == Data(h).notice
           row == [notices[n] EXCEPT !.status = status]
<1>1. n \in Notices /\ notices[n].exists /\ notices[n].status = "pending"
  BY DEF MessagingInv, SendAtWork
<1>2. notices' = [notices EXCEPT ![n] = row]
  BY DEF Updated
<1>3. row = [exists |-> notices[n].exists, user |-> notices[n].user,
             channel |-> notices[n].channel, status |-> status,
             read |-> notices[n].read, deleted |-> notices[n].deleted]
  BY <1>1 DEF MessagingInv, NoticesTyped
<1>4. notices'[n] = row
  BY <1>1, <1>2 DEF MessagingInv, NoticesTyped
<1>5. Steps(h) /\ task'[h].at = "idle"
  BY OneSteps DEF MessagingInv, Idle
<1>6. SendAtWork(h)'
  BY <1>5 DEF SendAtWork, Sending, At
<1> HIDE DEF row
<1>7. SendGoesOn(h) /\ RowGoesOn(h, n)
  BY <1>1, <1>3, <1>4, <1>5 DEF SendGoesOn, RowGoesOn, Sending, At
<1> HIDE DEF n
<1>8. NoticesTyped' /\ \A m \in Notices : RowGoesOn(h, m)
  <2>1. /\ row.exists
        /\ row = [exists |-> row.exists, user |-> row.user, channel |-> row.channel,
                  status |-> row.status, read |-> row.read, deleted |-> row.deleted]
    BY <1>1, <1>3
  <2> QED
    BY <1>1, <1>2, <1>7, <2>1, OneNotice
<1> QED
  BY <1>5, <1>6, <1>7, <1>8, MessagingGoesOn

LEMMA MarkReadKeepsMessaging ==
    ASSUME MessagingInv, NEW h \in Handlers, NEW u, NEW N, MarkRead(h, u, N), u # None
    PROVE  MessagingInv' /\ NoticesStand
<1> DEFINE read(n) == notices[n].read \/ (n \in N /\ notices[n].user = u)
<1>1. Steps(h) /\ task' = task
  BY OneSteps DEF MessagingInv, MarkRead
<1>2. ASSUME NEW n \in Notices
      PROVE  /\ notices[n] = [exists |-> notices[n].exists, user |-> notices[n].user,
                              channel |-> notices[n].channel, status |-> notices[n].status,
                              read |-> notices[n].read, deleted |-> notices[n].deleted]
             /\ notices[n].exists \in BOOLEAN
             /\ ~notices[n].exists => notices[n] = NoNotice
  BY DEF MessagingInv, NoticesTyped
<1>3. ASSUME NEW n \in Notices
      PROVE  notices'[n] = [exists |-> notices[n].exists, user |-> notices[n].user,
                            channel |-> notices[n].channel, status |-> notices[n].status,
                            read |-> read(n), deleted |-> notices[n].deleted]
  <2>1. notices'[n] = [notices[n] EXCEPT !.read = read(n)]
    BY DEF MarkRead
  <2> HIDE DEF read
  <2> QED
    BY <1>2, <2>1, RowWith
<1>4. ASSUME NEW n \in Notices
      PROVE  /\ read(n) \in BOOLEAN
             /\ notices[n].read => read(n)
             /\ ~notices[n].exists => ~read(n)
  <2>1. NoNotice.read = FALSE /\ NoNotice.user = None
    BY DEF NoNotice
  <2>2. ~notices[n].exists => notices[n] = NoNotice
    BY <1>2
  <2> QED
    BY <2>1, <2>2
<1> HIDE DEF read
<1>5. ASSUME NEW n \in Notices
      PROVE  /\ notices'[n].exists = notices[n].exists /\ notices'[n].status = notices[n].status
             /\ notices'[n].user = notices[n].user /\ notices'[n].channel = notices[n].channel
             /\ notices'[n].read = read(n) /\ notices'[n].deleted = notices[n].deleted
             /\ notices'[n] = [exists |-> notices'[n].exists, user |-> notices'[n].user,
                               channel |-> notices'[n].channel, status |-> notices'[n].status,
                               read |-> notices'[n].read, deleted |-> notices'[n].deleted]
  <2>1. notices'[n] = [exists |-> notices[n].exists, user |-> notices[n].user,
                       channel |-> notices[n].channel, status |-> notices[n].status,
                       read |-> read(n), deleted |-> notices[n].deleted]
    BY <1>3
  <2> QED
    BY <2>1
<1>6. ASSUME NEW n \in Notices
      PROVE  RowGoesOn(h, n)
  BY <1>4, <1>5 DEF RowGoesOn
<1>7. ASSUME NEW n \in Notices, ~notices'[n].exists PROVE notices'[n] = NoNotice
  <2>1. notices[n] = NoNotice /\ read(n) = FALSE
    BY <1>2, <1>4, <1>5, <1>7
  <2>2. notices'[n] = [exists |-> notices[n].exists, user |-> notices[n].user,
                       channel |-> notices[n].channel, status |-> notices[n].status,
                       read |-> FALSE, deleted |-> notices[n].deleted]
    BY <1>3, <2>1
  <2> QED
    BY <2>1, <2>2 DEF NoNotice
<1>8. NoticesTyped'
  <2>1. notices' = [n \in Notices |-> notices'[n]]
    BY DEF MarkRead
  <2> QED
    BY <1>2, <1>5, <1>7, <2>1 DEF NoticesTyped
<1>9. SendAtWork(h)' /\ SendGoesOn(h)
  BY <1>1, <1>5 DEF MessagingInv, SendAtWork, SendGoesOn, Sending, At, Data
<1> QED
  BY <1>1, <1>6, <1>8, <1>9, MessagingGoesOn

LEMMA RemovalKeepsMessaging ==
    ASSUME MessagingInv, NEW h \in Handlers,
           NoticeRemove(h) \/ \E u \in Readers, n \in Notices : RemoveNotice(h, u, n)
    PROVE  MessagingInv' /\ NoticesStand
<1>1. ASSUME NEW u \in Readers, NEW n \in Notices, RemoveNotice(h, u, n)
      PROVE  MessagingInv' /\ NoticesStand
  <2>1. /\ Steps(h) /\ ~Busy(h)
        /\ task'[h] = [at |-> "notice-remove", on |-> <<"remove", n>>, data |-> [notice |-> n]]
    BY <1>1, OneSteps DEF RemoveNotice, MessagingInv, Begin
  <2>2. task'[h].at = "notice-remove" /\ task'[h].data = [notice |-> n]
        /\ notices'[n].exists
    BY <1>1, <2>1 DEF RemoveNotice, messagingTables
  <2>3. SendAtWork(h)' /\ SendGoesOn(h)
    BY <2>1, <2>2 DEF SendAtWork, SendGoesOn, Sending, At, Data, Busy
  <2> QED
    BY <1>1, <2>1, <2>3, SameNotices, MessagingGoesOn DEF RemoveNotice, messagingTables
<1>2. CASE NoticeRemove(h)
  <2> DEFINE n   == Data(h).notice
             row == [notices[n] EXCEPT !.deleted = TRUE]
  <2>1. n \in Notices /\ notices[n].exists
    BY <1>2 DEF NoticeRemove, MessagingInv, SendAtWork
  <2>2. notices' = [notices EXCEPT ![n] = row] /\ ~Sending(h)
    BY <1>2, <2>1 DEF NoticeRemove, MessagingInv, NoticesTyped, Sending, At
  <2>3. row = [exists |-> notices[n].exists, user |-> notices[n].user,
               channel |-> notices[n].channel, status |-> notices[n].status,
               read |-> notices[n].read, deleted |-> TRUE]
    <3>1. notices[n] = [exists |-> notices[n].exists, user |-> notices[n].user,
                        channel |-> notices[n].channel, status |-> notices[n].status,
                        read |-> notices[n].read, deleted |-> notices[n].deleted]
      BY <2>1 DEF MessagingInv, NoticesTyped
    <3> QED
      BY <3>1, RowWith
  <2>4. notices'[n] = row
    BY <2>1, <2>2 DEF MessagingInv, NoticesTyped
  <2>5. Steps(h) /\ task'[h].at = "idle"
    BY <1>2, OneSteps DEF NoticeRemove, MessagingInv, Idle
  <2>6. SendAtWork(h)' /\ SendGoesOn(h)
    BY <2>2, <2>5 DEF SendAtWork, SendGoesOn, Sending, At
  <2> HIDE DEF row
  <2>7. RowGoesOn(h, n)
    BY <2>3, <2>4 DEF RowGoesOn
  <2> HIDE DEF n
  <2>8. NoticesTyped' /\ \A m \in Notices : RowGoesOn(h, m)
    <3>1. /\ row.exists
          /\ row = [exists |-> row.exists, user |-> row.user, channel |-> row.channel,
                    status |-> row.status, read |-> row.read, deleted |-> row.deleted]
      BY <2>1, <2>3
    <3> QED
      BY <2>1, <2>2, <2>7, <3>1, OneNotice
  <2> QED
    BY <2>5, <2>6, <2>8, MessagingGoesOn
<1> QED
  BY <1>1, <1>2

LEMMA MessagingStep ==
    ASSUME MessagingInv, MessagingNext PROVE MessagingInv' /\ NoticesStand
<1>1. ASSUME NEW h \in Handlers, NEW u \in Readers, NEW c \in Channels,
             NEW step \in {"template", "notice-insert"}, Notify(h, u, c, step)
      PROVE  MessagingInv' /\ NoticesStand
  BY <1>1, NotifyKeepsMessaging
<1>2. ASSUME NEW h \in Handlers, NEW s \in Strangers, NotifyInvoice(h, s)
      PROVE  MessagingInv' /\ NoticesStand
  BY <1>2, NotifyKeepsMessaging DEF NotifyInvoice
<1>3. ASSUME NEW to \in [Handlers -> Readers], Remind(to) PROVE MessagingInv' /\ NoticesStand
  BY <1>3, RemindKeepsMessaging
<1>4. ASSUME NEW h \in Handlers, NEW n \in Notices, NoticeInsert(h, n)
      PROVE  MessagingInv' /\ NoticesStand
  BY <1>4, InsertKeepsMessaging
<1>5. ASSUME NEW h \in Handlers, SentUpdate(h) PROVE MessagingInv' /\ NoticesStand
  BY <1>5, UpdateKeepsMessaging DEF SentUpdate, Sending
<1>6. ASSUME NEW h \in Handlers, FailedUpdate(h) PROVE MessagingInv' /\ NoticesStand
  BY <1>6, UpdateKeepsMessaging DEF FailedUpdate, Sending
<1>7. ASSUME NEW h \in Handlers, \/ TemplateFind(h) \/ NoticeRejected(h) \/ UserFind(h)
                                 \/ DeliveryFails(h) \/ MessagingBreaks(h)
      PROVE  MessagingInv' /\ NoticesStand
  BY <1>7, SendStepKeepsMessaging
<1>8. ASSUME NEW h \in Handlers, NEW u \in Readers, NEW N, MarkRead(h, u, N)
      PROVE  MessagingInv' /\ NoticesStand
  BY <1>8, MarkReadKeepsMessaging, MessagingAssumption
<1>9. ASSUME NEW h \in Handlers,
             NoticeRemove(h) \/ \E u \in Readers, n \in Notices : RemoveNotice(h, u, n)
      PROVE  MessagingInv' /\ NoticesStand
  BY <1>9, RemovalKeepsMessaging
<1>10. CASE Restart
  BY <1>10, RestartKeepsMessaging
<1> QED
  BY <1>1, <1>2, <1>3, <1>4, <1>5, <1>6, <1>7, <1>8, <1>9, <1>10 DEF MessagingNext

NoNotices == notices = [n \in Notices |-> NoNotice]

MessagingPart == IF focus = "messaging" THEN MessagingInv ELSE NoNotices

LEMMA MessagingPartStep ==
    ASSUME MessagingPart, [Next]_vars PROVE MessagingPart' /\ (NoticesStand \/ UNCHANGED notices)
<1>1. CASE Next /\ focus = "messaging"
  <2>1. MessagingNext /\ focus' = "messaging"
    BY <1>1 DEF Next
  <2> QED
    BY <1>1, <2>1, MessagingStep DEF MessagingPart
<1>2. CASE Next /\ focus # "messaging"
  BY <1>2 DEF Next, Rest, MessagingPart, NoNotices, messagingTables
<1>3. CASE UNCHANGED vars
  <2>1. UNCHANGED <<focus, control, notices>>
    BY <1>3 DEF vars, messagingTables
  <2>2. MessagingInv => MessagingInv'
    BY <2>1 DEF control, MessagingInv, Shape, NoticesTyped, SendAtWork, SendsApart, WaitsForSend,
       Sending, HasAddress, ToTag, At, Data
  <2> QED
    BY <2>1, <2>2 DEF MessagingPart, NoNotices
<1> QED
  BY <1>1, <1>2, <1>3

LEMMA MessagingPartHolds == Spec => []MessagingPart
<1>1. Init => MessagingPart
  <2> SUFFICES ASSUME Init PROVE MessagingPart
    OBVIOUS
  <2>1. Shape /\ \A h \in Handlers : task[h] = Idle
    BY ControlStarts DEF Init, ControlInit, RequestsInv
  <2>2. notices = [n \in Notices |-> NoNotice]
    BY DEF Init, MessagingInit
  <2>3. \A h \in Handlers : SendAtWork(h) /\ ~Sending(h)
    BY <2>1 DEF SendAtWork, Sending, At, Idle
  <2>4. NoNotice = [exists |-> NoNotice.exists, user |-> NoNotice.user,
                    channel |-> NoNotice.channel, status |-> NoNotice.status,
                    read |-> NoNotice.read, deleted |-> NoNotice.deleted]
        /\ NoNotice.exists = FALSE
    BY DEF NoNotice
  <2>5. NoticesTyped /\ \A n \in Notices : ~notices[n].exists
    BY <2>2, <2>4 DEF NoticesTyped
  <2>6. WaitsForSend
    BY <2>5 DEF WaitsForSend
  <2> QED
    BY <2>1, <2>2, <2>3, <2>5, <2>6 DEF MessagingPart, MessagingInv, SendsApart, NoNotices
<1> QED
  BY <1>1, MessagingPartStep, PTL DEF Spec

\* A notification that can be sent is PENDING only while the send that stored it is under way,
\* unless that send died or its update failed: nothing retries it then.
THEOREM PendingIsAtWorkHolds == Spec => []PendingIsAtWork
<1>1. MessagingPart => PendingIsAtWork
  <2> SUFFICES ASSUME MessagingPart PROVE PendingIsAtWork
    OBVIOUS
  <2>1. CASE focus = "messaging"
    <3>1. WaitsForSend /\ \A h \in Handlers : SendAtWork(h)
      BY <2>1 DEF MessagingPart, MessagingInv
    <3>2. \A h \in Handlers : Sending(h) =>
            Busy(h) /\ task[h].on = ToTag(notices[Data(h).notice].user)
      BY <3>1 DEF SendAtWork, Sending, At, Busy
    <3> QED
      BY <3>1, <3>2 DEF WaitsForSend, PendingIsAtWork
  <2>2. CASE focus # "messaging"
    <3>1. \A n \in Notices : ~notices[n].exists
      BY <2>2 DEF MessagingPart, NoNotices, NoNotice
    <3> QED
      BY <3>1 DEF PendingIsAtWork
  <2> QED
    BY <2>1, <2>2
<1> QED
  BY <1>1, MessagingPartHolds, PTL

\* A send that is still at work on a notification undoes nothing that its reader did to it, and
\* what was sent or has failed is not sent again.
THEOREM ReadStandsHolds == Spec => ReadStands
<1>1. MessagingPart /\ [Next]_vars => [NoticesStand]_notices
  BY MessagingPartStep
<1>2. Spec => [][NoticesStand]_notices
  BY <1>1, MessagingPartHolds, PTL DEF Spec
<1> QED
  BY <1>2 DEF ReadStands, NoticesStand
-----------------------------------------------------------------------------
(* Chat.                                                                   *)

RoomsTyped ==
    /\ rooms = [r \in Rooms |-> rooms[r]] /\ sent = [r \in Rooms |-> sent[r]]
    /\ \A r \in Rooms :
         /\ rooms[r] = [exists |-> rooms[r].exists, group |-> rooms[r].group,
                        people |-> rooms[r].people, last |-> rooms[r].last]
         /\ ~rooms[r].exists => rooms[r].last = None /\ sent[r] = None

DirectRoomsOf(P) == {r \in LiveRooms : ~rooms[r].group /\ PeopleOf(r) = P}

\* A request that creates a direct room saw none, unless another overlaps it.
RoomAtWork(h) ==
    At(h, "room-insert") =>
        \E u, v \in ChatUsers :
            /\ Data(h) = <<u, v>>
            /\ task[h].on = DirectTag(u, v)
            /\ DirectTag(u, v) \notin disturbed => DirectRoomsOf({u, v}) = {}

Storing(h) == At(h, "room-find") \/ At(h, "message-insert")

\* Until its message is stored a send finds the last one on the room, and afterwards its
\* message is the last, unless another send overlaps it.
PostAtWork(h) ==
    LET r == Data(h).room IN
    /\ Storing(h) \/ At(h, "room-touch") =>
         r \in Rooms /\ rooms[r].exists /\ task[h].on = RoomTag(r)
    /\ Storing(h) /\ RoomTag(r) \notin disturbed => rooms[r].last = sent[r]
    /\ At(h, "room-touch") /\ RoomTag(r) \notin disturbed => Data(h).message = sent[r]

\* Only sends are under way on a room.
OnRoom(h) ==
    \A r \in Rooms : Busy(h) /\ task[h].on = RoomTag(r) => Storing(h) \/ At(h, "room-touch")

ChatAtWork(h) == RoomAtWork(h) /\ PostAtWork(h) /\ OnRoom(h)

OneDirectRoom ==
    \A u, v \in ChatUsers :
        DirectTag(u, v) \notin disturbed => \A r, s \in DirectRoomsOf({u, v}) : r = s

ChatInv ==
    /\ RequestsInv
    /\ RoomsTyped
    /\ \A h \in Handlers : ChatAtWork(h)
    /\ OneDirectRoom
    /\ LastMessageStands

\* What a step of h does to the rooms happens on tags that the others have, too.
RoomsGoOn(h) ==
    /\ RoomsTyped'
    /\ \A r \in Rooms : rooms[r].exists =>
         /\ rooms'[r].exists
         /\ \/ rooms'[r].last = rooms[r].last /\ sent'[r] = sent[r]
            \/ Alone(h, RoomTag(r))
    /\ \A u, v \in ChatUsers : \A r \in DirectRoomsOf({u, v})' :
         r \in DirectRoomsOf({u, v}) \/ Alone(h, DirectTag(u, v))

LEMMA OthersKnowChat ==
    ASSUME ChatInv, NEW h \in Handlers, Moves(h), RoomsGoOn(h), NEW g \in Handlers \ {h}
    PROVE  ChatAtWork(g)'
<1>1. task'[g] = task[g] /\ ChatAtWork(g) /\ disturbed \subseteq disturbed'
  BY DisturbedGrows DEF Moves, ChatInv
<1>2. /\ \A step : At(g, step)' <=> At(g, step)
      /\ Data(g)' = Data(g) /\ (Storing(g)' <=> Storing(g)) /\ (Busy(g)' <=> Busy(g))
  BY <1>1 DEF At, Data, Storing, Busy
<1>3. ASSUME At(g, "room-insert") PROVE RoomAtWork(g)'
  <2>1. PICK u \in ChatUsers, v \in ChatUsers :
          /\ Data(g) = <<u, v>> /\ task[g].on = DirectTag(u, v)
          /\ DirectTag(u, v) \notin disturbed => DirectRoomsOf({u, v}) = {}
    BY <1>1, <1>3 DEF ChatAtWork, RoomAtWork
  <2>2. Busy(g)
    BY <1>3 DEF At, Busy
  <2>3. DirectTag(u, v) \notin disturbed' => DirectRoomsOf({u, v})' = {}
    BY <1>1, <2>1, <2>2 DEF RoomsGoOn, Alone
  <2> QED
    BY <1>1, <1>2, <2>1, <2>3 DEF RoomAtWork, DirectTag
<1>4. PostAtWork(g)'
  <2> DEFINE r == Data(g).room
  <2>1. ASSUME Storing(g) \/ At(g, "room-touch")
        PROVE  /\ r \in Rooms /\ rooms'[r].exists /\ task'[g].on = RoomTag(r)
               /\ RoomTag(r) \notin disturbed' =>
                    rooms'[r].last = rooms[r].last /\ sent'[r] = sent[r]
    <3>1. r \in Rooms /\ rooms[r].exists /\ task[g].on = RoomTag(r)
      BY <1>1, <2>1 DEF ChatAtWork, PostAtWork
    <3>2. Busy(g)
      BY <2>1 DEF Storing, At, Busy
    <3> HIDE DEF r
    <3> QED
      BY <1>1, <3>1, <3>2 DEF RoomsGoOn, Alone
  <2>2. ASSUME RoomTag(r) \notin disturbed'
        PROVE  /\ Storing(g) => rooms'[r].last = sent'[r]
               /\ At(g, "room-touch") => Data(g).message = sent'[r]
    BY <1>1, <2>1, <2>2 DEF ChatAtWork, PostAtWork
  <2> QED
    BY <1>2, <2>1, <2>2 DEF PostAtWork, RoomTag
<1>5. OnRoom(g)'
  BY <1>1, <1>2 DEF ChatAtWork, OnRoom, RoomTag
<1>6. ~At(g, "room-insert") => RoomAtWork(g)'
  BY <1>2 DEF RoomAtWork
<1> QED
  BY <1>3, <1>4, <1>5, <1>6 DEF ChatAtWork

\* What h was doing on a room goes on, or was noted.
StaysOn(h, r) ==
    Busy(h) /\ task[h].on = RoomTag(r) => \/ Busy(h)' /\ task'[h].on = RoomTag(r)
                                          \/ RoomTag(r) \in disturbed'

LEMMA LastStays ==
    ASSUME ChatInv, NEW h \in Handlers, Moves(h), NEW r \in Rooms, rooms[r].exists, StaysOn(h, r),
           RoomTag(r) \notin disturbed', \A g \in Handlers : Busy(g)' => task'[g].on # RoomTag(r)
    PROVE  rooms[r].last = sent[r]
<1>1. RoomTag(r) \notin disturbed
  BY DisturbedGrows
<1>2. ASSUME NEW g \in Handlers, Busy(g), task[g].on = RoomTag(r) PROVE FALSE
  <2>1. CASE g = h
    BY <1>2, <2>1 DEF StaysOn
  <2>2. CASE g # h
    BY <1>2, <2>2 DEF Moves, Busy
  <2> QED
    BY <2>1, <2>2
<1> QED
  BY <1>1, <1>2 DEF ChatInv, LastMessageStands, LiveRooms

\* A step that leaves the rooms alone.
LEMMA SameRooms ==
    ASSUME ChatInv, NEW h \in Handlers, Moves(h), UNCHANGED <<rooms, sent>>, ChatAtWork(h)',
           \A r \in Rooms : StaysOn(h, r)
    PROVE  ChatInv'
<1>1. RoomsTyped'
  BY DEF ChatInv, RoomsTyped
<1>2. \A P : DirectRoomsOf(P)' = DirectRoomsOf(P)
  BY DEF DirectRoomsOf, LiveRooms, PeopleOf
<1>3. RoomsGoOn(h)
  BY <1>1, <1>2 DEF RoomsGoOn
<1>4. \A g \in Handlers : ChatAtWork(g)'
  BY <1>3, OthersKnowChat
<1>5. OneDirectRoom'
  BY <1>2, DisturbedGrows DEF ChatInv, OneDirectRoom, DirectTag
<1>6. LastMessageStands'
  BY LastStays DEF LastMessageStands, LiveRooms, RoomTag
<1> QED
  BY <1>1, <1>4, <1>5, <1>6 DEF ChatInv, Moves

\* A step that changes no request, either.
LEMMA QuietStep ==
    ASSUME ChatInv, NEW h \in Handlers, Moves(h), task' = task, UNCHANGED <<rooms, sent>>
    PROVE  ChatInv'
<1>1. ChatAtWork(h) /\ disturbed \subseteq disturbed'
  BY DisturbedGrows DEF ChatInv
<1>2. \A P : DirectRoomsOf(P)' = DirectRoomsOf(P)
  BY DEF DirectRoomsOf, LiveRooms, PeopleOf
<1>3. RoomAtWork(h)'
  BY <1>1, <1>2 DEF ChatAtWork, RoomAtWork, At, Data, DirectTag
<1>4. PostAtWork(h)' /\ OnRoom(h)'
  BY <1>1 DEF ChatAtWork, PostAtWork, OnRoom, Storing, At, Data, RoomTag, Busy
<1>5. \A r \in Rooms : StaysOn(h, r)
  BY DEF StaysOn, Busy
<1> QED
  BY <1>3, <1>4, <1>5, SameRooms DEF ChatAtWork

LEMMA BesidesRooms ==
    ASSUME ChatInv, NEW h \in Handlers, UNCHANGED <<rooms, sent>>,
           \/ \E step \in {"mark", "blank", "count"} : \E on, data :
                (\A r \in Rooms : on # RoomTag(r)) /\ Begin(h, step, on, data)
           \/ At(h, "count") /\ \E data : Goto(h, "count", data)
           \/ (At(h, "mark") \/ At(h, "blank") \/ At(h, "count")) /\ Answer(h)
           \/ Breaks(h)
    PROVE  ChatInv'
<1>1. ASSUME NEW step \in {"mark", "blank", "count"}, NEW on, NEW data,
             \A r \in Rooms : on # RoomTag(r), Begin(h, step, on, data)
      PROVE  ChatInv'
  <2>1. Moves(h) /\ task[h].at = "idle" /\ task'[h] = [at |-> step, on |-> on, data |-> data]
    BY <1>1, BeginMoves DEF ChatInv
  <2>2. task'[h].at = step /\ task'[h].on = on
    BY <2>1
  <2>3. ChatAtWork(h)' /\ \A r \in Rooms : StaysOn(h, r)
    BY <1>1, <2>1, <2>2 DEF ChatAtWork, RoomAtWork, PostAtWork, OnRoom, StaysOn, Storing, At, Busy,
       RoomTag
  <2> QED
    BY <2>1, <2>3, SameRooms
<1>2. ASSUME NEW data, At(h, "count"), Goto(h, "count", data) PROVE ChatInv'
  <2>1. Moves(h) /\ task'[h] = [at |-> "count", on |-> task[h].on, data |-> data]
    BY <1>2, GotoMoves DEF ChatInv, Busy, At
  <2>2. task'[h].at = "count" /\ task'[h].on = task[h].on /\ OnRoom(h)
    BY <2>1 DEF ChatInv, ChatAtWork
  <2>3. ChatAtWork(h)' /\ \A r \in Rooms : StaysOn(h, r)
    BY <1>2, <2>2 DEF ChatAtWork, RoomAtWork, PostAtWork, OnRoom, StaysOn, Storing, At, Busy,
       RoomTag
  <2> QED
    BY <2>1, <2>3, SameRooms
<1>3. ASSUME At(h, "mark") \/ At(h, "blank") \/ At(h, "count"), Answer(h) PROVE ChatInv'
  <2>1. Moves(h) /\ task'[h].at = "idle" /\ OnRoom(h)
    BY <1>3, AnswerMoves DEF ChatInv, ChatAtWork, Busy, At, Idle
  <2>2. ChatAtWork(h)' /\ \A r \in Rooms : StaysOn(h, r)
    BY <1>3, <2>1 DEF ChatAtWork, RoomAtWork, PostAtWork, OnRoom, StaysOn, Storing, At, Busy
  <2> QED
    BY <2>1, <2>2, SameRooms
<1>4. ASSUME Breaks(h) PROVE ChatInv'
  <2>1. Moves(h) /\ task'[h].at = "idle" /\ task[h].on \in failed'
    BY <1>4, BreaksMoves DEF ChatInv, Idle
  <2>2. ChatAtWork(h)' /\ \A r \in Rooms : StaysOn(h, r)
    BY <2>1 DEF ChatAtWork, RoomAtWork, PostAtWork, OnRoom, StaysOn, Storing, At, Busy, disturbed
  <2> QED
    BY <2>1, <2>2, SameRooms
<1> QED
  BY <1>1, <1>2, <1>3, <1>4

LEMMA PostKeepsChat ==
    ASSUME ChatInv, NEW h \in Handlers, NEW r \in Rooms, NEW u,
           NEW step \in {"room-find", "message-insert"}, Post(h, r, u, step)
    PROVE  ChatInv'
<1>1. rooms[r].exists /\ UNCHANGED <<rooms, sent>>
      /\ Begin(h, step, RoomTag(r), [room |-> r, user |-> u])
  BY DEF Post, chatTables
<1>2. /\ Moves(h) /\ task[h].at = "idle" /\ Joins(h, RoomTag(r))
      /\ task'[h] = [at |-> step, on |-> RoomTag(r), data |-> [room |-> r, user |-> u]]
  BY <1>1, BeginMoves DEF ChatInv
<1>3. /\ task'[h].at = step /\ task'[h].on = RoomTag(r)
      /\ task'[h].data = [room |-> r, user |-> u]
  BY <1>2
<1>4. RoomTag(r) \notin disturbed' => rooms[r].last = sent[r]
  <2> SUFFICES ASSUME RoomTag(r) \notin disturbed' PROVE rooms[r].last = sent[r]
    OBVIOUS
  <2>1. \A g \in Handlers : Busy(g) => task[g].on # RoomTag(r)
    BY <1>2, BeginsAlone DEF Alone, Busy
  <2> QED
    BY <1>1, <1>2, <2>1, DisturbedGrows DEF ChatInv, LastMessageStands, LiveRooms
<1>5. PostAtWork(h)'
  BY <1>1, <1>3, <1>4 DEF PostAtWork, Storing, At, Data, RoomTag
<1>6. RoomAtWork(h)' /\ OnRoom(h)' /\ \A s \in Rooms : StaysOn(h, s)
  BY <1>2, <1>3 DEF RoomAtWork, OnRoom, StaysOn, Storing, At, Busy
<1> QED
  BY <1>1, <1>2, <1>5, <1>6, SameRooms DEF ChatAtWork

LEMMA DirectMissingKeepsChat ==
    ASSUME ChatInv, NEW h \in Handlers, NEW u \in ChatUsers, NEW v \in ChatUsers,
           DirectMissing(h, u, v)
    PROVE  ChatInv'
<1>1. UNCHANGED <<rooms, sent>> /\ Begin(h, "room-insert", DirectTag(u, v), <<u, v>>)
  BY DEF DirectMissing, chatTables
<1>2. /\ Moves(h) /\ task[h].at = "idle"
      /\ task'[h] = [at |-> "room-insert", on |-> DirectTag(u, v), data |-> <<u, v>>]
  BY <1>1, BeginMoves DEF ChatInv
<1>3. /\ task'[h].at = "room-insert" /\ task'[h].on = DirectTag(u, v)
      /\ task'[h].data = <<u, v>>
  BY <1>2
<1>4. DirectRoomsOf({u, v})' = {}
  BY <1>1 DEF DirectMissing, DirectRooms, DirectRoomsOf, LiveRooms, PeopleOf
<1>5. RoomAtWork(h)'
  BY <1>3, <1>4 DEF RoomAtWork, At, Data, DirectTag
<1>6. PostAtWork(h)' /\ OnRoom(h)' /\ \A s \in Rooms : StaysOn(h, s)
  BY <1>2, <1>3 DEF PostAtWork, OnRoom, StaysOn, Storing, At, Busy, DirectTag, RoomTag
<1> QED
  BY <1>1, <1>2, <1>5, <1>6, SameRooms DEF ChatAtWork

LEMMA RoomFindKeepsChat ==
    ASSUME ChatInv, NEW h \in Handlers, RoomFind(h) PROVE ChatInv'
<1>1. UNCHANGED <<rooms, sent>> /\ Goto(h, "message-insert", Data(h)) /\ Busy(h) /\ Storing(h)
      /\ ChatAtWork(h)
  BY DEF RoomFind, chatTables, Busy, At, Storing, ChatInv
<1>2. /\ Moves(h)
      /\ task'[h] = [at |-> "message-insert", on |-> task[h].on, data |-> Data(h)]
  BY <1>1, GotoMoves DEF ChatInv
<1>3. task'[h].at = "message-insert" /\ task'[h].on = task[h].on /\ task'[h].data = Data(h)
  BY <1>2
<1>4. disturbed \subseteq disturbed'
  BY <1>2, DisturbedGrows
<1>5. PostAtWork(h)'
  BY <1>1, <1>3, <1>4 DEF ChatAtWork, PostAtWork, Storing, At, Data, RoomTag
<1>6. RoomAtWork(h)' /\ OnRoom(h)' /\ \A s \in Rooms : StaysOn(h, s)
  BY <1>3 DEF RoomAtWork, OnRoom, StaysOn, Storing, At, Busy
<1> QED
  BY <1>1, <1>2, <1>5, <1>6, SameRooms DEF ChatAtWork

\* Whoever looks for the direct room r that h stores was noted.
DirectIsKnown(h, r) ==
    OneDirectRoom' /\ \A u, v \in ChatUsers : PeopleOf(r)' = {u, v} => Alone(h, DirectTag(u, v))

\* A room is stored that was not there.
LEMMA RoomIsStored ==
    ASSUME ChatInv, NEW h \in Handlers, Moves(h), NEW r \in Rooms, ~rooms[r].exists,
           NEW group \in BOOLEAN, NEW people, rooms' = [rooms EXCEPT ![r] = [exists |-> TRUE, group |-> group,
                                                     people |-> people, last |-> None]],
           sent' = sent, group = FALSE => DirectIsKnown(h, r),
           ChatAtWork(h)', \A s \in Rooms : StaysOn(h, s)
    PROVE  ChatInv'
<1> DEFINE row == [exists |-> TRUE, group |-> group, people |-> people, last |-> None]
<1>1. rooms'[r] = row /\ \A s \in Rooms \ {r} : rooms'[s] = rooms[s]
  BY DEF ChatInv, RoomsTyped
<1>2. /\ rooms'[r].exists /\ rooms'[r].group = group /\ rooms'[r].people = people
      /\ rooms'[r].last = None /\ rooms'[r] = [exists |-> rooms'[r].exists,
            group |-> rooms'[r].group, people |-> rooms'[r].people, last |-> rooms'[r].last]
  <2>1. row.exists /\ row.group = group /\ row.people = people /\ row.last = None
        /\ row = [exists |-> row.exists, group |-> row.group, people |-> row.people,
                  last |-> row.last]
    OBVIOUS
  <2> HIDE DEF row
  <2> QED
    BY <1>1, <2>1
<1>3. rooms' = [s \in Rooms |-> rooms'[s]]
  BY DEF ChatInv, RoomsTyped
<1> HIDE DEF row
<1>4. RoomsTyped'
  <2>1. ASSUME NEW s \in Rooms
        PROVE  /\ rooms'[s] = [exists |-> rooms'[s].exists, group |-> rooms'[s].group,
                               people |-> rooms'[s].people, last |-> rooms'[s].last]
               /\ ~rooms'[s].exists => rooms'[s].last = None /\ sent'[s] = None
    <3>1. CASE s = r
      BY <1>2, <3>1
    <3>2. CASE s # r
      BY <1>1, <3>2 DEF ChatInv, RoomsTyped
    <3> QED
      BY <3>1, <3>2
  <2>2. sent' = [s \in Rooms |-> sent'[s]]
    BY DEF ChatInv, RoomsTyped
  <2> QED
    BY <1>3, <2>1, <2>2 DEF RoomsTyped
<1>5. ASSUME NEW P, NEW s \in DirectRoomsOf(P)', s # r PROVE s \in DirectRoomsOf(P)
  BY <1>1, <1>5 DEF DirectRoomsOf, LiveRooms, PeopleOf
<1>6. ASSUME NEW P, r \in DirectRoomsOf(P)' PROVE ~group /\ PeopleOf(r)' = P
  BY <1>2, <1>6 DEF DirectRoomsOf, LiveRooms
<1>7. RoomsGoOn(h)
  <2>1. \A u, v \in ChatUsers : \A s \in DirectRoomsOf({u, v})' :
          s \in DirectRoomsOf({u, v}) \/ Alone(h, DirectTag(u, v))
    BY <1>5, <1>6 DEF DirectIsKnown
  <2> QED
    BY <1>1, <1>4, <2>1 DEF RoomsGoOn
<1>8. \A g \in Handlers : ChatAtWork(g)'
  BY <1>7, OthersKnowChat
<1>9. OneDirectRoom'
  <2>1. CASE group = TRUE
    BY <1>5, <1>6, <2>1, DisturbedGrows DEF ChatInv, OneDirectRoom, DirectTag
  <2>2. CASE group = FALSE
    BY <2>2 DEF DirectIsKnown
  <2> QED
    BY <2>1, <2>2
<1>10. LastMessageStands'
  <2> SUFFICES ASSUME NEW s \in Rooms, rooms'[s].exists, RoomTag(s) \notin disturbed',
                      \A g \in Handlers : Busy(g)' => task'[g].on # RoomTag(s)
               PROVE  rooms'[s].last = sent'[s]
    BY DEF LastMessageStands, LiveRooms, RoomTag
  <2>1. CASE s = r
    BY <1>2, <2>1 DEF ChatInv, RoomsTyped
  <2>2. CASE s # r
    BY <1>1, <2>2, LastStays
  <2> QED
    BY <2>1, <2>2
<1> QED
  BY <1>4, <1>8, <1>9, <1>10 DEF ChatInv, Moves

LEMMA StoredRow ==
    ASSUME NEW row, NEW group, NEW people,
           \/ group = TRUE /\ row = [NoRoom EXCEPT !.exists = TRUE, !.group = TRUE, !.people = people]
           \/ group = FALSE /\ row = [NoRoom EXCEPT !.exists = TRUE, !.people = people]
    PROVE  row = [exists |-> TRUE, group |-> group, people |-> people, last |-> None]
BY DEF NoRoom

LEMMA RoomInsertKeepsChat ==
    ASSUME ChatInv, NEW h \in Handlers, NEW r \in Rooms, RoomInsert(h, r) PROVE ChatInv'
<1>1. Answer(h) /\ Busy(h) /\ ~rooms[r].exists /\ sent' = sent /\ At(h, "room-insert")
  BY DEF RoomInsert, At, Busy
<1>2. Moves(h) /\ task'[h].at = "idle"
  BY <1>1, AnswerMoves DEF ChatInv, Idle
<1>3. PICK u \in ChatUsers, v \in ChatUsers :
        /\ Data(h) = <<u, v>> /\ task[h].on = DirectTag(u, v)
        /\ DirectTag(u, v) \notin disturbed => DirectRoomsOf({u, v}) = {}
  BY <1>1 DEF ChatInv, ChatAtWork, RoomAtWork
<1>4. rooms' = [rooms EXCEPT ![r] = [exists |-> TRUE, group |-> FALSE, people |-> <<u, v>>,
                                     last |-> None]]
  <2> DEFINE row == [NoRoom EXCEPT !.exists = TRUE, !.people = <<u, v>>]
  <2>1. rooms' = [rooms EXCEPT ![r] = row]
    BY <1>3 DEF RoomInsert
  <2>2. row = [exists |-> TRUE, group |-> FALSE, people |-> <<u, v>>, last |-> None]
    BY StoredRow
  <2> QED
    BY <2>1, <2>2
<1>5. rooms'[r].people = <<u, v>> /\ \A s \in Rooms \ {r} : rooms'[s] = rooms[s]
  BY <1>4 DEF ChatInv, RoomsTyped
<1>6. PeopleOf(r)' = {u, v}
  BY <1>5 DEF PeopleOf
<1>7. Alone(h, DirectTag(u, v))
  BY <1>1, <1>2, <1>3, WorksAlone DEF ChatInv
<1>8. ASSUME NEW x \in ChatUsers, NEW y \in ChatUsers, {x, y} = {u, v}
      PROVE  DirectTag(x, y) = DirectTag(u, v)
  BY <1>8 DEF DirectTag
<1>9. OneDirectRoom'
  <2> SUFFICES ASSUME NEW x \in ChatUsers, NEW y \in ChatUsers, DirectTag(x, y) \notin disturbed',
                      NEW s \in DirectRoomsOf({x, y})', NEW t \in DirectRoomsOf({x, y})'
               PROVE  s = t
    BY DEF OneDirectRoom, DirectTag
  <2>1. DirectTag(x, y) \notin disturbed
    BY <1>2, DisturbedGrows
  <2>2. ASSUME NEW q \in DirectRoomsOf({x, y})', q # r PROVE q \in DirectRoomsOf({x, y})
    BY <1>5, <2>2 DEF DirectRoomsOf, LiveRooms, PeopleOf
  <2>3. CASE {x, y} = {u, v}
    BY <1>3, <1>8, <2>1, <2>2, <2>3
  <2>4. CASE {x, y} # {u, v}
    <3>1. r \notin DirectRoomsOf({x, y})'
      BY <1>6, <2>4 DEF DirectRoomsOf
    <3> QED
      BY <2>1, <2>2, <3>1 DEF ChatInv, OneDirectRoom
  <2> QED
    BY <2>3, <2>4
<1>10. ChatAtWork(h)' /\ \A s \in Rooms : StaysOn(h, s)
  BY <1>2, <1>3 DEF ChatAtWork, RoomAtWork, PostAtWork, OnRoom, StaysOn, Storing, At, Busy,
     DirectTag, RoomTag
<1>11. DirectIsKnown(h, r)
  BY <1>6, <1>7, <1>8, <1>9 DEF DirectIsKnown
<1> QED
  BY <1>1, <1>2, <1>4, <1>10, <1>11, RoomIsStored

LEMMA GroupKeepsChat ==
    ASSUME ChatInv, NEW h \in Handlers, NEW r \in Rooms, NEW people, CreateGroupRoom(h, r, people)
    PROVE  ChatInv'
<1>1. AtOnce(h, RoomTag(r)) /\ ~rooms[r].exists /\ sent' = sent /\ ~Busy(h)
  BY DEF CreateGroupRoom, AtOnce
<1>2. Moves(h) /\ task' = task
  BY <1>1, AtOnceMoves DEF ChatInv
<1>3. rooms' = [rooms EXCEPT ![r] = [exists |-> TRUE, group |-> TRUE, people |-> people,
                                     last |-> None]]
  BY StoredRow DEF CreateGroupRoom
<1>4. ChatAtWork(h)' /\ \A s \in Rooms : StaysOn(h, s)
  BY <1>1, <1>2 DEF ChatAtWork, RoomAtWork, PostAtWork, OnRoom, StaysOn, Storing, At, Busy
<1> QED
  BY <1>1, <1>2, <1>3, <1>4, RoomIsStored

\* A step of the send of h on its room r.
LEMMA SendKeepsChat ==
    ASSUME ChatInv, NEW h \in Handlers, Moves(h), Busy(h), NEW r \in Rooms, rooms[r].exists,
           task[h].on = RoomTag(r), RoomsTyped', \A s \in Rooms :
             /\ rooms'[s].exists = rooms[s].exists /\ rooms'[s].group = rooms[s].group
             /\ rooms'[s].people = rooms[s].people
             /\ s # r => rooms'[s].last = rooms[s].last /\ sent'[s] = sent[s],
           ChatAtWork(h)',
           \/ Busy(h)' /\ task'[h].on = RoomTag(r)
           \/ RoomTag(r) \notin disturbed' => rooms'[r].last = sent'[r]
    PROVE  ChatInv'
<1>1. Alone(h, RoomTag(r))
  BY WorksAlone DEF ChatInv
<1>2. \A P : DirectRoomsOf(P)' = DirectRoomsOf(P)
  BY DEF DirectRoomsOf, LiveRooms, PeopleOf
<1>3. RoomsGoOn(h)
  BY <1>1, <1>2 DEF RoomsGoOn
<1>4. \A g \in Handlers : ChatAtWork(g)'
  BY <1>3, OthersKnowChat
<1>5. OneDirectRoom'
  BY <1>2, DisturbedGrows DEF ChatInv, OneDirectRoom, DirectTag
<1>6. ASSUME NEW s \in Rooms, s # r PROVE StaysOn(h, s)
  BY <1>6 DEF StaysOn, RoomTag
<1>7. LastMessageStands'
  <2> SUFFICES ASSUME NEW s \in Rooms, rooms'[s].exists, RoomTag(s) \notin disturbed',
                      \A g \in Handlers : Busy(g)' => task'[g].on # RoomTag(s)
               PROVE  rooms'[s].last = sent'[s]
    BY DEF LastMessageStands, LiveRooms, RoomTag
  <2>1. CASE s # r
    BY <1>6, <2>1, LastStays
  <2> QED
    BY <2>1
<1> QED
  BY <1>4, <1>5, <1>7 DEF ChatInv, Moves

LEMMA MessageInsertKeepsChat ==
    ASSUME ChatInv, NEW h \in Handlers, MessageInsert(h) PROVE ChatInv'
<1> DEFINE r == Data(h).room
           i == Len(messages) + 1
<1>1. /\ At(h, "message-insert") /\ Busy(h) /\ rooms' = rooms /\ sent' = [sent EXCEPT ![r] = i]
      /\ Goto(h, "room-touch", [room |-> r, message |-> i])
  BY DEF MessageInsert, At, Busy
<1>2. r \in Rooms /\ rooms[r].exists /\ task[h].on = RoomTag(r)
  BY <1>1 DEF ChatInv, ChatAtWork, PostAtWork, Storing
<1>3. /\ Moves(h)
      /\ task'[h] = [at |-> "room-touch", on |-> task[h].on, data |-> [room |-> r, message |-> i]]
  BY <1>1, GotoMoves DEF ChatInv
<1> HIDE DEF r, i
<1>4. /\ task'[h].at = "room-touch" /\ task'[h].on = RoomTag(r)
      /\ task'[h].data = [room |-> r, message |-> i]
  BY <1>2, <1>3
<1>5. sent'[r] = i /\ (\A s \in Rooms \ {r} : sent'[s] = sent[s]) /\ RoomsTyped'
  BY <1>1, <1>2 DEF ChatInv, RoomsTyped
<1>6. PostAtWork(h)'
  BY <1>1, <1>2, <1>4, <1>5 DEF PostAtWork, Storing, At, Data, RoomTag
<1>7. RoomAtWork(h)' /\ OnRoom(h)' /\ Busy(h)'
  BY <1>4 DEF RoomAtWork, OnRoom, Storing, At, Busy
<1> QED
  BY <1>1, <1>2, <1>3, <1>4, <1>5, <1>6, <1>7, SendKeepsChat DEF ChatAtWork

LEMMA RoomTouchKeepsChat ==
    ASSUME ChatInv, NEW h \in Handlers, RoomTouch(h) PROVE ChatInv'
<1> DEFINE r == Data(h).room
           m == Data(h).message
<1>1. /\ At(h, "room-touch") /\ Busy(h) /\ rooms' = [rooms EXCEPT ![r].last = m]
      /\ sent' = sent /\ Answer(h)
  BY DEF RoomTouch, Touched, At, Busy
<1>2. /\ r \in Rooms /\ rooms[r].exists /\ task[h].on = RoomTag(r)
      /\ RoomTag(r) \notin disturbed => m = sent[r]
  BY <1>1 DEF ChatInv, ChatAtWork, PostAtWork
<1>3. Moves(h) /\ task'[h].at = "idle"
  BY <1>1, AnswerMoves DEF ChatInv, Idle
<1> HIDE DEF r, m
<1>4. /\ rooms' = [s \in Rooms |-> rooms'[s]] /\ \A s \in Rooms \ {r} : rooms'[s] = rooms[s]
      /\ rooms'[r] = [exists |-> rooms[r].exists, group |-> rooms[r].group,
                      people |-> rooms[r].people, last |-> m]
  <2>1. rooms[r] = [exists |-> rooms[r].exists, group |-> rooms[r].group,
                    people |-> rooms[r].people, last |-> rooms[r].last]
    BY <1>2 DEF ChatInv, RoomsTyped
  <2>2. rooms = [s \in Rooms |-> rooms[s]]
    BY DEF ChatInv, RoomsTyped
  <2>3. rooms' = [rooms EXCEPT ![r] = [rooms[r] EXCEPT !.last = m]]
    BY <1>1, <1>2, <2>2
  <2> DEFINE row == [rooms[r] EXCEPT !.last = m]
  <2>4. row = [exists |-> rooms[r].exists, group |-> rooms[r].group,
               people |-> rooms[r].people, last |-> m]
    BY <2>1
  <2> HIDE DEF row
  <2> QED
    BY <1>2, <2>2, <2>3, <2>4 DEF row
<1>5. /\ rooms'[r].last = m /\ \A s \in Rooms :
           /\ rooms'[s].exists = rooms[s].exists /\ rooms'[s].group = rooms[s].group
           /\ rooms'[s].people = rooms[s].people
           /\ s # r => rooms'[s].last = rooms[s].last
  BY <1>4
<1>6. RoomsTyped'
  <2>1. ASSUME NEW s \in Rooms
        PROVE  /\ rooms'[s] = [exists |-> rooms'[s].exists, group |-> rooms'[s].group,
                               people |-> rooms'[s].people, last |-> rooms'[s].last]
               /\ ~rooms'[s].exists => rooms'[s].last = None /\ sent'[s] = None
    <3>1. CASE s = r
      BY <1>2, <1>4, <3>1
    <3>2. CASE s # r
      BY <1>1, <1>4, <3>2 DEF ChatInv, RoomsTyped
    <3> QED
      BY <3>1, <3>2
  <2> QED
    BY <1>1, <1>4, <2>1 DEF ChatInv, RoomsTyped
<1>7. ChatAtWork(h)'
  BY <1>3 DEF ChatAtWork, RoomAtWork, PostAtWork, OnRoom, Storing, At, Busy
<1>8. RoomTag(r) \notin disturbed' => rooms'[r].last = sent'[r]
  BY <1>1, <1>2, <1>3, <1>5, DisturbedGrows
<1> QED
  BY <1>1, <1>2, <1>3, <1>5, <1>6, <1>7, <1>8, SendKeepsChat

LEMMA ChatStep == ASSUME ChatInv, ChatNext PROVE ChatInv'
<1>1. ASSUME NEW h \in Handlers, NEW u \in ChatUsers, NEW v \in ChatUsers,
             DirectFound(h, u, v) \/ DirectMissing(h, u, v)
      PROVE  ChatInv'
  <2>1. CASE DirectFound(h, u, v)
    <3>1. /\ task' = task /\ overlapped' = overlapped /\ failed' = failed
          /\ UNCHANGED <<rooms, sent>>
      BY <2>1 DEF DirectFound, Reads, chatTables
    <3>2. Moves(h)
      BY <3>1 DEF ChatInv, Moves, RequestsInv, Shape, OverlapsNoted, Busy
    <3> QED
      BY <3>1, <3>2, QuietStep
  <2> QED
    BY <1>1, <2>1, DirectMissingKeepsChat
<1>2. ASSUME NEW h \in Handlers, NEW r \in Rooms, NEW people, CreateGroupRoom(h, r, people)
      PROVE  ChatInv'
  BY <1>2, GroupKeepsChat
<1>3. ASSUME NEW h \in Handlers, NEW r \in Rooms, NEW u \in ChatUsers,
             SendMessage(h, r, u) \/ SendConversationMessage(h, r, u)
      PROVE  ChatInv'
  BY <1>3, PostKeepsChat DEF SendMessage, SendConversationMessage
<1>4. ASSUME NEW h \in Handlers, \/ \E r \in Rooms, u \in ChatUsers : MarkConversationRead(h, r, u)
                                 \/ \E i : DeleteMessage(h, i)
                                 \/ \E u : GetConversations(h, u)
      PROVE  ChatInv'
  <2>1. UNCHANGED <<rooms, sent>>
    BY <1>4 DEF MarkConversationRead, DeleteMessage, GetConversations, chatTables
  <2>2. \E step \in {"mark", "blank", "count"} : \E on, data :
          (\A r \in Rooms : on # RoomTag(r)) /\ Begin(h, step, on, data)
    BY <1>4 DEF MarkConversationRead, DeleteMessage, GetConversations, RoomTag
  <2> QED
    BY <2>1, <2>2, BesidesRooms
<1>5. ASSUME NEW h \in Handlers, RoomFind(h) \/ MessageInsert(h) \/ RoomTouch(h) PROVE ChatInv'
  BY <1>5, RoomFindKeepsChat, MessageInsertKeepsChat, RoomTouchKeepsChat
<1>6. ASSUME NEW h \in Handlers, MarkAll(h) \/ Blank(h) \/ CountUnread(h) \/ ChatBreaks(h)
      PROVE  ChatInv'
  <2>1. UNCHANGED <<rooms, sent>>
    BY <1>6 DEF MarkAll, Blank, CountUnread, ChatBreaks, chatTables
  <2>2. \/ At(h, "count") /\ \E data : Goto(h, "count", data)
        \/ (At(h, "mark") \/ At(h, "blank") \/ At(h, "count")) /\ Answer(h)
        \/ Breaks(h)
    BY <1>6 DEF MarkAll, Blank, CountUnread, ChatBreaks
  <2> QED
    BY <2>1, <2>2, BesidesRooms
<1>7. ASSUME NEW s \in Sockets, \/ \E u \in ChatUsers : Connect(s, u)
                                \/ Disconnect(s)
      PROVE  ChatInv'
  <2>1. UNCHANGED <<control, rooms, sent>>
    BY <1>7 DEF Connect, Disconnect
  <2>2. PICK h \in Handlers : TRUE
    BY RequestsAssumption
  <2>3. Moves(h)
    BY <2>1 DEF control, ChatInv, Moves, RequestsInv, Shape, OverlapsNoted, Busy
  <2> QED
    BY <2>1, <2>3, QuietStep DEF control
<1>8. ASSUME NEW h \in Handlers, NEW s \in Sockets, NEW r \in Rooms, SocketMarksRead(h, s, r)
      PROVE  ChatInv'
  <2>1. AtOnce(h, <<"read", r, online[s]>>) /\ UNCHANGED <<rooms, sent>>
    BY <1>8 DEF SocketMarksRead
  <2> QED
    BY <2>1, AtOnceMoves, QuietStep DEF ChatInv
<1>9. ASSUME NEW h \in Handlers, NEW r \in Rooms, RoomInsert(h, r) PROVE ChatInv'
  BY <1>9, RoomInsertKeepsChat
<1> QED
  BY <1>1, <1>2, <1>3, <1>4, <1>5, <1>6, <1>7, <1>8, <1>9 DEF ChatNext

NoRooms == rooms = [r \in Rooms |-> NoRoom] /\ sent = [r \in Rooms |-> None]

ChatPart == IF focus = "chat" THEN ChatInv ELSE NoRooms

LEMMA ChatPartHolds == Spec => []ChatPart
<1>1. Init => ChatPart
  <2> SUFFICES ASSUME Init PROVE ChatPart
    OBVIOUS
  <2>1. RequestsInv /\ \A h \in Handlers : task[h] = Idle
    BY ControlStarts DEF Init, ControlInit
  <2>2. NoRooms
    BY DEF Init, ChatInit, NoRooms
  <2>3. \A h \in Handlers : ChatAtWork(h)
    BY <2>1 DEF ChatAtWork, RoomAtWork, PostAtWork, OnRoom, Storing, At, Busy, Idle
  <2>4. /\ NoRoom = [exists |-> NoRoom.exists, group |-> NoRoom.group,
                     people |-> NoRoom.people, last |-> NoRoom.last]
        /\ NoRoom.exists = FALSE /\ NoRoom.last = None
    BY DEF NoRoom
  <2>5. RoomsTyped /\ \A r \in Rooms : ~rooms[r].exists
    BY <2>2, <2>4 DEF NoRooms, RoomsTyped
  <2>6. OneDirectRoom /\ LastMessageStands
    BY <2>5 DEF OneDirectRoom, LastMessageStands, DirectRoomsOf, LiveRooms
  <2> QED
    BY <2>1, <2>2, <2>3, <2>5, <2>6 DEF ChatPart, ChatInv
<1>2. ChatPart /\ [Next]_vars => ChatPart'
  <2> SUFFICES ASSUME ChatPart, [Next]_vars PROVE ChatPart'
    OBVIOUS
  <2>1. CASE Next /\ focus = "chat"
    <3>1. ChatNext /\ focus' = "chat"
      BY <2>1 DEF Next
    <3> QED
      BY <2>1, <3>1, ChatStep DEF ChatPart
  <2>2. CASE Next /\ focus # "chat"
    BY <2>2 DEF Next, Rest, ChatPart, NoRooms, chatTables
  <2>3. CASE UNCHANGED vars
    <3>1. UNCHANGED <<focus, control, rooms, sent>>
      BY <2>3 DEF vars, chatTables
    <3>2. PICK h \in Handlers : TRUE
      BY RequestsAssumption
    <3>3. ChatInv => Moves(h)
      BY <3>1 DEF control, ChatInv, Moves, RequestsInv, Shape, OverlapsNoted, Busy
    <3>4. ChatInv => ChatInv'
      BY <3>1, <3>3, QuietStep DEF control
    <3> QED
      BY <3>1, <3>4 DEF ChatPart, NoRooms
  <2> QED
    BY <2>1, <2>2, <2>3
<1> QED
  BY <1>1, <1>2, PTL DEF Spec

\* A room whose sends neither overlapped nor failed shows the message that was stored last,
\* whatever was read, deleted or sent elsewhere meanwhile.
THEOREM LastMessageStandsHolds == Spec => []LastMessageStands
<1>1. ChatPart => LastMessageStands
  <2>1. CASE focus = "chat"
    BY <2>1 DEF ChatPart, ChatInv
  <2>2. ASSUME focus # "chat", ChatPart PROVE LastMessageStands
    <3>1. \A r \in Rooms : rooms[r] = NoRoom
      BY <2>2 DEF ChatPart, NoRooms
    <3>2. LiveRooms = {}
      BY <3>1 DEF LiveRooms, NoRoom
    <3> QED
      BY <3>2 DEF LastMessageStands
  <2> QED
    BY <2>1, <2>2
<1> QED
  BY <1>1, ChatPartHolds, PTL

\* Two people have one direct room unless two requests for it were under way together, in
\* whatever order each of them names the two.
THEOREM DirectRoomOnceHolds == Spec => []DirectRoomOnce
<1>1. ChatPart => DirectRoomOnce
  <2> SUFFICES ASSUME ChatPart, NEW u \in ChatUsers, NEW v \in ChatUsers,
                      DirectTag(u, v) \notin disturbed
               PROVE  Cardinality(DirectRoomsOf({u, v})) <= 1
    BY DEF DirectRoomOnce, DirectRoomsOf
  <2>1. CASE focus # "chat"
    <3>1. \A r \in Rooms : rooms[r] = NoRoom
      BY <2>1 DEF ChatPart, NoRooms
    <3>2. DirectRoomsOf({u, v}) = {}
      BY <3>1 DEF NoRoom, DirectRoomsOf, LiveRooms
    <3> QED
      BY <3>2, FS_EmptySet
  <2>2. CASE focus = "chat"
    <3>1. \A r, s \in DirectRoomsOf({u, v}) : r = s
      BY <2>2 DEF ChatPart, ChatInv, OneDirectRoom
    <3>2. CASE DirectRoomsOf({u, v}) = {}
      BY <3>2, FS_EmptySet
    <3>3. CASE DirectRoomsOf({u, v}) # {}
      <4> DEFINE R == DirectRoomsOf({u, v})
      <4> HIDE DEF R
      <4>1. PICK r : R = {r}
        BY <3>1, <3>3 DEF R
      <4>2. Cardinality(R) = 1
        BY <4>1, FS_Singleton
      <4> QED
        BY <4>2 DEF R
    <3> QED
      BY <3>2, <3>3
  <2> QED
    BY <2>1, <2>2
<1> QED
  BY <1>1, ChatPartHolds, PTL
-----------------------------------------------------------------------------
(* The types of every table, and of what requests hold when they write.    *)

\* What requests have in memory when they await a statement, for those that `held` lists.
Held(held) ==
    \A h \in Handlers : task[h].at \in DOMAIN held => Data(h) \in held[task[h].at]

\* Every table that a request writes keeps its columns, if what it holds fits them.
LEMMA StaysHeld ==
    ASSUME NEW held, "idle" \notin DOMAIN held, Shape, Held(held), NEW h \in Handlers
    PROVE  /\ \A step, on, data : /\ step \in DOMAIN held => data \in held[step]
                                  /\ Begin(h, step, on, data)
                                  => Held(held)'
           /\ \A step, data : /\ step \in DOMAIN held => data \in held[step]
                              /\ Goto(h, step, data)
                              => Held(held)'
           /\ Answer(h) \/ Breaks(h) => Held(held)'
           /\ Reads(h) \/ (\E on : AtOnce(h, on)) \/ UNCHANGED control => Held(held)'
<1>1. ASSUME NEW step, NEW on, NEW data, step \in DOMAIN held => data \in held[step],
             Begin(h, step, on, data)
      PROVE  Held(held)'
  <2>1. task' = [task EXCEPT ![h] = [at |-> step, on |-> on, data |-> data]]
    BY <1>1 DEF Begin
  <2>2. /\ task'[h] = [at |-> step, on |-> on, data |-> data]
        /\ \A g \in Handlers \ {h} : task'[g] = task[g]
    BY <2>1 DEF Shape
  <2> QED
    BY <1>1, <2>2 DEF Held, Data
<1>2. ASSUME NEW step, NEW data, step \in DOMAIN held => data \in held[step], Goto(h, step, data)
      PROVE  Held(held)'
  <2>1. /\ task'[h] = [at |-> step, on |-> task[h].on, data |-> data]
        /\ \A g \in Handlers \ {h} : task'[g] = task[g]
    BY <1>2, GotoTask
  <2> QED
    BY <1>2, <2>1 DEF Held, Data
<1>3. ASSUME Answer(h) \/ Breaks(h) PROVE Held(held)'
  <2>1. task' = [task EXCEPT ![h] = Idle]
    BY <1>3 DEF Answer, Breaks
  <2>2. task'[h] = Idle /\ \A g \in Handlers \ {h} : task'[g] = task[g]
    BY <2>1 DEF Shape
  <2>3. Idle.at = "idle"
    BY DEF Idle
  <2> QED
    BY <2>2, <2>3 DEF Held, Data
<1>4. ASSUME Reads(h) \/ (\E on : AtOnce(h, on)) \/ UNCHANGED control PROVE Held(held)'
  <2>1. task' = task
    BY <1>4 DEF Reads, AtOnce, control
  <2> QED
    BY <2>1 DEF Held, Data
<1> QED
  BY <1>1, <1>2, <1>3, <1>4
-----------------------------------------------------------------------------
ChatHeld ==
    [step \in {"room-insert", "room-find", "message-insert", "room-touch"} |->
       CASE step = "room-insert" -> ChatUsers \X ChatUsers
         [] step = "room-touch"  -> [room : Rooms, message : 1 .. MaxMessages]
         [] OTHER                -> [room : Rooms, user : ChatUsers]]

ChatTyped ==
    /\ rooms \in [Rooms -> ChatRoom] /\ messages \in Seq(ChatMessage)
    /\ Held(ChatHeld)

\* A new room, with the people of the request.
LEMMA NewRoomTyped ==
    ASSUME NEW people \in ChatUsers \X ChatUsers
    PROVE  /\ [NoRoom EXCEPT !.exists = TRUE, !.people = people] \in ChatRoom
           /\ [NoRoom EXCEPT !.exists = TRUE, !.group = TRUE, !.people = people] \in ChatRoom
<1>1. people \in Seq(ChatUsers)
  <2>1. PICK u \in ChatUsers, v \in ChatUsers : people = <<u, v>>
    OBVIOUS
  <2> QED
    BY <2>1
<1> QED
  BY <1>1 DEF NoRoom, ChatRoom

\* Whatever is marked as read or blanked, a message is a message.
LEMMA MessagesStayTyped ==
    ASSUME messages \in Seq(ChatMessage)
    PROVE  /\ \A r, u : Marked(r, u) \in Seq(ChatMessage)
           /\ \A i : [messages EXCEPT ![i].deleted = TRUE] \in Seq(ChatMessage)
<1> USE LenProperties
<1>1. /\ Len(messages) \in Nat /\ DOMAIN messages = 1 .. Len(messages)
      /\ \A j \in 1 .. Len(messages) : messages[j] \in ChatMessage
  BY ElementOfSeq
<1>2. ASSUME NEW r, NEW u PROVE Marked(r, u) \in Seq(ChatMessage)
  <2>1. \A j \in 1 .. Len(messages) : \A b : b \in BOOLEAN =>
          [messages[j] EXCEPT !.read = b] \in ChatMessage
    BY <1>1 DEF ChatMessage
  <2> DEFINE marked(j) == messages[j].read \/ j \in ToRead(r, u)
  <2>2. Marked(r, u) = [j \in 1 .. Len(messages) |-> [messages[j] EXCEPT !.read = marked(j)]]
    BY <1>1 DEF Marked
  <2>3. \A j : marked(j) \in BOOLEAN
    OBVIOUS
  <2> HIDE DEF marked
  <2>4. Marked(r, u) \in [1 .. Len(messages) -> ChatMessage]
    BY <2>1, <2>2, <2>3
  <2> QED
    BY <1>1, <2>4, SeqDef
<1>3. ASSUME NEW i PROVE [messages EXCEPT ![i].deleted = TRUE] \in Seq(ChatMessage)
  <2> DEFINE blanked == [messages EXCEPT ![i].deleted = TRUE]
  <2>1. DOMAIN blanked = 1 .. Len(messages)
    BY <1>1
  <2>2. \A j \in 1 .. Len(messages) : blanked[j] \in ChatMessage
    BY <1>1 DEF ChatMessage
  <2>3. blanked = [j \in 1 .. Len(messages) |-> blanked[j]]
    BY <2>1
  <2>4. blanked \in [1 .. Len(messages) -> ChatMessage]
    BY <2>2, <2>3
  <2> QED
    BY <1>1, <2>4, SeqDef
<1> QED
  BY <1>2, <1>3

LEMMA ChatStaysTyped == ASSUME Shape, ChatTyped, ChatNext PROVE ChatTyped'
<1>1. /\ DOMAIN ChatHeld = {"room-insert", "room-find", "message-insert", "room-touch"}
      /\ ChatHeld["room-insert"] = ChatUsers \X ChatUsers
      /\ ChatHeld["room-touch"] = [room : Rooms, message : 1 .. MaxMessages]
      /\ ChatHeld["room-find"] = [room : Rooms, user : ChatUsers]
      /\ ChatHeld["message-insert"] = [room : Rooms, user : ChatUsers]
  BY DEF ChatHeld
<1>2. Held(ChatHeld) /\ "idle" \notin DOMAIN ChatHeld
  BY <1>1 DEF ChatTyped
<1>3. ASSUME NEW h \in Handlers
      PROVE  /\ \A step, on, data : /\ step \in DOMAIN ChatHeld => data \in ChatHeld[step]
                                    /\ Begin(h, step, on, data)
                                    => Held(ChatHeld)'
             /\ \A step, data : /\ step \in DOMAIN ChatHeld => data \in ChatHeld[step]
                                /\ Goto(h, step, data)
                                => Held(ChatHeld)'
             /\ Answer(h) \/ Breaks(h) => Held(ChatHeld)'
             /\ Reads(h) \/ (\E on : AtOnce(h, on)) \/ UNCHANGED control => Held(ChatHeld)'
  BY <1>2, StaysHeld
<1>4. ASSUME UNCHANGED <<rooms, messages>>, Held(ChatHeld)' PROVE ChatTyped'
  BY <1>4 DEF ChatTyped
<1>5. ASSUME NEW h \in Handlers, NEW u \in ChatUsers, NEW v \in ChatUsers,
             DirectFound(h, u, v) \/ DirectMissing(h, u, v)
      PROVE  ChatTyped'
  BY <1>1, <1>3, <1>4, <1>5 DEF DirectFound, DirectMissing, chatTables
<1>6. ASSUME NEW h \in Handlers, NEW r \in Rooms, RoomInsert(h, r) PROVE ChatTyped'
  <2>1. Data(h) \in ChatUsers \X ChatUsers
    BY <1>1, <1>2, <1>6 DEF RoomInsert, At, Held
  <2> DEFINE row == [NoRoom EXCEPT !.exists = TRUE, !.people = Data(h)]
  <2>2. row \in ChatRoom
    BY <2>1, NewRoomTyped
  <2>3. rooms' = [rooms EXCEPT ![r] = row] /\ messages' = messages /\ Answer(h)
    BY <1>6 DEF RoomInsert
  <2> HIDE DEF row
  <2> QED
    BY <1>3, <2>2, <2>3 DEF ChatTyped
<1>7. ASSUME NEW h \in Handlers, NEW r \in Rooms, NEW u \in ChatUsers, NEW v \in ChatUsers,
             CreateGroupRoom(h, r, <<u, v>>)
      PROVE  ChatTyped'
  <2> DEFINE row == [NoRoom EXCEPT !.exists = TRUE, !.group = TRUE, !.people = <<u, v>>]
  <2>1. <<u, v>> \in ChatUsers \X ChatUsers
    OBVIOUS
  <2>2. row \in ChatRoom
    BY <2>1, NewRoomTyped
  <2>3. rooms' = [rooms EXCEPT ![r] = row] /\ messages' = messages /\ AtOnce(h, RoomTag(r))
    BY <1>7 DEF CreateGroupRoom
  <2> HIDE DEF row
  <2> QED
    BY <1>3, <2>2, <2>3 DEF ChatTyped
<1>8. ASSUME NEW h \in Handlers, NEW r \in Rooms, NEW u \in ChatUsers,
             SendMessage(h, r, u) \/ SendConversationMessage(h, r, u) \/ MarkConversationRead(h, r, u)
      PROVE  ChatTyped'
  <2>1. [room |-> r, user |-> u] \in [room : Rooms, user : ChatUsers]
    OBVIOUS
  <2>2. UNCHANGED <<rooms, messages>>
    BY <1>8 DEF SendMessage, SendConversationMessage, MarkConversationRead, Post, chatTables
  <2>3. Held(ChatHeld)'
    BY <1>1, <1>3, <1>8, <2>1 DEF SendMessage, SendConversationMessage, MarkConversationRead, Post
  <2> QED
    BY <1>4, <2>2, <2>3
<1>9. ASSUME NEW h \in Handlers, RoomFind(h) PROVE ChatTyped'
  <2>1. Data(h) \in [room : Rooms, user : ChatUsers]
    BY <1>1, <1>2, <1>9 DEF RoomFind, At, Held
  <2> QED
    BY <1>1, <1>3, <1>4, <1>9, <2>1 DEF RoomFind, chatTables
<1>10. ASSUME NEW h \in Handlers, MessageInsert(h) PROVE ChatTyped'
  <2> DEFINE i == Len(messages) + 1
  <2>1. Data(h) \in [room : Rooms, user : ChatUsers]
    BY <1>1, <1>2, <1>10 DEF MessageInsert, At, Held
  <2> DEFINE row  == [room |-> Data(h).room, sender |-> Data(h).user, read |-> FALSE, deleted |-> FALSE]
             data == [room |-> Data(h).room, message |-> i]
  <2>2. row \in ChatMessage
    BY <2>1 DEF ChatMessage
  <2>3. i \in 1 .. MaxMessages
    BY <1>10, LenProperties, ChatAssumption DEF MessageInsert, ChatTyped
  <2>4. data \in [room : Rooms, message : 1 .. MaxMessages]
    BY <2>1, <2>3
  <2>5. messages' = Append(messages, row) /\ rooms' = rooms /\ Goto(h, "room-touch", data)
    BY <1>10 DEF MessageInsert
  <2> HIDE DEF row, data, i
  <2>6. messages' \in Seq(ChatMessage)
    BY <2>2, <2>5, AppendProperties DEF ChatTyped
  <2>7. Held(ChatHeld)'
    BY <1>1, <1>3, <2>4, <2>5
  <2> QED
    BY <2>5, <2>6, <2>7 DEF ChatTyped
<1>11. ASSUME NEW h \in Handlers, RoomTouch(h) PROVE ChatTyped'
  <2>1. Data(h) \in [room : Rooms, message : 1 .. MaxMessages]
    BY <1>1, <1>2, <1>11 DEF RoomTouch, At, Held
  <2> DEFINE r == Data(h).room
             i == Data(h).message
  <2>2. rooms' = [rooms EXCEPT ![r].last = i] /\ messages' = messages /\ Answer(h)
    BY <1>11 DEF RoomTouch, Touched
  <2>3. r \in Rooms /\ i \in 1 .. MaxMessages
    BY <2>1
  <2> HIDE DEF r, i
  <2>4. rooms' \in [Rooms -> ChatRoom]
    BY <2>2, <2>3 DEF ChatTyped, ChatRoom
  <2> QED
    BY <1>3, <2>2, <2>4 DEF ChatTyped
<1>12. ASSUME NEW h \in Handlers, MarkAll(h) \/ Blank(h) \/ \E s \in Sockets, r \in Rooms : SocketMarksRead(h, s, r)
       PROVE  ChatTyped'
  <2>1. messages' \in Seq(ChatMessage)
    BY <1>12, MessagesStayTyped DEF MarkAll, Blank, SocketMarksRead, ChatTyped
  <2>2. rooms' = rooms /\ (Answer(h) \/ \E on : AtOnce(h, on))
    BY <1>12 DEF MarkAll, Blank, SocketMarksRead
  <2> QED
    BY <1>3, <2>1, <2>2 DEF ChatTyped
<1>13. ASSUME NEW h \in Handlers, \/ CountUnread(h) \/ ChatBreaks(h)
                                  \/ \E i \in 1 .. MaxMessages : DeleteMessage(h, i)
                                  \/ \E u \in ChatUsers : GetConversations(h, u)
       PROVE  ChatTyped'
  <2>1. UNCHANGED <<rooms, messages>>
    BY <1>13 DEF CountUnread, ChatBreaks, DeleteMessage, GetConversations, chatTables
  <2>2. Held(ChatHeld)'
    BY <1>1, <1>3, <1>13 DEF CountUnread, ChatBreaks, DeleteMessage, GetConversations
  <2> QED
    BY <1>4, <2>1, <2>2
<1>14. ASSUME NEW s \in Sockets, Disconnect(s) \/ \E u \in ChatUsers : Connect(s, u)
       PROVE  ChatTyped'
  <2>1. UNCHANGED <<control, rooms, messages>>
    BY <1>14 DEF Disconnect, Connect
  <2>2. PICK h \in Handlers : TRUE
    BY RequestsAssumption
  <2> QED
    BY <1>3, <1>4, <2>1, <2>2
<1> QED
  BY <1>5, <1>6, <1>7, <1>8, <1>9, <1>10, <1>11, <1>12, <1>13, <1>14 DEF ChatNext
-----------------------------------------------------------------------------
BranchText == [objects : SUBSET Branches, plain : SUBSET Names]

HeldRows == [own : SUBSET (Columns \cup {"branches"}),
             change : [whole : BOOLEAN, object : Objects] \cup {None},
             json : [Columns -> Objects], branches : BranchText,
             dirty : SUBSET (Columns \cup {"branches"})]

TenantHeld ==
    [step \in TenantSteps |->
       CASE step = "merge-write"                    -> [column : Columns, read : Objects, patch : Patches]
         [] step \in {"tenant-load", "tenant-save"} -> HeldRows
         [] OTHER                                   -> SUBSET Branches]

TenantTyped == json \in [Columns -> Objects] /\ branches \in BranchText /\ Held(TenantHeld)

LEMMA ObjectsMerge ==
    ASSUME NEW old \in Objects, NEW patch \in Objects PROVE Merge(old, patch) \in Objects
<1>1. PICK K \in SUBSET Keys : old \in [K -> BOOLEAN]
  BY DEF Objects
<1>2. PICK L \in SUBSET Keys : patch \in [L -> BOOLEAN]
  BY DEF Objects
<1>3. Merge(old, patch) \in [K \cup L -> BOOLEAN]
  BY <1>1, <1>2 DEF Merge
<1>4. K \cup L \in SUBSET Keys
  OBVIOUS
<1> QED
  BY <1>3, <1>4 DEF Objects

\* A request that will save the whole row.
LEMMA FindStaysTyped ==
    ASSUME Shape, TenantTyped, NEW h \in Handlers,
           NEW own \in SUBSET (Columns \cup {"branches"}),
           NEW change \in [whole : BOOLEAN, object : Objects] \cup {None},
           NEW newJson \in [Columns -> Objects], NEW newBranches \in BranchText,
           FindTenant(h, own, change, newJson, newBranches)
    PROVE  TenantTyped'
<1> DEFINE data == [own |-> own, change |-> change, json |-> newJson, branches |-> newBranches,
                    dirty |-> {}]
<1>1. Begin(h, "tenant-load", <<"tenant">>, data) /\ UNCHANGED <<json, branches>>
  BY DEF FindTenant, tenancyTables, tenantRow
<1>2. data \in HeldRows
  BY DEF HeldRows
<1> HIDE DEF data
<1>3. /\ TenantHeld["tenant-load"] = HeldRows /\ "tenant-load" \in DOMAIN TenantHeld
      /\ "idle" \notin DOMAIN TenantHeld
  BY DEF TenantHeld, TenantSteps
<1>4. Held(TenantHeld)'
  BY <1>1, <1>2, <1>3, StaysHeld DEF TenantTyped
<1> QED
  BY <1>1, <1>4 DEF TenantTyped

LEMMA TenantStaysTyped == ASSUME Shape, TenantTyped, TenantNext PROVE TenantTyped'
<1>1. /\ DOMAIN TenantHeld = TenantSteps
      /\ TenantHeld["merge-write"] = [column : Columns, read : Objects, patch : Patches]
      /\ TenantHeld["tenant-load"] = HeldRows /\ TenantHeld["tenant-save"] = HeldRows
      /\ TenantHeld["branch-create"] = SUBSET Branches /\ TenantHeld["branch-edit"] = SUBSET Branches
  BY DEF TenantHeld, TenantSteps
<1>2. /\ Held(TenantHeld) /\ "idle" \notin DOMAIN TenantHeld
      /\ json \in [Columns -> Objects] /\ branches \in BranchText
  BY <1>1 DEF TenantTyped, TenantSteps
<1>3. ASSUME NEW h \in Handlers, NEW c \in Columns, NEW p \in Patches, MergeRead(h, c, p)
      PROVE  TenantTyped'
  <2> DEFINE data == [column |-> c, read |-> json[c], patch |-> p]
  <2>1. data \in [column : Columns, read : Objects, patch : Patches]
    BY <1>2
  <2>2. Begin(h, "merge-write", <<"tenant">>, data) /\ UNCHANGED <<json, branches>>
    BY <1>3 DEF MergeRead, tenancyTables, tenantRow
  <2> HIDE DEF data
  <2>3. Held(TenantHeld)'
    BY <1>1, <1>2, <2>1, <2>2, StaysHeld
  <2> QED
    BY <1>2, <2>2, <2>3 DEF TenantTyped
<1>4. ASSUME NEW h \in Handlers, NEW p \in Patches, UpdateSystemConfig(h, p) PROVE TenantTyped'
  <2>1. /\ json' = [json EXCEPT !["feature_flags"] = p] /\ branches' = branches
        /\ \E on : AtOnce(h, on)
    BY <1>4 DEF UpdateSystemConfig
  <2>2. Held(TenantHeld)'
    BY <1>2, <2>1, StaysHeld
  <2> QED
    BY <1>2, <2>1, <2>2, TenancyAssumption DEF TenantTyped
<1>5. ASSUME NEW h \in Handlers, MergeWrite(h) PROVE TenantTyped'
  <2>1. Data(h) \in [column : Columns, read : Objects, patch : Patches]
    BY <1>1, <1>2, <1>5 DEF MergeWrite, At, Held, TenantSteps
  <2> DEFINE new == Merge(Data(h).read, Data(h).patch)
             c   == Data(h).column
  <2>2. new \in Objects
    BY <2>1, ObjectsMerge, TenancyAssumption
  <2>3. json' = [json EXCEPT ![c] = new] /\ branches' = branches /\ Answer(h)
    BY <1>5 DEF MergeWrite, Merged
  <2> HIDE DEF new, c
  <2>4. Held(TenantHeld)'
    BY <1>2, <2>3, StaysHeld
  <2> QED
    BY <1>2, <2>2, <2>3, <2>4 DEF TenantTyped
<1>6. ASSUME NEW h \in Handlers, NEW c \in Columns, NEW p \in Patches,
             MergeInto(h, c, p) \/ UpdateTenant(h, c, p)
      PROVE  TenantTyped'
  <2>1. Merge(json[c], p) \in Objects /\ p \in Objects
    BY <1>2, ObjectsMerge, TenancyAssumption
  <2>2. CASE MergeInto(h, c, p)
    <3> DEFINE new    == [json EXCEPT ![c] = Merge(json[c], p)]
               change == [whole |-> FALSE, object |-> p]
    <3>1. new \in [Columns -> Objects] /\ change \in [whole : BOOLEAN, object : Objects] \cup {None}
      BY <1>2, <2>1
    <3>2. FindTenant(h, {c}, change, new, branches)
      BY <2>2 DEF MergeInto, Merged
    <3> HIDE DEF new, change
    <3> QED
      BY <1>2, <3>1, <3>2, FindStaysTyped
  <2>3. CASE UpdateTenant(h, c, p)
    <3> DEFINE new    == [json EXCEPT ![c] = p]
               change == [whole |-> TRUE, object |-> p]
    <3>1. new \in [Columns -> Objects] /\ change \in [whole : BOOLEAN, object : Objects] \cup {None}
      BY <1>2, <2>1
    <3>2. FindTenant(h, {c}, change, new, branches) \/ FindTenant(h, {}, None, json, branches)
      BY <2>3 DEF UpdateTenant
    <3> HIDE DEF new, change
    <3> QED
      BY <1>2, <3>1, <3>2, FindStaysTyped
  <2> QED
    BY <1>6, <2>2, <2>3
<1>7. ASSUME NEW h \in Handlers, NEW n \in Names, AddBranch(h, n) PROVE TenantTyped'
  <2> DEFINE new == [branches EXCEPT !.plain = branches.plain \cup {n}]
  <2>1. new \in BranchText
    BY <1>2 DEF BranchText
  <2>2. FindTenant(h, {"branches"}, None, json, new)
    BY <1>7 DEF AddBranch
  <2> HIDE DEF new
  <2> QED
    BY <1>2, <2>1, <2>2, FindStaysTyped
<1>7a. ASSUME NEW h \in Handlers, NEW names \in SUBSET Names, ReplaceBranches(h, names)
       PROVE  TenantTyped'
  <2> DEFINE new == [objects |-> {}, plain |-> names]
  <2>1. new \in BranchText
    BY DEF BranchText
  <2>2. FindTenant(h, {"branches"}, None, json, new)
    BY <1>7a DEF ReplaceBranches
  <2> HIDE DEF new
  <2> QED
    BY <1>2, <2>1, <2>2, FindStaysTyped
<1>8. ASSUME NEW h \in Handlers, TenantLoad(h) PROVE TenantTyped'
  <2>1. Data(h) \in HeldRows
    BY <1>1, <1>2, <1>8 DEF TenantLoad, At, Held, TenantSteps
  <2> DEFINE found == Dirty(Data(h))
             new   == [Data(h) EXCEPT !.dirty = found]
  <2>2. found \in SUBSET (Columns \cup {"branches"})
    BY DEF Dirty
  <2>3. Goto(h, "tenant-save", new) /\ UNCHANGED <<json, branches>>
    BY <1>8 DEF TenantLoad, tenancyTables, tenantRow
  <2> HIDE DEF found
  <2>4. new \in HeldRows
    BY <2>1, <2>2 DEF HeldRows
  <2> HIDE DEF new
  <2>5. Held(TenantHeld)'
    BY <1>1, <1>2, <2>3, <2>4, StaysHeld
  <2> QED
    BY <1>2, <2>3, <2>5 DEF TenantTyped
<1>9. ASSUME NEW h \in Handlers, TenantSave(h) PROVE TenantTyped'
  <2> DEFINE held == Data(h)
  <2>1. held \in HeldRows
    BY <1>1, <1>2, <1>9 DEF TenantSave, At, Held, TenantSteps
  <2>2. /\ json' = [c \in Columns |-> IF c \in held.dirty THEN held.json[c] ELSE json[c]]
        /\ branches' = IF "branches" \in held.dirty THEN held.branches ELSE branches
        /\ Answer(h)
    BY <1>9 DEF TenantSave
  <2>3. held.json \in [Columns -> Objects] /\ held.branches \in BranchText
    BY <2>1 DEF HeldRows
  <2> HIDE DEF held
  <2>4. json' \in [Columns -> Objects] /\ branches' \in BranchText
    BY <1>2, <2>2, <2>3
  <2>5. Held(TenantHeld)'
    BY <1>2, <2>2, StaysHeld
  <2> QED
    BY <2>4, <2>5 DEF TenantTyped
<1>10. ASSUME NEW h \in Handlers, NEW step \in {"branch-create", "branch-edit"},
              ManageBranches(h, step)
       PROVE  TenantTyped'
  <2>1. Begin(h, step, <<"tenant">>, Parsed(branches)) /\ UNCHANGED <<json, branches>>
    BY <1>10 DEF ManageBranches, tenancyTables, tenantRow
  <2>2. Parsed(branches) \in SUBSET Branches
    BY <1>2 DEF Parsed, BranchText
  <2>3. Held(TenantHeld)'
    BY <1>1, <1>2, <2>1, <2>2, StaysHeld
  <2> QED
    BY <1>2, <2>1, <2>3 DEF TenantTyped
<1>11. ASSUME NEW h \in Handlers, EditBranch(h) \/ \E b \in Branches : CreateBranch(h, b)
       PROVE  TenantTyped'
  <2>1. Data(h) \in SUBSET Branches
    BY <1>1, <1>2, <1>11 DEF EditBranch, CreateBranch, At, Held, TenantSteps
  <2>2. branches' \in BranchText /\ json' = json
    BY <1>11, <2>1 DEF EditBranch, CreateBranch, WithNew, BranchText
  <2>3. Held(TenantHeld)'
    BY <1>2, <1>11, StaysHeld DEF EditBranch, CreateBranch
  <2> QED
    BY <1>2, <2>2, <2>3 DEF TenantTyped
<1>12. ASSUME NEW h \in Handlers, TenancyBreaks(h) PROVE TenantTyped'
  BY <1>2, <1>12, StaysHeld DEF TenancyBreaks, TenantTyped
<1> QED
  BY <1>3, <1>4, <1>5, <1>6, <1>7, <1>7a, <1>8, <1>9, <1>10, <1>11, <1>12 DEF TenantNext
-----------------------------------------------------------------------------
LessonsHeld == [step \in {"lesson-write"} |-> [lesson : Lessons, date : Dates]]

LessonsTyped == lessons \in [Lessons -> Lesson] /\ Held(LessonsHeld)

LEMMA LessonsStayTyped == ASSUME Shape, LessonsTyped, OfficeNext PROVE LessonsTyped'
<1>1. /\ DOMAIN LessonsHeld = {"lesson-write"}
      /\ LessonsHeld["lesson-write"] = [lesson : Lessons, date : Dates]
  BY DEF LessonsHeld
<1>2. Held(LessonsHeld) /\ "idle" \notin DOMAIN LessonsHeld /\ lessons \in [Lessons -> Lesson]
  BY <1>1 DEF LessonsTyped
<1>3. ASSUME NEW h \in Handlers, NEW l \in Lessons, NEW d \in Dates, CreateSchedule(h, l, d)
      PROVE  LessonsTyped'
  <2>1. /\ lessons' = [lessons EXCEPT ![l] = [state |-> "live", date |-> d]]
        /\ \E on : AtOnce(h, on)
    BY <1>3 DEF CreateSchedule
  <2>2. [state |-> "live", date |-> d] \in Lesson
    BY DEF Lesson
  <2>3. Held(LessonsHeld)'
    BY <1>2, <2>1, StaysHeld
  <2> QED
    BY <1>2, <2>1, <2>2, <2>3 DEF LessonsTyped
<1>4. ASSUME NEW h \in Handlers, NEW l \in Lessons, NEW d \in Dates, UpdateSchedule(h, l, d)
      PROVE  LessonsTyped'
  <2>1. [lesson |-> l, date |-> d] \in [lesson : Lessons, date : Dates]
    OBVIOUS
  <2>2. /\ Begin(h, "lesson-write", <<"lesson", l>>, [lesson |-> l, date |-> d])
        /\ lessons' = lessons
    BY <1>4 DEF UpdateSchedule, officeTables
  <2>3. Held(LessonsHeld)'
    BY <1>1, <1>2, <2>1, <2>2, StaysHeld
  <2> QED
    BY <1>2, <2>2, <2>3 DEF LessonsTyped
<1>5. ASSUME NEW h \in Handlers, LessonWrite(h) PROVE LessonsTyped'
  <2>1. Data(h) \in [lesson : Lessons, date : Dates]
    BY <1>1, <1>2, <1>5 DEF LessonWrite, At, Held
  <2> DEFINE l == Data(h).lesson
             d == Data(h).date
  <2>2. lessons' = [lessons EXCEPT ![l].date = d] /\ Goto(h, "lesson-find", Data(h))
    BY <1>5 DEF LessonWrite
  <2>3. d \in Dates
    BY <2>1
  <2> HIDE DEF l, d
  <2>4. lessons' \in [Lessons -> Lesson]
    BY <1>2, <2>2, <2>3 DEF Lesson
  <2>5. Held(LessonsHeld)'
    BY <1>1, <1>2, <2>2, StaysHeld
  <2> QED
    BY <2>4, <2>5 DEF LessonsTyped
<1>6. ASSUME NEW h \in Handlers, LessonRemove(h) PROVE LessonsTyped'
  <2> DEFINE l == Data(h)
  <2>1. lessons' = [lessons EXCEPT ![l].state = "removed"] /\ Answer(h)
    BY <1>6 DEF LessonRemove
  <2> HIDE DEF l
  <2>2. lessons' \in [Lessons -> Lesson]
    BY <1>2, <2>1 DEF Lesson
  <2>3. Held(LessonsHeld)'
    BY <1>2, <2>1, StaysHeld
  <2> QED
    BY <2>2, <2>3 DEF LessonsTyped
<1>7. ASSUME NEW h \in Handlers,
             \/ \E k \in FileKeys : Upload(h, k) \/ DeleteByKey(h, k) \/ ServeFile(h, k)
             \/ \E c \in Certificates : Issue(h, c) \/ Revoke(h, c)
             \/ \E l \in Lessons : RemoveSchedule(h, l)
             \/ FileInsert(h) \/ ObjectDelete(h) \/ FileRemove(h) \/ Stream(h)
             \/ GeneratePdf(h) \/ PdfAddress(h) \/ IssueAddress(h)
             \/ RevokeLoad(h) \/ RevokeSave(h) \/ LessonFind(h) \/ OfficeBreaks(h)
      PROVE  LessonsTyped'
  <2>1. lessons' = lessons
    BY <1>7 DEF officeTables, Upload, DeleteByKey, ServeFile, Issue, Revoke, RemoveSchedule,
       FileInsert, ObjectDelete, FileRemove, Stream, GeneratePdf, PdfAddress, IssueAddress,
       RevokeLoad, RevokeSave, LessonFind, OfficeBreaks
  <2>2. Held(LessonsHeld)'
    BY <1>1, <1>2, <1>7, StaysHeld DEF Upload, DeleteByKey, ServeFile, Issue, Revoke, RemoveSchedule,
       FileInsert, ObjectDelete, FileRemove, Stream, GeneratePdf, PdfAddress, IssueAddress,
       RevokeLoad, RevokeSave, LessonFind, OfficeBreaks
  <2> QED
    BY <1>2, <2>1, <2>2 DEF LessonsTyped
<1> QED
  BY <1>3, <1>4, <1>5, <1>6, <1>7 DEF OfficeNext
-----------------------------------------------------------------------------
ViewRows ==
    /\ classes \in [Classes -> Class] /\ leads \in [Subjects -> Tutors \cup {None}]
    /\ roster \subseteq Classes \X Learners /\ joined \subseteq Learners \X Subjects
    /\ works \in [Works -> Work] /\ handed \in [Works \X Learners -> HandedIn]
    /\ rolls \in Seq(Roll) /\ texts \in [Texts -> Subjects \cup {None}]
    /\ tests \in [Tests -> Test]
    /\ Taken(works, handed) /\ Graded(handed)

LEMMA ClassesStay ==
    ASSUME ViewRows, NEW g \in Classes,
           \/ DropClass(g) \/ \E t \in Tutors : HandOver(g, t)
           \/ \E s \in Learners : JoinClass(g, s) \/ LeaveClass(g, s)
           \/ \E l \in Texts : AddText(l, g)
    PROVE  ViewRows'
<1>1. /\ classes' \in [Classes -> Class] /\ roster' \subseteq Classes \X Learners
      /\ texts' \in [Texts -> Subjects \cup {None}]
  <2>1. CASE DropClass(g) \/ \E t \in Tutors : HandOver(g, t)
    <3>1. CASE DropClass(g)
      BY <3>1 DEF ViewRows, DropClass, Class
    <3>2. CASE \E t \in Tutors : HandOver(g, t)
      BY <3>2 DEF ViewRows, HandOver, Class
    <3> QED
      BY <2>1, <3>1, <3>2
  <2>2. CASE \E s \in Learners : JoinClass(g, s) \/ LeaveClass(g, s)
    <3>1. PICK s \in Learners : roster' = roster \cup {<<g, s>>} \/ roster' = roster \ {<<g, s>>}
      BY <2>2 DEF JoinClass, LeaveClass
    <3>2. <<g, s>> \in Classes \X Learners /\ UNCHANGED <<classes, texts>>
      BY <2>2 DEF JoinClass, LeaveClass
    <3> QED
      BY <3>1, <3>2 DEF ViewRows
  <2>3. CASE \E l \in Texts : AddText(l, g)
    BY <2>3 DEF ViewRows, AddText, Class
  <2> QED
    BY <2>1, <2>2, <2>3
<1>2. UNCHANGED <<leads, joined, works, handed, rolls, tests>>
  BY DEF DropClass, HandOver, JoinClass, LeaveClass, AddText
<1> QED
  BY <1>1, <1>2 DEF ViewRows, Taken, Graded

LEMMA MarksStay ==
    ASSUME ViewRows, NEW t \in Tutors, NEW g \in Classes, NEW s \in Learners, NEW day \in Days,
           NEW status \in RollStatuses, MarkDay(t, g, s, day, status)
    PROVE  ViewRows'
<1> DEFINE row == [learner |-> s, class |-> g, day |-> day, by |-> t, status |-> status]
<1>1. row \in Roll
  BY DEF Roll
<1>2. \/ rolls' = Append(rolls, row)
      \/ \E i \in RecordsOf(s, g, day) : rolls' = [rolls EXCEPT ![i] = row]
  BY DEF MarkDay
<1>3. rolls \in Seq(Roll) /\ DOMAIN rolls = 1 .. Len(rolls)
  BY LenProperties DEF ViewRows
<1>4. RecordsOf(s, g, day) \subseteq 1 .. Len(rolls)
  BY <1>3 DEF RecordsOf
<1> HIDE DEF row
<1>5. rolls' \in Seq(Roll)
  <2>1. CASE rolls' = Append(rolls, row)
    BY <1>1, <1>3, <2>1, AppendProperties
  <2>2. ASSUME NEW i \in 1 .. Len(rolls), rolls' = [rolls EXCEPT ![i] = row] PROVE rolls' \in Seq(Roll)
    BY <1>1, <1>3, <2>2, ExceptSeq
  <2> QED
    BY <1>2, <1>4, <2>1, <2>2
<1>6. UNCHANGED <<classes, roster, leads, joined, works, handed, texts, tests>>
  BY DEF MarkDay
<1> QED
  BY <1>5, <1>6 DEF ViewRows, Taken, Graded

LEMMA CoursesStay ==
    ASSUME ViewRows, NEW c \in Subjects,
           \/ \E t \in Tutors : LeadCourse(c, t)
           \/ \E s \in Learners : JoinCourse(s, c)
    PROVE  ViewRows'
<1>1. leads' \in [Subjects -> Tutors \cup {None}] /\ joined' \subseteq Learners \X Subjects
  <2>1. CASE \E t \in Tutors : LeadCourse(c, t)
    BY <2>1 DEF ViewRows, LeadCourse
  <2>2. ASSUME NEW s \in Learners, JoinCourse(s, c)
        PROVE  leads' \in [Subjects -> Tutors \cup {None}] /\ joined' \subseteq Learners \X Subjects
    <3>1. <<s, c>> \in Learners \X Subjects /\ joined' = joined \cup {<<s, c>>} /\ leads' = leads
      BY <2>2 DEF JoinCourse
    <3> QED
      BY <3>1 DEF ViewRows
  <2> QED
    BY <2>1, <2>2
<1>2. UNCHANGED <<classes, roster, works, handed, rolls, texts, tests>>
  BY DEF LeadCourse, JoinCourse
<1> QED
  BY <1>1, <1>2 DEF ViewRows, Taken, Graded

LEMMA WorksStay ==
    ASSUME ViewRows, NEW w \in Works, DropWork(w) \/ \E t \in Tutors, g \in Classes : SetWork(w, t, g)
    PROVE  ViewRows'
<1>1. UNCHANGED <<classes, roster, leads, joined, handed, rolls, texts, tests>>
  BY DEF DropWork, SetWork
<1>2. works' \in [Works -> Work] /\ Taken(works, handed)'
  <2>1. CASE DropWork(w)
    <3>1. works' \in [Works -> Work] /\ works'[w].tutor = works[w].tutor /\ works[w].live
          /\ \A v \in Works \ {w} : works'[v] = works[v]
      BY <2>1 DEF DropWork, ViewRows, Work
    <3> QED
      BY <1>1, <3>1 DEF ViewRows, Taken
  <2>2. ASSUME NEW t \in Tutors, NEW g \in Classes, SetWork(w, t, g)
        PROVE  works' \in [Works -> Work] /\ Taken(works, handed)'
    <3>1. works' \in [Works -> Work] /\ works'[w].tutor = t
          /\ \A v \in Works \ {w} : works'[v] = works[v]
      BY <2>2 DEF SetWork, ViewRows, Work
    <3> QED
      BY <1>1, <3>1 DEF ViewRows, Taken
  <2> QED
    BY <2>1, <2>2
<1> QED
  BY <1>1, <1>2 DEF ViewRows, Graded

\* A hand-in of homework that has its teacher, with whatever grade.
LEMMA HandInsStay ==
    ASSUME ViewRows, NEW w \in Works, NEW s \in Learners, works[w].tutor \in Tutors,
           NEW row \in HandedIn, row.status = "graded" => row.score # None,
           row.score # None => row.month \in Days,
           handed' = [handed EXCEPT ![<<w, s>>] = row],
           UNCHANGED <<classes, roster, leads, joined, works, rolls, texts, tests>>
    PROVE  ViewRows'
<1> DEFINE p == <<w, s>>
<1>1. p \in Works \X Learners /\ handed' = [handed EXCEPT ![p] = row]
  OBVIOUS
<1>2. \A v \in Works, x \in Learners : <<v, x>> \in Works \X Learners /\ (<<v, x>> = p => v = w)
  OBVIOUS
<1> HIDE DEF p
<1>3. handed' \in [Works \X Learners -> HandedIn] /\ handed'[p] = row
      /\ \A q \in (Works \X Learners) \ {p} : handed'[q] = handed[q]
  <2> DEFINE P == Works \X Learners
  <2>1. handed \in [P -> HandedIn] /\ p \in P /\ row \in HandedIn
    BY <1>1 DEF ViewRows
  <2> HIDE DEF P
  <2>2. handed' \in [P -> HandedIn] /\ handed'[p] = row
        /\ \A q \in P \ {p} : handed'[q] = handed[q]
    BY <1>1, <2>1
  <2> QED
    BY <2>2 DEF P
<1>4. Graded(handed)'
  BY <1>3 DEF ViewRows, Graded
<1>5. Taken(works, handed)'
  <2> SUFFICES ASSUME NEW v \in Works, works[v].live \/ \E x \in Learners : handed'[<<v, x>>].status # "none"
               PROVE  works[v].tutor \in Tutors
    BY DEF Taken
  <2>1. CASE v = w
    BY <2>1
  <2>2. CASE v # w
    BY <1>2, <1>3, <2>2 DEF ViewRows, Taken
  <2> QED
    BY <2>1, <2>2
<1> QED
  BY <1>3, <1>4, <1>5 DEF ViewRows

LEMMA GradesStay ==
    ASSUME ViewRows, NEW w \in Works, NEW s \in Learners,
           HandIn(w, s) \/ \E n \in Scores : GradeWork(w, s, n)
    PROVE  ViewRows'
<1> DEFINE p == <<w, s>>
<1>1. p \in Works \X Learners
  OBVIOUS
<1>2. CASE HandIn(w, s)
  <2> DEFINE row == [handed[p] EXCEPT !.status = "submitted"]
  <2>1. works[w].tutor \in Tutors
    BY <1>2 DEF HandIn, ViewRows, Taken
  <2>2. /\ handed' = [handed EXCEPT ![<<w, s>>] = row]
        /\ UNCHANGED <<classes, roster, leads, joined, works, rolls, texts, tests>>
    BY <1>2 DEF HandIn
  <2>3. handed[p] \in HandedIn /\ (handed[p].score # None => handed[p].month \in Days)
    BY <1>1 DEF ViewRows, Graded
  <2> HIDE DEF p
  <2>4. row \in HandedIn /\ row.status # "graded" /\ row.score = handed[p].score
        /\ row.month = handed[p].month
    BY <2>3 DEF HandedIn
  <2> HIDE DEF row
  <2> QED
    BY <2>1, <2>2, <2>3, <2>4, HandInsStay
<1>3. ASSUME NEW n \in Scores, GradeWork(w, s, n) PROVE ViewRows'
  <2> DEFINE row == [status |-> "graded", score |-> n, month |-> 0]
  <2>1. works[w].tutor \in Tutors
    BY <1>3 DEF GradeWork, ViewRows, Taken
  <2>2. /\ handed' = [handed EXCEPT ![<<w, s>>] = row]
        /\ UNCHANGED <<classes, roster, leads, joined, works, rolls, texts, tests>>
    BY <1>3 DEF GradeWork
  <2>3. row \in HandedIn /\ row.score # None /\ row.month \in Days
    BY ViewsAssumption DEF HandedIn
  <2> HIDE DEF row
  <2> QED
    BY <2>1, <2>2, <2>3, HandInsStay
<1> QED
  BY <1>2, <1>3

LEMMA TestsStay ==
    ASSUME ViewRows, NEW e \in Tests, DropTest(e) \/ \E t \in Tutors : SetTest(e, t)
    PROVE  ViewRows'
<1>1. tests' \in [Tests -> Test]
  <2>1. CASE DropTest(e)
    BY <2>1 DEF DropTest, ViewRows, Test
  <2>2. CASE \E t \in Tutors : SetTest(e, t)
    BY <2>2 DEF SetTest, ViewRows, Test
  <2> QED
    BY <2>1, <2>2
<1>2. UNCHANGED <<classes, roster, leads, joined, works, handed, rolls, texts>>
  BY DEF DropTest, SetTest
<1> QED
  BY <1>1, <1>2 DEF ViewRows, Taken, Graded

LEMMA SameViewRows == ASSUME ViewRows, UNCHANGED viewTables PROVE ViewRows'
BY DEF ViewRows, viewTables, Taken, Graded

LEMMA ViewsStayTyped == ASSUME ViewRows, ViewsNext PROVE ViewRows'
<1>1. ASSUME NEW h \in Handlers, \/ \E kind, of, page : OpenView(h, kind, of, page)
                                 \/ RunStatement(h) \/ SendView(h) \/ ViewsBreak(h)
      PROVE  ViewRows'
  <2>1. UNCHANGED viewTables
    BY <1>1 DEF OpenView, RunStatement, SendView, ViewsBreak
  <2> QED
    BY <2>1, SameViewRows
<1>2. ASSUME NEW g \in Classes, \/ DropClass(g) \/ \E t \in Tutors : HandOver(g, t)
                                \/ \E s \in Learners : JoinClass(g, s) \/ LeaveClass(g, s)
                                \/ \E l \in Texts : AddText(l, g)
                                \/ \E t \in Tutors, s \in Learners, day \in Days,
                                      status \in RollStatuses : MarkDay(t, g, s, day, status)
      PROVE  ViewRows'
  BY <1>2, ClassesStay, MarksStay
<1>3. ASSUME NEW c \in Subjects, \/ \E t \in Tutors : LeadCourse(c, t)
                                 \/ \E s \in Learners : JoinCourse(s, c)
      PROVE  ViewRows'
  BY <1>3, CoursesStay
<1>4. ASSUME NEW w \in Works, \/ DropWork(w) \/ \E t \in Tutors, g \in Classes : SetWork(w, t, g)
                              \/ \E s \in Learners : \/ HandIn(w, s)
                                                     \/ \E n \in Scores : GradeWork(w, s, n)
      PROVE  ViewRows'
  BY <1>4, WorksStay, GradesStay
<1>5. ASSUME NEW e \in Tests, DropTest(e) \/ \E t \in Tutors : SetTest(e, t) PROVE ViewRows'
  BY <1>5, TestsStay
<1> QED
  BY <1>1, <1>2, <1>3, <1>4, <1>5 DEF ViewsNext

LEMMA ViewsStartTyped == ASSUME ViewsInit PROVE ViewRows
BY ViewsAssumption DEF ViewsInit, ViewRows
-----------------------------------------------------------------------------
\* The tables of the part that a behaviour is about have what their columns allow; those of
\* the others are as they were at the start.
TablesTyped ==
    /\ IF focus = "chat" THEN ChatTyped
       ELSE rooms = [r \in Rooms |-> NoRoom] /\ messages = <<>>
    /\ IF focus = "tenant" THEN TenantTyped
       ELSE json = [c \in Columns |-> Defaults] /\ branches = [objects |-> {}, plain |-> {}]
    /\ IF focus = "office" THEN LessonsTyped ELSE lessons = [l \in Lessons |-> NoLesson]
    /\ focus = "views" => ViewRows

LEMMA NobodyHolds == ASSUME ControlInit, NEW held, "idle" \notin DOMAIN held PROVE Held(held)
<1>1. \A h \in Handlers : task[h].at = "idle"
  BY DEF ControlInit, Idle
<1> QED
  BY <1>1 DEF Held

LEMMA RowsAtStart ==
    /\ NoRoom \in ChatRoom /\ <<>> \in Seq(ChatMessage) /\ Defaults \in Objects
    /\ [objects |-> {}, plain |-> {}] \in BranchText /\ NoLesson \in Lesson
<1>1. NoRoom \in ChatRoom /\ NoLesson \in Lesson
  BY DEF NoRoom, ChatRoom, NoLesson, Lesson
<1>2. Defaults \in Objects
  <2>1. Keys \in SUBSET Keys
    OBVIOUS
  <2> QED
    BY <2>1, TenancyAssumption DEF Objects
<1> QED
  BY <1>1, <1>2 DEF BranchText

LEMMA TablesTypedHolds == Spec => []TablesTyped
<1>1. Init => TablesTyped
  <2> SUFFICES ASSUME Init PROVE TablesTyped
    OBVIOUS
  <2>1. /\ rooms = [r \in Rooms |-> NoRoom] /\ messages = <<>>
        /\ json = [c \in Columns |-> Defaults] /\ branches = [objects |-> {}, plain |-> {}]
        /\ lessons = [l \in Lessons |-> NoLesson] /\ (focus = "views" => ViewsInit)
    BY DEF Init, ChatInit, TenancyInit, OfficeInit
  <2>2. Held(ChatHeld) /\ Held(TenantHeld) /\ Held(LessonsHeld)
    BY NobodyHolds DEF Init, ChatHeld, TenantHeld, TenantSteps, LessonsHeld
  <2>3. ChatTyped /\ TenantTyped /\ LessonsTyped
    BY <2>1, <2>2, RowsAtStart DEF ChatTyped, TenantTyped, LessonsTyped
  <2> QED
    BY <2>1, <2>3, ViewsStartTyped DEF TablesTyped
<1>2. KeepsToPart /\ TablesTyped /\ [Next]_vars => TablesTyped'
  <2> SUFFICES ASSUME KeepsToPart, TablesTyped, [Next]_vars PROVE TablesTyped'
    OBVIOUS
  <2>1. focus' = focus /\ Shape
    BY DEF Next, vars, KeepsToPart, Within
  <2>2. CASE Next
    <3>1. /\ focus # "chat" => UNCHANGED <<rooms, messages>>
          /\ focus # "tenant" => UNCHANGED <<json, branches>>
          /\ focus # "office" => lessons' = lessons
      BY <2>2 DEF Next, Rest, chatTables, tenantRow, officeTables
    <3>2. /\ focus = "chat" => ChatNext
          /\ focus = "tenant" => TenantNext
          /\ focus = "office" => OfficeNext
          /\ focus = "views" => ViewsNext
      BY <2>2 DEF Next
    <3>3. /\ focus = "chat" => ChatTyped'
          /\ focus = "tenant" => TenantTyped'
          /\ focus = "office" => LessonsTyped'
          /\ focus = "views" => ViewRows'
      BY <2>1, <3>2, ChatStaysTyped, TenantStaysTyped, LessonsStayTyped, ViewsStayTyped DEF TablesTyped
    <3> QED
      BY <2>1, <3>1, <3>3 DEF TablesTyped
  <2>3. CASE UNCHANGED vars
    <3>1. /\ UNCHANGED <<task, rooms, messages, json, branches, lessons>> /\ UNCHANGED viewTables
      BY <2>3 DEF vars, control, chatTables, tenancyTables, tenantRow, officeTables
    <3>2. \A held : Held(held) => Held(held)'
      BY <3>1 DEF Held, Data
    <3> QED
      BY <2>1, <3>1, <3>2, SameViewRows DEF TablesTyped, ChatTyped, TenantTyped, LessonsTyped
  <2> QED
    BY <2>2, <2>3
<1> QED
  BY <1>1, <1>2, KeepsToPartHolds, PTL DEF Spec

\* Every row keeps its columns, whichever requests overlap and fail: rooms and messages,
\* flags and branches, roles and their holders, files, certificates and lessons, and what
\* teachers and students are shown; and an idle handler has nothing in memory.
THEOREM TypeOKHolds == Spec => []TypeOK
<1>1. KeepsToPart /\ TablesTyped /\ RolesPart /\ OfficePart => TypeOK
  <2> SUFFICES ASSUME KeepsToPart, TablesTyped, RolesPart, OfficePart PROVE TypeOK
    OBVIOUS
  <2>1. \A h \in Handlers : task[h].at = "idle" => task[h] = Idle
    <3>1. "idle" \notin StepsOf(focus)
      BY DEF StepsOf, ChatSteps, MessagingSteps, TenantSteps, RolesSteps, OfficeSteps, ReportsSteps,
         ViewsSteps
    <3> QED
      BY <3>1 DEF KeepsToPart, Within
  <2>2. rooms \in [Rooms -> ChatRoom] /\ messages \in Seq(ChatMessage)
    BY RowsAtStart DEF TablesTyped, ChatTyped
  <2>3. /\ \A c \in Columns : json[c] \in Objects
        /\ branches.objects \subseteq Branches /\ branches.plain \subseteq Names
    <3>1. json \in [Columns -> Objects] /\ branches \in BranchText
      BY RowsAtStart DEF TablesTyped, TenantTyped
    <3> QED
      BY <3>1 DEF BranchText
  <2>4. /\ roles \in [RoleIds -> Role] /\ holds \in [Staff -> RoleIds \cup {None}]
        /\ away \cup bygone \subseteq Staff
    <3>1. NoRole \in Role
      BY DEF NoRole, Role
    <3>2. CASE focus = "roles"
      BY <3>2 DEF RolesPart, RolesInv, RolesTyped
    <3>3. CASE focus # "roles"
      BY <3>1, <3>3 DEF RolesPart, NoRoles
    <3> QED
      BY <3>2, <3>3
  <2>5. /\ certs \in [Certificates -> Certificate] /\ storage \subseteq FileKeys
        /\ pdfs \subseteq Certificates
    <3>1. NoCert \in Certificate
      BY DEF NoCert, Certificate
    <3>2. CASE focus = "office"
      BY <3>2 DEF OfficePart, FilesInv, FilesTyped, CertsInv, CertsTyped
    <3>3. CASE focus # "office"
      BY <3>1, <3>3 DEF OfficePart, OfficeInit
    <3> QED
      BY <3>2, <3>3
  <2>6. lessons \in [Lessons -> Lesson]
    BY RowsAtStart DEF TablesTyped, LessonsTyped
  <2> QED
    BY <2>1, <2>2, <2>3, <2>4, <2>5, <2>6 DEF TypeOK, TablesTyped, ViewRows
<1> QED
  BY <1>1, KeepsToPartHolds, TablesTypedHolds, RolesPartHolds, OfficePartHolds, PTL
=============================================================================
