------------------------------- MODULE School -------------------------------
(***************************************************************************)
(* The people of one tenant with their codes, groups with their members,   *)
(* the attendance that teachers mark, and courses with their enrolments.   *)
(*                                                                         *)
(* Handlers interleave at every statement.  A group is changed with        *)
(* Repository.save, which reads the row and the junction table again and   *)
(* writes what the entity in memory differs in.  Marks are the one         *)
(* transaction of several statements: nobody sees them before the commit,  *)
(* and a row that one of them updated is locked until then.                *)
(*                                                                         *)
(* Not here: POST /attendance (its insert names no date, which may not be  *)
(* NULL) and POST /students/:id/enroll and /admin/enroll (they name columns *)
(* that the synchronised schema lacks).  They fail without a trace.        *)
(***************************************************************************)
EXTENDS Integers, Sequences, FiniteSets

CONSTANTS
    People,         \* the uuids students and teachers may get
    Teachers0,      \* the teachers there are at the start
    Students0,      \* the students there are at the start
    Groups,         \* the uuids groups may get
    Code0,          \* the codes of those two
    Courses,        \* the courses
    Days,           \* dates that are marked
    Statuses,       \* AttendanceStatus
    Sheets,         \* lists of marks that teachers send, each student at most once
    Handlers,       \* HTTP requests that can be in flight at the same time
    Endpoints,      \* the endpoints that clients call
    MaxRequests,    \* bound: requests that arrive
    MaxFailures,    \* bound: statements that fail, or crashes of a handler
    None            \* SQL NULL, and "not loaded"

Kinds == {"student", "teacher"}

AllEndpoints == {"create-student", "create-teacher", "delete-student", "delete-teacher",
                 "create-group", "edit-group", "delete-group", "add-member",
                 "remove-member", "mark", "delete-course", "enrol"}

ASSUME SchoolAssumption ==
    /\ IsFiniteSet(People) /\ IsFiniteSet(Handlers) /\ Handlers # {}
    /\ Teachers0 \subseteq People /\ Students0 \subseteq People \ Teachers0
    /\ Code0 \in [Teachers0 \cup Students0 -> Nat]
    /\ \A some \in {Teachers0, Students0} : \A p \in some :
         /\ Code0[p] \in 1 .. Cardinality(some)
         /\ \A q \in some \ {p} : Code0[p] # Code0[q]
    /\ \A sheet \in Sheets :
         /\ sheet \in Seq([student : Students0, status : Statuses]) /\ sheet # <<>>
         /\ \A i, j \in DOMAIN sheet : sheet[i].student = sheet[j].student => i = j
    /\ Endpoints \subseteq AllEndpoints
    /\ MaxRequests \in Nat /\ MaxFailures \in Nat
    /\ None \notin People \cup Kinds /\ None \notin Statuses
    /\ \A some \in SUBSET People : some # None

VARIABLES
    people,      \* tables students and teachers
    groups,      \* table groups
    members,     \* table group_students: the junction of each group
    attendance,  \* table attendance: the rows of each group, student and day
    courses,     \* table courses: "live" or "deleted"
    enrolments,  \* table enrollments: the pairs of student and course
    task,        \* the request each handler is executing
    arrived,     \* how many requests have arrived
    failures,    \* how many statements have failed
    crossed,     \* history: what two requests that change it overlapped on
    wanted,      \* history: the members each group was asked to have
    marked,      \* history: the last status answered for a group, student and day
    granted      \* history: how often an enrolment was answered with success

tables  == <<people, groups, members, attendance, courses, enrolments>>
history == <<crossed, wanted, marked, granted>>
vars    == <<tables, task, arrived, failures, history>>

\* `kind` is None before the row is inserted; `code` is the number in STU-... or TCH-....
Person == [kind : Kinds \cup {None}, code : Nat, deleted : BOOLEAN]
Group  == [exists : BOOLEAN, deleted : BOOLEAN, teacher : People \cup {None}, count : Nat]

NoPerson == [kind |-> None, code |-> 0, deleted |-> FALSE]
NoGroup  == [exists |-> FALSE, deleted |-> FALSE, teacher |-> None, count |-> 0]

Slots == Groups \X People \X Days
Pairs == People \X Courses

RowsOf(kind)   == {p \in People : people[p].kind = kind}
Live(kind)     == {p \in RowsOf(kind) : ~people[p].deleted}
LiveGroups     == {g \in Groups : groups[g].exists /\ ~groups[g].deleted}
LiveCourses    == {c \in Courses : courses[c] = "live"}
LiveMembers(g) == members[g] \cap Live("student")

\* `on` names the row or rows the request changes, `alone` is FALSE once another request
\* that changes them was under way, and `data` is what the handler has in memory.
Idle == [at |-> "idle", on |-> <<>>, alone |-> TRUE, data |-> <<>>]

Busy(h)     == task[h].at # "idle"
At(h, step) == task[h].at = step
Data(h)     == task[h].data
Finish(h)   == task' = [task EXCEPT ![h] = Idle]

Step(h, step, data) == task' = [task EXCEPT ![h].at = step, ![h].data = data]

Arrives(h, e) ==
    /\ ~Busy(h)
    /\ e \in Endpoints
    /\ arrived < MaxRequests
    /\ arrived' = arrived + 1

\* The request has made its first read, and crosses those on the same rows.
Begin(h, step, on, data) ==
    LET met == {g \in Handlers \ {h} : Busy(g) /\ task[g].on = on} IN
    /\ task' = [g \in Handlers |->
         IF g = h THEN [at |-> step, on |-> on, alone |-> met = {}, data |-> data]
         ELSE IF g \in met THEN [task[g] EXCEPT !.alone = FALSE] ELSE task[g]]
    /\ crossed' = IF met = {} THEN crossed ELSE crossed \cup {on}

Init ==
    /\ people = [p \in People |->
         CASE p \in Teachers0 -> [kind |-> "teacher", code |-> Code0[p], deleted |-> FALSE]
           [] p \in Students0 -> [kind |-> "student", code |-> Code0[p], deleted |-> FALSE]
           [] OTHER           -> NoPerson]
    /\ groups = [g \in Groups |-> NoGroup]
    /\ members = [g \in Groups |-> {}]
    /\ attendance = [k \in Slots |-> <<>>]
    /\ courses = [c \in Courses |-> "live"]
    /\ enrolments = {}
    /\ task = [h \in Handlers |-> Idle]
    /\ arrived = 0
    /\ failures = 0
    /\ crossed = {}
    /\ wanted = [g \in Groups |-> {}]
    /\ marked = [k \in Slots |-> None]
    /\ granted = [k \in Pairs |-> 0]
-----------------------------------------------------------------------------
(* Mistakes a change of the code could make, each against one property.    *)

CountedLive(kind) == Cardinality(Live(kind))

DroppedNone(g, kids) == {}

StoredWithoutStatus(rows, row, status) ==
    IF row = 0 THEN Append(rows, None) ELSE [rows EXCEPT ![row] = status]

StoredFirst(rows, row, status) == IF row = 0 THEN <<status>> ELSE rows

NotTaken(pair) == FALSE

-----------------------------------------------------------------------------
(* POST /students, POST /teachers, DELETE /students/:id, DELETE /teachers/:id *)

\* COUNT(*) in raw SQL: the deleted rows count.
Counted(kind) == Cardinality(RowsOf(kind))

\* The email is free (see Accounts).  The guard on People is a bound: an id is left for
\* every creation under way.
PersonFind(h, kind) ==
    /\ Arrives(h, "create-" \o kind)
    /\ Cardinality({g \in Handlers : At(g, "count") \/ At(g, "insert")}) <
          Cardinality({p \in People : people[p].kind = None})
    /\ Begin(h, "count", <<"codes", kind>>, [kind |-> kind, code |-> 0])
    /\ UNCHANGED <<tables, failures, wanted, marked, granted>>

CreateStudent(h) == PersonFind(h, "student")
CreateTeacher(h) == PersonFind(h, "teacher")

NextCode(kind) == Counted(kind) + 1

\* After the count the password is hashed, and then the transaction begins.
CodeCount(h) ==
    /\ At(h, "count")
    /\ Step(h, "insert", [Data(h) EXCEPT !.code = NextCode(Data(h).kind)])
    /\ UNCHANGED <<tables, arrived, failures, history>>

\* The user and the student or teacher are inserted in one transaction.
PersonInsert(h) ==
    /\ At(h, "insert")
    /\ \E p \in People :
         /\ people[p].kind = None
         /\ people' = [people EXCEPT ![p] =
              [kind |-> Data(h).kind, code |-> Data(h).code, deleted |-> FALSE]]
         /\ crossed' = IF task[h].alone THEN crossed ELSE crossed \cup {<<"code of", p>>}
    /\ Finish(h)
    /\ UNCHANGED <<groups, members, attendance, courses, enrolments, arrived, failures,
                   wanted, marked, granted>>

DeletePerson(h) ==
    /\ \E kind \in Kinds : \E p \in Live(kind) :
         /\ Arrives(h, "delete-" \o kind)
         /\ Begin(h, "erase", <<"people", p>>, p)
    /\ UNCHANGED <<tables, failures, wanted, marked, granted>>

PersonErase(h) ==
    /\ At(h, "erase")
    /\ people' = [people EXCEPT ![Data(h)].deleted = TRUE]
    /\ Finish(h)
    /\ UNCHANGED <<groups, members, attendance, courses, enrolments, arrived, failures, history>>

-----------------------------------------------------------------------------
(* Groups: POST, PATCH, DELETE /groups, POST and DELETE .../students/:id   *)

CreateGroup(h) ==
    /\ Arrives(h, "create-group")
    /\ \E g \in Groups, t \in RowsOf("teacher") :
         /\ ~groups[g].exists
         /\ groups' = [groups EXCEPT ![g] = [NoGroup EXCEPT !.exists = TRUE, !.teacher = t]]
    /\ UNCHANGED <<people, members, attendance, courses, enrolments, task, failures, history>>

GroupFind(h, step, g, row, kids, member) ==
    Begin(h, step, <<"groups", g>>,
          [group |-> g, row |-> row, kids |-> kids, member |-> member, dirty |-> {}])

\* The members that are loaded are those whose row is not deleted.
AddMember(h) ==
    /\ Arrives(h, "add-member")
    /\ \E g \in LiveGroups, s \in RowsOf("student") :
         GroupFind(h, "member", g, groups[g], LiveMembers(g), s)
    /\ UNCHANGED <<tables, failures, wanted, marked, granted>>

\* push adds the student also when it is in the array: its length is the new count.
MemberFind(h) ==
    LET d == Data(h) IN
    /\ At(h, "member")
    /\ IF d.member \notin Live("student") THEN Finish(h)
       ELSE Step(h, "load", [d EXCEPT !.kids = @ \cup {d.member},
                                      !.row.count = Cardinality(d.kids) + 1])
    /\ UNCHANGED <<tables, arrived, failures, history>>

RemoveMember(h) ==
    /\ Arrives(h, "remove-member")
    /\ \E g \in LiveGroups, s \in RowsOf("student") :
         LET rest == LiveMembers(g) \ {s} IN
         GroupFind(h, "load", g, [groups[g] EXCEPT !.count = Cardinality(rest)], rest, s)
    /\ UNCHANGED <<tables, failures, wanted, marked, granted>>

EditGroup(h) ==
    /\ \E g \in LiveGroups :
         \/ /\ Arrives(h, "edit-group")
            /\ \E t \in RowsOf("teacher") :
                 GroupFind(h, "load", g, [groups[g] EXCEPT !.teacher = t], None, None)
         \/ /\ Arrives(h, "delete-group")
            /\ GroupFind(h, "softLoad", g, [groups[g] EXCEPT !.deleted = TRUE], None, None)
    /\ UNCHANGED <<tables, failures, wanted, marked, granted>>

\* save compares the array with the ids that it reads through the students: the rows of
\* deleted students are not among them and stay in the junction.
Added(g, kids)   == kids \ LiveMembers(g)
Dropped(g, kids) == LiveMembers(g) \ kids

\* save: without a difference there is no UPDATE.  softRemove names deleted_at alone.
GroupLoad(h) ==
    LET d     == Data(h)
        g     == d.group
        dirty == IF At(h, "softLoad") THEN {"deleted"}
                 ELSE {f \in DOMAIN d.row : d.row[f] # groups[g][f]}
        added == IF d.kids = None THEN {} ELSE Added(g, d.kids)
        gone  == IF d.kids = None THEN {} ELSE Dropped(g, d.kids)
    IN  /\ At(h, "load") \/ At(h, "softLoad")
        /\ Step(h, "write", [group |-> g, row |-> d.row, kids |-> d.kids,
                             member |-> d.member, dirty |-> dirty,
                             added |-> added, gone |-> gone])
        /\ UNCHANGED <<tables, arrived, failures, history>>

\* One transaction.  The primary key of the junction rejects a row that is there by now.
GroupWrite(h) ==
    LET d == Data(h)
        g == d.group
    IN  /\ At(h, "write")
        /\ IF d.added \cap members[g] # {} THEN UNCHANGED <<groups, members, wanted>>
           ELSE /\ groups' = [groups EXCEPT ![g] =
                     [f \in DOMAIN @ |-> IF f \in d.dirty THEN d.row[f] ELSE @[f]]]
                /\ members' = [members EXCEPT ![g] = (@ \cup d.added) \ d.gone]
                /\ wanted' = IF d.member = None THEN wanted
                             ELSE [wanted EXCEPT ![g] = IF d.member \in d.kids
                                                        THEN @ \cup {d.member}
                                                        ELSE @ \ {d.member}]
        /\ Finish(h)
        /\ UNCHANGED <<people, attendance, courses, enrolments, arrived, failures,
                       crossed, marked, granted>>

-----------------------------------------------------------------------------
(* Attendance: POST /teachers/:id/attendance                               *)

\* The teacher exists and leads the group; then the transaction begins.
MarkFind(h) ==
    /\ Arrives(h, "mark")
    /\ \E g \in LiveGroups, day \in Days, sheet \in Sheets :
         /\ groups[g].teacher \in Live("teacher")
         /\ Begin(h, "look", <<"marks", g, day>>,
                  [group |-> g, day |-> day, sheet |-> sheet, next |-> 1, staged |-> <<>>])
    /\ UNCHANGED <<tables, failures, wanted, marked, granted>>

Entry(h) == Data(h).sheet[Data(h).next]
Slot(d, i) == <<d.group, d.sheet[i].student, d.day>>

\* The rows of a student for the day, as committed: without an order any may come first.
\* Row 0 stands for the insert of one.
Found(slot) == IF attendance[slot] = <<>> THEN {0} ELSE DOMAIN attendance[slot]

MarkLook(h) ==
    LET d == Data(h) IN
    /\ At(h, "look")
    /\ \E row \in Found(Slot(d, d.next)) :
         Step(h, "put", [d EXCEPT !.staged = Append(@, row)])
    /\ UNCHANGED <<tables, arrived, failures, history>>

\* Those whose transaction holds the row that h is about to update.
Holders(h) ==
    LET d == Data(h) IN
    IF d.staged[d.next] = 0 THEN {}
    ELSE {g \in Handlers \ {h} : /\ At(g, "look") \/ At(g, "put")
                                 /\ \E i \in 1 .. Data(g).next - 1 :
                                      /\ Slot(Data(g), i) = Slot(d, d.next)
                                      /\ Data(g).staged[i] = d.staged[d.next]}

\* What is stored when a mark replaces a row, or is inserted.
Stored(rows, row, status) ==
    IF row = 0 THEN Append(rows, status) ELSE [rows EXCEPT ![row] = status]

\* The last entry commits the marks of the sheet together.
MarkPut(h) ==
    LET d == Data(h)
        IndexOf(slot) == {i \in DOMAIN d.sheet : Slot(d, i) = slot}
    IN  /\ At(h, "put")
        /\ Holders(h) = {}
        /\ IF d.next < Len(d.sheet)
           THEN /\ Step(h, "look", [d EXCEPT !.next = @ + 1])
                /\ UNCHANGED <<attendance, marked>>
           ELSE /\ attendance' = [slot \in Slots |->
                     IF IndexOf(slot) = {} THEN attendance[slot]
                     ELSE LET i == CHOOSE i \in IndexOf(slot) : TRUE
                          IN  Stored(attendance[slot], d.staged[i], d.sheet[i].status)]
                /\ marked' = [slot \in Slots |->
                     IF IndexOf(slot) = {} THEN marked[slot]
                     ELSE d.sheet[CHOOSE i \in IndexOf(slot) : TRUE].status]
                /\ Finish(h)
        /\ UNCHANGED <<people, groups, members, courses, enrolments, arrived, failures,
                       crossed, wanted, granted>>

\* Each of them waits for a row that another one holds: PostgreSQL aborts one.
MarkDeadlock(h) ==
    /\ \E stuck \in SUBSET {g \in Handlers : At(g, "put")} :
         /\ h \in stuck
         /\ \A g \in stuck : /\ Holders(g) \cap stuck # {}
                             /\ \E f \in stuck : g \in Holders(f)
    /\ Finish(h)
    /\ UNCHANGED <<tables, arrived, failures, history>>

-----------------------------------------------------------------------------
(* Courses and enrolments: DELETE /courses/:id, POST /courses/:id/enroll/:studentId *)

DeleteCourse(h) ==
    /\ Arrives(h, "delete-course")
    /\ \E c \in LiveCourses : Begin(h, "eraseCourse", <<"courses", c>>, c)
    /\ UNCHANGED <<tables, failures, wanted, marked, granted>>

CourseErase(h) ==
    /\ At(h, "eraseCourse")
    /\ courses' = [courses EXCEPT ![Data(h)] = "deleted"]
    /\ Finish(h)
    /\ UNCHANGED <<people, groups, members, attendance, enrolments, arrived, failures, history>>

\* The raw SELECT finds deleted students too.
EnrolFind(h) ==
    /\ Arrives(h, "enrol")
    /\ \E c \in LiveCourses, s \in RowsOf("student") :
         Begin(h, "lookUp", <<"enrolments", s, c>>, <<s, c>>)
    /\ UNCHANGED <<tables, failures, wanted, marked, granted>>

EnrolLook(h) ==
    /\ At(h, "lookUp")
    /\ IF Data(h) \in enrolments THEN Finish(h) ELSE Step(h, "enrol", Data(h))
    /\ UNCHANGED <<tables, arrived, failures, history>>

\* The unique index on student and course.
Taken(pair) == pair \in enrolments

EnrolInsert(h) ==
    /\ At(h, "enrol")
    /\ IF Taken(Data(h)) THEN UNCHANGED <<enrolments, granted>>
       ELSE /\ enrolments' = enrolments \cup {Data(h)}
            /\ granted' = [granted EXCEPT ![Data(h)] = @ + 1]
    /\ Finish(h)
    /\ UNCHANGED <<people, groups, members, attendance, courses, arrived, failures,
                   crossed, wanted, marked>>

-----------------------------------------------------------------------------

\* The awaited statement fails, or the process dies: what is committed stays.
HandlerFails(h) ==
    /\ Busy(h)
    /\ failures < MaxFailures
    /\ failures' = failures + 1
    /\ Finish(h)
    /\ UNCHANGED <<tables, arrived, history>>

Request(h) ==
    \/ CreateStudent(h) \/ CreateTeacher(h) \/ DeletePerson(h)
    \/ CreateGroup(h) \/ EditGroup(h) \/ AddMember(h) \/ RemoveMember(h)
    \/ MarkFind(h) \/ DeleteCourse(h) \/ EnrolFind(h)

Proceed(h) ==
    \/ CodeCount(h) \/ PersonInsert(h) \/ PersonErase(h)
    \/ MemberFind(h) \/ GroupLoad(h) \/ GroupWrite(h)
    \/ MarkLook(h) \/ MarkPut(h) \/ MarkDeadlock(h)
    \/ CourseErase(h) \/ EnrolLook(h) \/ EnrolInsert(h)

Next == \E h \in Handlers : Request(h) \/ Proceed(h) \/ HandlerFails(h)

Spec == Init /\ [][Next]_vars

-----------------------------------------------------------------------------
(* Properties                                                              *)

TypeOK ==
    /\ people \in [People -> Person]
    /\ groups \in [Groups -> Group]
    /\ members \in [Groups -> SUBSET People]
    /\ attendance \in [Slots -> Seq(Statuses)]
    /\ courses \in [Courses -> {"live", "deleted"}]
    /\ enrolments \subseteq Pairs
    /\ arrived \in Nat /\ failures \in Nat

\* A code is shared only by students, or by teachers, whose creations overlapped another
\* one: deleting people does not bring a code back, and no code is skipped ahead of.
CodesAreShared ==
    \A kind \in Kinds : \A p \in RowsOf(kind) :
        /\ people[p].code \in 1 .. Cardinality(RowsOf(kind))
        /\ \A q \in RowsOf(kind) \ {p} :
             people[p].code = people[q].code => <<"code of", p>> \in crossed

\* Of a group on which no two requests overlapped: the students who are members are those
\* asked for, also when deleted students are among the rows of the junction; and the
\* stored number is not below theirs, nor above that of all rows by more than the one
\* that a member counts who was added again.
RosterStands ==
    \A g \in Groups : <<"groups", g>> \notin crossed =>
        /\ LiveMembers(g) = wanted[g] \cap Live("student")
        /\ groups[g].count \in Cardinality(LiveMembers(g)) .. Cardinality(members[g]) + 1

\* Of a group and a day whose sheets never overlapped: each student has one row with the
\* status last answered, or none; a sheet that failed half-way has left nothing.
LatestMarkStands ==
    \A g \in Groups, s \in People, day \in Days : <<"marks", g, day>> \notin crossed =>
        attendance[<<g, s, day>>] =
            IF marked[<<g, s, day>>] = None THEN <<>> ELSE <<marked[<<g, s, day>>]>>

\* Overlapping sheets leave a student at most as many rows for a day as there are
\* requests at a time: whoever looks after a commit updates a row.
MarkCopiesBounded ==
    \A slot \in Slots : Len(attendance[slot]) <= Cardinality(Handlers)

MarksStand == LatestMarkStands /\ MarkCopiesBounded

\* However requests overlap, one enrolment of a student in a course is answered with
\* success.
EnrolledOnce == \A pair \in Pairs : granted[pair] <= 1

=============================================================================
