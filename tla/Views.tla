------------------------------- MODULE Views --------------------------------
(***************************************************************************)
(* What teachers and students are shown: the lists, the sheet and the      *)
(* analytics of a teacher, the homework of a group, and the profile of a   *)
(* student.  The same rows are asked for by queries written one by one, in *)
(* TeachersService, StudentsService, GroupsService, HomeworkService,       *)
(* CoursesService and AnalyticsService.                                    *)
(* A view of several statements is not held still by a transaction, and    *)
(* what others write meanwhile is one statement at a time: how such writes *)
(* come about is the subject of School and Coursework.                     *)
(*                                                                         *)
(* Names and texts are left out, and so are searches.  A score is a small  *)
(* number, and an average is kept as its sum and its count.  The queries   *)
(* do not look whether a student is deleted, so that students only come.   *)
(***************************************************************************)
EXTENDS Requests, Summation

CONSTANTS
    Tutors,     \* teachers
    Learners,   \* students, numbered as their rows are ordered
    Classes,    \* groups
    Subjects,   \* courses
    Works,      \* homework, numbered by age
    Tests,      \* exams, numbered by age
    Texts,      \* lessons, numbered by age
    Days,       \* days that attendance is marked for, one a month: 0 is this month
    MonthsShown,    \* months that a trend goes back, six in the code
    TopStudents,    \* students whose performance a teacher is shown, 20 in the code
    Scores,     \* scores that are given
    Schools     \* what the tables hold at the start

RollStatuses == {"present", "absent", "late", "excused"}

Class  == [tutor : Tutors \cup {None}, course : Subjects \cup {None}, live : BOOLEAN]
Work   == [tutor : Tutors \cup {None}, class : Classes \cup {None}, live : BOOLEAN]
HandedIn == [status : {"none", "submitted", "graded"}, score : Nat \cup {None},
             month : Days \cup {None}]
Roll   == [learner : Learners, class : Classes, day : Days, by : Tutors,
           status : RollStatuses]
Test   == [tutor : Tutors \cup {None}, live : BOOLEAN]

NoWork   == [tutor |-> None, class |-> None, live |-> FALSE]
NoHandIn == [status |-> "none", score |-> None, month |-> None]
NoTest   == [tutor |-> None, live |-> FALSE]

\* Homework that is live or was handed in has its teacher, and a grade its score and its date.
Taken(rows, hands) ==
    \A w \in Works : rows[w].live \/ (\E s \in Learners : hands[<<w, s>>].status # "none")
                     => rows[w].tutor \in Tutors
Graded(hands) ==
    \A p \in Works \X Learners : /\ hands[p].status = "graded" => hands[p].score # None
                                 /\ hands[p].score # None => hands[p].month \in Days

ASSUME ViewsAssumption ==
    /\ Learners \cup Works \cup Tests \cup Texts \cup Days \cup Scores \subseteq Nat
    /\ \A S \in {Learners, Works, Tests, Texts, Days, Tutors, Classes} : IsFiniteSet(S)
    /\ MonthsShown \in Nat \ {0} /\ TopStudents \in Nat \ {0}
    /\ 0 \in Days /\ None \notin Scores \cup Tutors
    /\ \A s \in Schools :
         /\ s.classes \in [Classes -> Class] /\ s.leads \in [Subjects -> Tutors \cup {None}]
         /\ s.roster \subseteq Classes \X Learners /\ s.joined \subseteq Learners \X Subjects
         /\ s.works \in [Works -> Work] /\ s.handed \in [Works \X Learners -> HandedIn]
         /\ s.rolls \in Seq(Roll) /\ s.texts \in [Texts -> Subjects \cup {None}]
         /\ s.tests \in [Tests -> Test]
         /\ Taken(s.works, s.handed) /\ Graded(s.handed)

VARIABLES
    classes,    \* table groups
    roster,     \* table group_students
    leads,      \* table courses: its teacher
    joined,     \* table enrollments
    works,      \* table homeworks
    handed,     \* table homework_submissions
    rolls,      \* table attendance
    texts,      \* table lessons: its course, or None
    tests       \* table exams: its teacher and whether it is deleted

viewTables == <<classes, roster, leads, joined, works, handed, rolls, texts, tests>>

ViewsInit == \E s \in Schools :
    /\ classes = s.classes /\ roster = s.roster /\ leads = s.leads /\ joined = s.joined
    /\ works = s.works /\ handed = s.handed /\ rolls = s.rolls
    /\ texts = s.texts /\ tests = s.tests
-----------------------------------------------------------------------------
(* The queries of a teacher.                                               *)

Members(G) == {s \in Learners : \E g \in G : <<g, s>> \in roster}

OwnClasses(t) == {g \in Classes : classes[g].live /\ classes[g].tutor = t}

Leads(t, c) == c # None /\ leads[c] = t

\* getGroups: with the groups of others for a course of this teacher.
ClassCards(t) ==
    [g \in {g \in Classes : classes[g].live
                            /\ (classes[g].tutor = t \/ Leads(t, classes[g].course))}
        |-> Cardinality(Members({g}))]

Taught(t) ==
    Members(OwnClasses(t)) \cup {s \in Learners : \E c \in Subjects : <<s, c>> \in joined
                                                                      /\ Leads(t, c)}

LearnersTotal(t)      == Cardinality(Taught(t))
LearnersPage(t, page) == LowestOn(Taught(t), page)

WorksOf(t) == {w \in Works : works[w].tutor = t}

HandIns(W) == {p \in W \X Learners : handed[p].status # "none"}
Scored(P)  == {p \in P : handed[p].score # None}

ScoreSum(P) == Total([p \in P |-> handed[p].score])

RollsBy(t)  == {i \in DOMAIN rolls : rolls[i].by = t}
Present(I)  == {i \in I : rolls[i].status = "present"}

\* One query joins the hand-ins of a student to the attendance of the student without any
\* condition between them: each hand-in comes once for each row of attendance, or once.
Performance(t, s) ==
    LET hand   == {p \in HandIns(WorksOf(t)) : p[2] = s}
        rows   == {i \in RollsBy(t) : rolls[i].learner = s}
        joint  == hand \X (IF rows = {} THEN {0} ELSE rows)
        scored == {r \in joint : handed[r[1]].score # None}
    IN  [sum     |-> Total([r \in scored |-> handed[r[1]].score]),
         count   |-> Cardinality(scored),
         total   |-> Cardinality({r \in joint : r[2] # 0}),
         present |-> Cardinality({r \in joint : r[2] \in Present(rows)})]

\* getAnalytics.  Which students come first is up to the database; here it is their order.
UniqueLearners(G) == Members(G)
FirstOf(S)        == {s \in S : Cardinality({y \in S : Lower(y, s)}) < TopStudents}

Rate(I) == [total |-> Cardinality(I), present |-> Cardinality(Present(I))]

RecentRate(t)   == Rate({i \in RollsBy(t) : rolls[i].day = 0})
MonthRate(t, m) == Rate({i \in RollsBy(t) : rolls[i].day = m})

\* LEFT JOIN: homework that nobody handed in is a row too.  Deleted homework counts.
HomeworkStats(t) ==
    LET all == HandIns(WorksOf(t)) IN
    [assigned |-> Cardinality(all)
                  + Cardinality({w \in WorksOf(t) : HandIns({w}) = {}}),
     graded   |-> Cardinality(Scored(all)),
     pending  |-> Cardinality({p \in all : handed[p].score = None})]

Average(P) == [sum |-> ScoreSum(P), count |-> Cardinality(P)]

AverageScore(t)  == Average(Scored(HandIns(WorksOf(t))))
MonthGrade(t, m) == Average({p \in Scored(HandIns(WorksOf(t))) : handed[p].month = m})

\* A mistake a change of the code could make: the total counts deleted homework.
TotalWithDeleted(t) == Cardinality(WorksOf(t))

\* getHomework
WorksTotal(t)      == Cardinality({w \in WorksOf(t) : works[w].live})
WorksPage(t, page) == NewestOn({w \in WorksOf(t) : works[w].live}, page)

CountsOf(W) == [w \in W |-> [total  |-> Cardinality(HandIns({w})),
                             graded |-> Cardinality({p \in HandIns({w}) :
                                                       handed[p].status = "graded"})]]

\* getLessons: the courses of the teacher's own groups, also those others lead.
CoursesOf(t)       == {classes[g].course : g \in OwnClasses(t)} \ {None}
TextsTotal(C)      == Cardinality({l \in Texts : texts[l] \in C})
TextsPage(C, page) == NewestOn({l \in Texts : texts[l] \in C}, page)

\* getExams
TestsTotal(t)      == Cardinality({e \in Tests : tests[e].live /\ tests[e].tutor = t})
TestsPage(t, page) == NewestOn({e \in Tests : tests[e].live /\ tests[e].tutor = t}, page)

\* getAttendanceSheet: a member who is not marked is shown as present, and one with two
\* rows for the day is listed twice.
Sheet(g, day) ==
    LET rows(s) == {j \in DOMAIN rolls : rolls[j].learner = s /\ rolls[j].class = g
                                         /\ rolls[j].day = day}
    IN  UNION {{s} \X (IF rows(s) = {} THEN {0} ELSE rows(s)) : s \in Members({g})}

SheetStatus(entry) == IF entry[2] = 0 THEN "present" ELSE rolls[entry[2]].status
-----------------------------------------------------------------------------
(* The queries of a group, of a homework and of a student.                 *)

ClassWorks(g) == {w \in Works : works[w].live /\ works[w].class = g}

\* groups getAttendance: GROUP BY date, status, and a note with the sum of a day.
DayCounts(g, day) ==
    [st \in RollStatuses |->
        Cardinality({i \in DOMAIN rolls : rolls[i].class = g /\ rolls[i].day = day
                                          /\ rolls[i].status = st})]

\* getSubmissions
Submissions(w) == [s \in {s \in Learners : handed[<<w, s>>].status # "none"}
                      |-> handed[<<w, s>>].status]

\* getTeachers: whom the student can write to.
TutorsOf(s) ==
    {t \in Tutors : \E g \in Classes : <<g, s>> \in roster /\ classes[g].live
                                       /\ classes[g].tutor = t}

\* getAttendance of a student, with the filters groupId, from and to.
RecordsOf(s, g, day) ==
    {i \in DOMAIN rolls : rolls[i].learner = s /\ rolls[i].class = g /\ rolls[i].day = day}

\* getGrades: by the course of the homework's group, if it has both.
CourseOf(w) == IF works[w].class = None THEN None ELSE classes[works[w].class].course

GradesOf(s) ==
    LET graded == {w \in Works : <<w, s>> \in Scored(HandIns({w}))} IN
    [c \in {CourseOf(w) : w \in graded} |-> {w \in graded : CourseOf(w) = c}]

CoursesJoined(s) == {c \in Subjects : <<s, c>> \in joined}

\* getDetail: LIMIT 1 without an order gives any one of the rows, or none of none.
ClassesOf(s) == {g \in Classes : <<g, s>> \in roster /\ classes[g].live}
AnyOne(S)    == IF S = {} THEN {{}} ELSE {{x} : x \in S}

\* Counted by status.
SummaryOf(s) ==
    LET own    == {i \in DOMAIN rolls : rolls[i].learner = s}
        of(st) == Cardinality({i \in own : rolls[i].status = st})
    IN  [total |-> Cardinality(own), present |-> Cardinality(Present(own)), absent |-> of("absent"),
         late |-> of("late"), excused |-> of("excused")]

\* analytics getPerformance, of a student or else of a group.
OfStudent(s) == [works |-> {p \in HandIns(Works) : p[2] = s},
                 rolls |-> {i \in DOMAIN rolls : rolls[i].learner = s}]
OfClass(g)   == [works |-> HandIns({w \in Works : works[w].class = g}),
                 rolls |-> {i \in DOMAIN rolls : rolls[i].class = g}]

TrendGrade(rows, m) == Average({p \in Scored(rows.works) : handed[p].month = m})
TrendRate(rows, m)  == Rate({i \in rows.rolls : rolls[i].day = m})

\* getLessonDetail: a group of the course, whosever it is.
ClassesAt(c) == {g \in Classes : classes[g].live /\ classes[g].course = c}
-----------------------------------------------------------------------------
(* The views of several statements.                                        *)

Ask(name)    == <<{<<name, 0>>}>>

\* The n-th of the rows, the lowest or the newest first.
NthLowest(S, n) == CHOOSE x \in S : Cardinality({y \in S : Lower(y, x)}) = n - 1
NthNewest(S, n) == CHOOSE x \in S : Cardinality({y \in S : Newer(y, x)}) = n - 1

Each(name, S) == [n \in 1 .. Cardinality(S) |-> {<<name, NthLowest(S, n)>>}]

Known(a, name, otherwise) == IF <<name, 0>> \in DOMAIN a THEN a[<<name, 0>>] ELSE otherwise

TrendMonths == {m \in Days : m < MonthsShown}

\* The oldest month first.
MonthsAsked ==
    [n \in 1 .. 2 * Cardinality(TrendMonths) |->
        {<<IF n % 2 = 1 THEN "marks" ELSE "grades", NthNewest(TrendMonths, (n + 1) \div 2)>>}]

TeacherLists == {"students", "homework", "lessons", "exams"}
TrendViews   == {"trend", "classTrend"}

\* The sets of statements that a view awaits one after the other, as far as its answers so
\* far tell.
Statements(v, a) ==
    CASE v.kind = "students"   -> Ask("total") \o Ask("page")
                                  \o Each("performance", Known(a, "page", {}))
      [] v.kind = "analytics"  -> Ask("groups") \o Ask("unique") \o Ask("recent") \o Ask("stats")
                                  \o Ask("average") \o MonthsAsked
                                  \o Each("performance", FirstOf(Known(a, "unique", {})))
      [] v.kind = "homework"   -> Ask("total") \o Ask("page")
                                  \o IF Known(a, "page", {}) = {} THEN <<>> ELSE Ask("counts")
      [] v.kind = "lessons"    -> Ask("courses")
                                  \o IF Known(a, "courses", {}) = {} THEN <<>>
                                     ELSE Ask("total") \o Ask("page")
      [] v.kind = "exams"      -> Ask("total") \o Ask("page")
      [] v.kind = "classWorks" -> Ask("page")
                                  \o IF Known(a, "page", {}) = {} THEN <<>> ELSE Ask("counts")
      [] v.kind = "work"       -> Ask("homework") \o Ask("submissions")
      [] v.kind = "detail"     -> <<{<<"group", 0>>, <<"summary", 0>>, <<"grades", 0>>,
                                     <<"courses", 0>>}>>
      [] v.kind \in TrendViews  -> MonthsAsked
      [] v.kind = "lesson"     -> Ask("lesson") \o Ask("classes")

Awaited(v, a) ==
    LET all  == Statements(v, a)
        open == {i \in DOMAIN all : all[i] \ DOMAIN a # {}}
    IN  IF open = {} THEN {} ELSE all[Min(open)] \ DOMAIN a

Told(v, a, q) ==
    LET t == v.of IN
    CASE v.kind = "students" /\ q[1] = "total"    -> LearnersTotal(t)
      [] v.kind = "students" /\ q[1] = "page"     -> LearnersPage(t, v.page)
      [] q[1] = "performance"                     -> Performance(t, q[2])
      [] q[1] = "groups"                          -> OwnClasses(t)
      [] q[1] = "unique"                          -> UniqueLearners(a[<<"groups", 0>>])
      [] q[1] = "recent"                          -> RecentRate(t)
      [] q[1] = "stats"                           -> HomeworkStats(t)
      [] q[1] = "average"                         -> AverageScore(t)
      [] v.kind = "analytics" /\ q[1] = "marks"   -> MonthRate(t, q[2])
      [] v.kind = "analytics" /\ q[1] = "grades"  -> MonthGrade(t, q[2])
      [] v.kind = "homework" /\ q[1] = "total"    -> WorksTotal(t)
      [] v.kind = "homework" /\ q[1] = "page"     -> WorksPage(t, v.page)
      [] q[1] = "counts"                          -> CountsOf(a[<<"page", 0>>])
      [] v.kind = "lessons" /\ q[1] = "courses"   -> CoursesOf(t)
      [] v.kind = "lessons" /\ q[1] = "total"     -> TextsTotal(a[<<"courses", 0>>])
      [] v.kind = "lessons" /\ q[1] = "page"      -> TextsPage(a[<<"courses", 0>>], v.page)
      [] v.kind = "exams" /\ q[1] = "total"       -> TestsTotal(t)
      [] v.kind = "exams" /\ q[1] = "page"        -> TestsPage(t, v.page)
      [] v.kind = "classWorks" /\ q[1] = "page"   -> ClassWorks(v.of)
      [] q[1] = "homework"                        -> works[v.of]
      [] q[1] = "submissions"                     -> Submissions(v.of)
      [] q[1] = "summary"                         -> SummaryOf(v.of)
      [] v.kind = "detail" /\ q[1] = "grades"     -> GradesOf(v.of)
      [] v.kind = "detail" /\ q[1] = "courses"    -> CoursesJoined(v.of)
      [] v.kind = "trend" /\ q[1] = "grades"      -> TrendGrade(OfStudent(v.of), q[2])
      [] v.kind = "trend" /\ q[1] = "marks"       -> TrendRate(OfStudent(v.of), q[2])
      [] v.kind = "classTrend" /\ q[1] = "grades" -> TrendGrade(OfClass(v.of), q[2])
      [] v.kind = "classTrend" /\ q[1] = "marks"  -> TrendRate(OfClass(v.of), q[2])
      [] q[1] = "lesson"                          -> texts[v.of]
      [] q[1] = "classes"                         -> ClassesAt(a[<<"lesson", 0>>])

\* What a statement may answer.
Tells(v, a, q) == IF q[1] = "group" THEN AnyOne(ClassesOf(v.of)) ELSE {Told(v, a, q)}

\* The service finds the teacher, the group or the student first, which are all there.
OpenView(h, kind, of, page) ==
    /\ \A g \in Handlers : ~Busy(g)
    /\ kind = "work" => works[of].live
    /\ kind = "classWorks" => classes[of].live
    /\ kind = "lesson" => texts[of] # None
    /\ Begin(h, "view", <<"view">>,
             [kind |-> kind, of |-> of, page |-> page, answers |-> <<>>, torn |-> FALSE])
    /\ UNCHANGED viewTables

RunStatement(h) ==
    LET d == Data(h)
        With(q, told) == [r \in DOMAIN d.answers \cup {q} |-> IF r = q THEN told ELSE d.answers[r]]
    IN  /\ At(h, "view")
        /\ \E q \in Awaited(d, d.answers) : \E told \in Tells(d, d.answers, q) :
             Goto(h, IF Awaited(d, With(q, told)) = {} THEN "composed" ELSE "view",
                  [d EXCEPT !.answers = With(q, told)])
        /\ UNCHANGED viewTables

SendView(h) == At(h, "composed") /\ Answer(h) /\ UNCHANGED viewTables

ViewsBreak(h) == Breaks(h) /\ UNCHANGED viewTables
-----------------------------------------------------------------------------
(* What others write meanwhile.                                            *)

\* `torn` is history: whether anything was written since the view was asked for.
Tears ==
    /\ arrived < MaxRequests
    /\ arrived' = arrived + 1
    /\ task' = [h \in Handlers |->
                  IF Busy(h) THEN [task[h] EXCEPT !.data.torn = TRUE] ELSE task[h]]
    /\ UNCHANGED <<failures, overlapped, failed>>

HandOver(g, t) ==
    /\ classes[g].live /\ classes[g].tutor # t
    /\ classes' = [classes EXCEPT ![g].tutor = t]
    /\ Tears
    /\ UNCHANGED <<roster, leads, joined, works, handed, rolls, texts, tests>>

DropClass(g) ==
    /\ classes[g].live
    /\ classes' = [classes EXCEPT ![g].live = FALSE]
    /\ Tears
    /\ UNCHANGED <<roster, leads, joined, works, handed, rolls, texts, tests>>

JoinClass(g, s) ==
    /\ classes[g].live /\ <<g, s>> \notin roster
    /\ roster' = roster \cup {<<g, s>>}
    /\ Tears
    /\ UNCHANGED <<classes, leads, joined, works, handed, rolls, texts, tests>>

LeaveClass(g, s) ==
    /\ classes[g].live /\ <<g, s>> \in roster
    /\ roster' = roster \ {<<g, s>>}
    /\ Tears
    /\ UNCHANGED <<classes, leads, joined, works, handed, rolls, texts, tests>>

LeadCourse(c, t) ==
    /\ leads[c] # t
    /\ leads' = [leads EXCEPT ![c] = t]
    /\ Tears
    /\ UNCHANGED <<classes, roster, joined, works, handed, rolls, texts, tests>>

JoinCourse(s, c) ==
    /\ <<s, c>> \notin joined
    /\ joined' = joined \cup {<<s, c>>}
    /\ Tears
    /\ UNCHANGED <<classes, roster, leads, works, handed, rolls, texts, tests>>

SetWork(w, t, g) ==
    /\ works[w] = NoWork
    /\ works' = [works EXCEPT ![w] = [tutor |-> t, class |-> g, live |-> TRUE]]
    /\ Tears
    /\ UNCHANGED <<classes, roster, leads, joined, handed, rolls, texts, tests>>

DropWork(w) ==
    /\ works[w].live
    /\ works' = [works EXCEPT ![w].live = FALSE]
    /\ Tears
    /\ UNCHANGED <<classes, roster, leads, joined, handed, rolls, texts, tests>>

\* Whether for the first time or again: score and date of an earlier grade stay.
HandIn(w, s) ==
    /\ works[w].live
    /\ handed[<<w, s>>].status # "submitted"
    /\ handed' = [handed EXCEPT ![<<w, s>>].status = "submitted"]
    /\ Tears
    /\ UNCHANGED <<classes, roster, leads, joined, works, rolls, texts, tests>>

\* Also of homework that is deleted by now.
GradeWork(w, s, score) ==
    /\ handed[<<w, s>>].status # "none"
    /\ handed' = [handed EXCEPT ![<<w, s>>] = [status |-> "graded", score |-> score, month |-> 0]]
    /\ Tears
    /\ UNCHANGED <<classes, roster, leads, joined, works, rolls, texts, tests>>

\* markAttendance replaces a row of the day, whoever marked it, or adds one; nothing asks
\* whether the student is a member.
MarkDay(t, g, s, day, status) ==
    /\ g \in OwnClasses(t)
    /\ LET row == [learner |-> s, class |-> g, day |-> day, by |-> t, status |-> status] IN
       IF RecordsOf(s, g, day) = {} THEN rolls' = Append(rolls, row)
       ELSE \E i \in RecordsOf(s, g, day) : rolls[i] # row /\ rolls' = [rolls EXCEPT ![i] = row]
    /\ Tears
    /\ UNCHANGED <<classes, roster, leads, joined, works, handed, texts, tests>>

\* addLessonFromGroup: the course of the group.
AddText(l, g) ==
    /\ texts[l] = None
    /\ classes[g].live /\ classes[g].course # None
    /\ texts' = [texts EXCEPT ![l] = classes[g].course]
    /\ Tears
    /\ UNCHANGED <<classes, roster, leads, joined, works, handed, rolls, tests>>

SetTest(e, t) ==
    /\ tests[e] = NoTest
    /\ tests' = [tests EXCEPT ![e] = [tutor |-> t, live |-> TRUE]]
    /\ Tears
    /\ UNCHANGED <<classes, roster, leads, joined, works, handed, rolls, texts>>

DropTest(e) ==
    /\ tests[e].live
    /\ tests' = [tests EXCEPT ![e].live = FALSE]
    /\ Tears
    /\ UNCHANGED <<classes, roster, leads, joined, works, handed, rolls, texts>>

ViewsNext ==
    \/ \E h \in Handlers :
         \/ \E t \in Tutors, page \in Pages :
              \/ \E kind \in TeacherLists : OpenView(h, kind, t, page)
              \/ OpenView(h, "analytics", t, 1)
         \/ \E g \in Classes, kind \in {"classWorks", "classTrend"} : OpenView(h, kind, g, 1)
         \/ \E w \in Works : OpenView(h, "work", w, 1)
         \/ \E l \in Texts : OpenView(h, "lesson", l, 1)
         \/ \E s \in Learners, kind \in {"detail", "trend"} : OpenView(h, kind, s, 1)
         \/ RunStatement(h) \/ SendView(h) \/ ViewsBreak(h)
    \/ \E g \in Classes : \/ DropClass(g) \/ \E t \in Tutors : HandOver(g, t)
                          \/ \E s \in Learners : JoinClass(g, s) \/ LeaveClass(g, s)
                          \/ \E l \in Texts : AddText(l, g)
                          \/ \E t \in Tutors, s \in Learners, day \in Days,
                                status \in RollStatuses : MarkDay(t, g, s, day, status)
    \/ \E c \in Subjects : \/ \E t \in Tutors : LeadCourse(c, t)
                           \/ \E s \in Learners : JoinCourse(s, c)
    \/ \E w \in Works : \/ DropWork(w) \/ \E t \in Tutors, g \in Classes : SetWork(w, t, g)
                        \/ \E s \in Learners : \/ HandIn(w, s)
                                               \/ \E n \in Scores : GradeWork(w, s, n)
    \/ \E e \in Tests : DropTest(e) \/ \E t \in Tutors : SetTest(e, t)
-----------------------------------------------------------------------------
(* Properties.                                                             *)

\* The views about to be sent, and those of them during which nothing was written.
Sent(kind)   == {Data(h) : h \in {g \in Handlers : At(g, "composed") /\ Data(g).kind = kind}}
Steady(kind) == {d \in Sent(kind) : ~d.torn}

Answered(d, name) == d.answers[<<name, 0>>]

GradesShown(s) == Total([c \in DOMAIN GradesOf(s) |-> Cardinality(GradesOf(s)[c])])

\* The total and the page are two statements with conditions written twice.
PagesShareTotal ==
    \A kind \in TeacherLists : \A d \in Steady(kind) :
        Cardinality(Known(d.answers, "page", {})) = OnPage(Known(d.answers, "total", 0), d.page)

\* What the months of a trend say of P, a set of graded hand-ins, is all of it unless some
\* are older than the months shown, and never more.
TrendHas(d, P) ==
    LET counts == Total([m \in TrendMonths |-> d.answers[<<"grades", m>>].count]) IN
    /\ counts <= Cardinality(P)
    /\ (\A p \in P : handed[p].month \in TrendMonths)
         => /\ counts = Cardinality(P)
            /\ Total([m \in TrendMonths |-> d.answers[<<"grades", m>>].sum]) = ScoreSum(P)

\* Figures of one statement add up even when others write in between.  Those of several do
\* when nobody does: what is graded is what the average is about, and the months as far as
\* they go back; the students of a teacher are those who have the teacher among theirs; and
\* the joint rows of hand-ins and attendance leave average and rate of those shown as they
\* are.
AnalyticsAddUp ==
    /\ \A d \in Sent("analytics") :
         Answered(d, "stats").graded + Answered(d, "stats").pending <= Answered(d, "stats").assigned
    /\ \A d \in Steady("analytics") :
         /\ Answered(d, "average").count = Answered(d, "stats").graded
         /\ TrendHas(d, Scored(HandIns(WorksOf(d.of))))
         /\ Total([m \in TrendMonths |-> d.answers[<<"marks", m>>].total]) >= Answered(d, "recent").total
         /\ Answered(d, "unique") = {s \in Learners : d.of \in TutorsOf(s)}
         /\ \A s \in FirstOf(Answered(d, "unique")) :
              LET own   == {p \in HandIns(WorksOf(d.of)) : p[2] = s}
                  rows  == {i \in RollsBy(d.of) : rolls[i].learner = s}
                  shown == d.answers[<<"performance", s>>]
              IN  /\ shown.sum * Cardinality(Scored(own)) = shown.count * ScoreSum(Scored(own))
                  /\ shown.present * Cardinality(rows) = shown.total * Cardinality(Present(rows))
                  /\ own # {} => (shown.total = 0 <=> rows = {})

\* What a teacher, the group and the student are shown of homework and attendance are the
\* same rows: every grade a student sees counts for one teacher, every mark of a day is on
\* the sheet of a member, in the day's count and on the student's list, a homework has as
\* many hand-ins on the list of the teacher as in its own view, and the one group a student's
\* profile shows is one whose teacher the student can write to.
SidesAgree ==
    /\ Total([s \in Learners |-> GradesShown(s)]) = Total([t \in Tutors |-> AverageScore(t).count])
    /\ \A g \in Classes, day \in Days :
         /\ Total([s \in Learners |-> Cardinality(RecordsOf(s, g, day))])
              = Total(DayCounts(g, day))
         /\ {entry[1] : entry \in Sheet(g, day)} = Members({g})
         /\ \A s \in Members({g}) :
              {e[2] : e \in {x \in Sheet(g, day) : x[1] = s}} \ {0} = RecordsOf(s, g, day)
         /\ Cardinality({e \in Sheet(g, day) : SheetStatus(e) = "absent"})
              <= DayCounts(g, day)["absent"]
    /\ \A t \in Tutors : \A g \in OwnClasses(t) :
         ClassCards(t)[g] <= Cardinality({s \in Taught(t) : t \in TutorsOf(s)})
    /\ \A d \in Sent("homework") \cup Sent("classWorks") :
         LET counts == Known(d.answers, "counts", <<>>) IN
         \A w \in DOMAIN counts : /\ counts[w].graded <= counts[w].total
                                  /\ ~d.torn => counts[w].total = Cardinality(DOMAIN Submissions(w))
    /\ \A d \in Steady("homework") :
         LET counts == Known(d.answers, "counts", <<>>) IN
         Total([w \in DOMAIN counts |-> counts[w].graded]) <= HomeworkStats(d.of).graded
    /\ \A d \in Steady("work") :
         Cardinality(DOMAIN Answered(d, "submissions")) = CountsOf({d.of})[d.of].total
    /\ \A d \in Steady("trend") :
         LET presents == Total([m \in TrendMonths |-> d.answers[<<"marks", m>>].present]) IN
         /\ GradesShown(d.of) = Cardinality(Scored(OfStudent(d.of).works))
         /\ TrendHas(d, Scored(OfStudent(d.of).works))
         /\ presents <= SummaryOf(d.of).present
         /\ (\A i \in OfStudent(d.of).rolls : rolls[i].day \in TrendMonths)
              => presents = SummaryOf(d.of).present
    /\ \A d \in Steady("classTrend"), m \in TrendMonths :
         d.answers[<<"marks", m>>].present = DayCounts(d.of, m)["present"]
    /\ \A d \in Steady("lesson"), t \in Tutors :
         (\E g \in Answered(d, "classes") : classes[g].tutor = t)
           <=> Answered(d, "lesson") \in CoursesOf(t)
    /\ \A d \in Steady("detail") :
         /\ Answered(d, "summary").total =
              Total([x \in Classes \X Days |-> Cardinality(RecordsOf(d.of, x[1], x[2]))])
         /\ LET sum == Answered(d, "summary") IN
            sum.present + sum.absent + sum.late + sum.excused = sum.total
         /\ \A g \in Answered(d, "group") : classes[g].tutor \in TutorsOf(d.of) \cup {None}
         /\ TutorsOf(d.of) # {} => Answered(d, "group") # {}

\* The views of teachers, groups and students tell the same of the same rows.
ViewsAgree == PagesShareTotal /\ AnalyticsAddUp /\ SidesAgree
=============================================================================
