----------------------------- MODULE Coursework -----------------------------
(***************************************************************************)
(* Exams with their questions and attempts, and homework with its          *)
(* submissions and grades.                                                 *)
(*                                                                         *)
(* Most handlers here read a whole entity, change it in memory and give it *)
(* to Repository.save.  save reads the row once more, in a transaction of  *)
(* its own, and updates the columns in which the entity differs from what  *)
(* that second read found: it writes back whatever the entity held before  *)
(* others changed the row.  A save is two steps here, SaveLoad and a write.*)
(***************************************************************************)
EXTENDS Integers, FiniteSets, FiniteSetsExt

CONSTANTS
    Exams,          \* the uuids exams may get
    Homeworks,      \* the uuids homeworks may get
    Students,       \* those who sit exams and hand in homework
    AttemptIds,     \* the uuids attempts may get
    Questions,      \* the uuids questions may get
    Marks,          \* the marks of each
    Sheets,         \* what students answer: how often each question, and rightly
    Limits,         \* dto.maxAttempts: @Min(1)
    Levels,         \* dto.passingMarks of an exam, dto.maxScore of a homework
    Contents,       \* what students hand in
    Scores,         \* what teachers give
    Handlers,       \* HTTP requests that can be in flight at the same time
    Endpoints,      \* the endpoints that clients call
    MaxRequests,    \* bound: requests that arrive
    MaxFailures,    \* bound: statements that fail, or crashes of a handler
    None            \* SQL NULL, and "no entity"

AllEndpoints == {"create-exam", "edit-exam", "publish", "add-questions", "remove-exam",
                 "start", "submit-attempt", "create-homework", "edit-homework",
                 "remove-homework", "submit", "grade"}

ASSUME CourseworkAssumption ==
    /\ IsFiniteSet(Handlers) /\ Handlers # {}
    /\ IsFiniteSet(AttemptIds) /\ IsFiniteSet(Questions)
    /\ Marks \in [Questions -> Nat]
    /\ Sheets \subseteq [Questions -> Nat]
    /\ Limits \subseteq Nat \ {0} /\ Levels \subseteq Nat /\ Scores \subseteq Nat
    /\ Endpoints \subseteq AllEndpoints
    /\ MaxRequests \in Nat /\ MaxFailures \in Nat
    /\ None \notin Nat \cup Exams \cup Homeworks \cup Students \cup Contents
    /\ Exams \cap Homeworks = {}

VARIABLES
    exams,       \* table exams
    questions,   \* table exam_questions: the questions of each exam
    attempts,    \* table exam_attempts
    homeworks,   \* table homeworks
    submissions, \* table homework_submissions, one row for a homework and a student
    task,        \* the request each handler is executing
    arrived,     \* how many requests have arrived
    failures,    \* how many statements have failed
    crossed,     \* history: the rows on which two requests that change them overlapped
    asked,       \* history: what the edits of an exam or homework asked for
    sent,        \* history: the content a student last handed in, and what a teacher graded
    given        \* history: the score a teacher last gave

tables  == <<exams, questions, attempts, homeworks, submissions>>
history == <<crossed, asked, sent, given>>
vars    == <<tables, task, arrived, failures, history>>

\* `deleted` is deletedAt # NULL; a row that was never inserted has exists = FALSE.
Exam == [exists : BOOLEAN, deleted : BOOLEAN, published : BOOLEAN,
         level : Nat, limit : Nat]

Homework == [exists : BOOLEAN, deleted : BOOLEAN, level : Nat]

Attempt == [exam : Exams \cup {None}, student : Students \cup {None}, number : Nat,
            submitted : BOOLEAN, answers : [Questions -> Nat],
            score : Nat \cup {None}, passed : BOOLEAN \cup {None}]

Submission == [status : {"absent", "submitted", "graded"},
               content : Contents \cup {None}, score : Nat \cup {None}]

NoExam       == [exists |-> FALSE, deleted |-> FALSE, published |-> FALSE,
                 level |-> 0, limit |-> 1]
NoHomework   == [exists |-> FALSE, deleted |-> FALSE, level |-> 0]
NoAttempt    == [exam |-> None, student |-> None, number |-> 0, submitted |-> FALSE,
                 answers |-> [q \in Questions |-> 0], score |-> None, passed |-> None]
NoSubmission == [status |-> "absent", content |-> None, score |-> None]

Pairs == Homeworks \X Students

LiveExams     == {e \in Exams : exams[e].exists /\ ~exams[e].deleted}
LiveHomeworks == {w \in Homeworks : homeworks[w].exists /\ ~homeworks[w].deleted}
AttemptsOf(e, s) == {a \in AttemptIds : attempts[a].exam = e /\ attempts[a].student = s}
Asked            == UNION {questions[e] : e \in Exams}
Submitters(w)    == {s \in Students : submissions[<<w, s>>].status # "absent"}

\* What right answers are worth.  An answer that is sent twice counts twice.
Worth(answers) == MapThenSumSet(LAMBDA q : answers[q] * Marks[q], DOMAIN answers)

\* `key` is the row the request is about, `row` the entity in memory with the columns of
\* `dto` assigned, `kids` the children loaded with it, `dirty` what its UPDATE will name.
Idle == [at |-> "idle", table |-> None, key |-> None, row |-> None, dto |-> None,
         kids |-> {}, dirty |-> {}]

Busy(h)       == task[h].at # "idle"
At(h, step)   == task[h].at = step
On(h, table)  == task[h].table = table
Goto(h, step) == task' = [task EXCEPT ![h].at = step]
Finish(h)     == task' = [task EXCEPT ![h] = Idle]

Arrives(h, e) ==
    /\ ~Busy(h)
    /\ e \in Endpoints
    /\ arrived < MaxRequests
    /\ arrived' = arrived + 1

Children(table, key) ==
    CASE table = "exams"     -> questions[key]
      [] table = "homeworks" -> Submitters(key)
      [] OTHER               -> {}

\* Object.assign(entity, dto)
Assign(entity, dto) ==
    [f \in DOMAIN entity |-> IF f \in DOMAIN dto THEN dto[f] ELSE entity[f]]

\* The request has read `entity`.  It crosses another one that is about the same row,
\* unless it only inserts below it.
Begin(h, step, table, key, entity, dto) ==
    /\ task' = [task EXCEPT ![h] = [at |-> step, table |-> table, key |-> key,
                                    row |-> Assign(entity, dto), dto |-> dto,
                                    kids |-> Children(table, key), dirty |-> {}]]
    /\ crossed' = IF \E g \in Handlers \ {h} : /\ step # "insertKids" /\ ~At(g, "insertKids")
                                               /\ On(g, table) /\ task[g].key = key
                  THEN crossed \cup {<<table, key>>} ELSE crossed

Init ==
    /\ exams = [e \in Exams |-> NoExam]
    /\ questions = [e \in Exams |-> {}]
    /\ attempts = [a \in AttemptIds |-> NoAttempt]
    /\ homeworks = [w \in Homeworks |-> NoHomework]
    /\ submissions = [k \in Pairs |-> NoSubmission]
    /\ task = [h \in Handlers |-> Idle]
    /\ arrived = 0
    /\ failures = 0
    /\ crossed = {}
    /\ asked = [d \in Exams \cup Homeworks |-> [published |-> FALSE, level |-> 0, deleted |-> FALSE]]
    /\ sent = [k \in Pairs |-> [last |-> None, graded |-> None]]
    /\ given = [k \in Pairs |-> None]

-----------------------------------------------------------------------------
(* Mistakes a change of the code could make, each against one property: an  *)
(* answer dropped, a limit or a number off by one, a column not reset.      *)

RightOnly(e, sheet) == [q \in questions[e] |-> sheet[q]]

LimitReachedLate(e, count) == count > exams[e].limit

GradedWithUnknown(row) ==
    LET right == [q \in Questions |-> IF q \in questions[row.exam] THEN row.answers[q] ELSE 0]
    IN  [row EXCEPT !.submitted = TRUE, !.answers = right, !.score = Worth(row.answers),
                    !.passed = Worth(row.answers) >= exams[row.exam].level]

HandedInStaysGraded(stored, dto) == Assign(stored, [dto EXCEPT !.status = stored.status])

ZeroLevelDropped(row, stored) ==
    {f \in DOMAIN row : row[f] # stored[f] /\ ~(f = "level" /\ row.level = 0)}

-----------------------------------------------------------------------------
(* Repository.save and softRemove of an entity that was read before        *)

Stored(table, key) ==
    CASE table = "exams"       -> exams[key]
      [] table = "homeworks"   -> homeworks[key]
      [] table = "attempts"    -> attempts[key]
      [] table = "submissions" -> submissions[key]

Differing(row, stored) == {f \in DOMAIN row : row[f] # stored[f]}

\* The histories, when a request that saved is answered.
Answer(t) ==
    /\ asked' = IF t.table \in {"exams", "homeworks"}
                THEN [asked EXCEPT ![t.key] = Assign(@, t.dto)] ELSE asked
    /\ given' = IF "score" \in DOMAIN t.dto
                THEN [given EXCEPT ![t.key] = t.dto.score] ELSE given
    /\ sent'  = CASE "score" \in DOMAIN t.dto   -> [sent EXCEPT ![t.key].graded = t.row.content]
                  [] "content" \in DOMAIN t.dto -> [sent EXCEPT ![t.key].last = t.dto.content]
                  [] OTHER                      -> sent

\* The SELECT of save.  A child missing from the collection that was loaded with the
\* entity would be detached, and as its foreign key is NOT NULL the save is rejected.
\* Without a difference there is no UPDATE.
SaveLoad(h) ==
    LET t     == task[h]
        dirty == Differing(t.row, Stored(t.table, t.key))
    IN  /\ At(h, "load")
        /\ CASE Children(t.table, t.key) # t.kids ->
                  Finish(h) /\ UNCHANGED <<asked, sent, given>>
             [] Children(t.table, t.key) = t.kids /\ dirty = {} ->
                  Finish(h) /\ Answer(t)
             [] OTHER ->
                  /\ task' = [task EXCEPT ![h].at = "write", ![h].dirty = dirty]
                  /\ UNCHANGED <<asked, sent, given>>
        /\ UNCHANGED <<tables, arrived, failures, crossed>>

\* softRemove writes deletedAt and nothing else.
SoftRemoveLoad(h) ==
    LET t == task[h] IN
    /\ At(h, "softLoad")
    /\ IF Children(t.table, t.key) # t.kids THEN Finish(h)
       ELSE task' = [task EXCEPT ![h].at = "write", ![h].dirty = {"deleted"}]
    /\ UNCHANGED <<tables, arrived, failures, history>>

Written(stored, t) == [f \in DOMAIN stored |-> IF f \in t.dirty THEN t.row[f] ELSE stored[f]]

-----------------------------------------------------------------------------
(* Exams: POST /exams, PATCH /exams/:id, /publish, DELETE, POST /questions *)

CreateExam(h) ==
    /\ Arrives(h, "create-exam")
    /\ \E e \in Exams, level \in Levels, limit \in Limits :
         /\ ~exams[e].exists
         /\ exams' = [exams EXCEPT ![e] =
              [NoExam EXCEPT !.exists = TRUE, !.level = level, !.limit = limit]]
         /\ asked' = [asked EXCEPT ![e].level = level]
    /\ UNCHANGED <<questions, attempts, homeworks, submissions, task, failures, crossed,
                   sent, given>>

\* publish is an update whose dto names isPublished, and UpdateExamDto does not.
EditExam(h) ==
    /\ \E e \in LiveExams :
         \/ /\ Arrives(h, "edit-exam")
            /\ \E level \in Levels : Begin(h, "load", "exams", e, exams[e], [level |-> level])
         \/ /\ Arrives(h, "publish")
            /\ Begin(h, "load", "exams", e, exams[e], [published |-> TRUE])
    /\ UNCHANGED <<tables, failures, asked, sent, given>>

RemoveExam(h) ==
    /\ Arrives(h, "remove-exam")
    /\ \E e \in LiveExams : Begin(h, "softLoad", "exams", e, exams[e], [deleted |-> TRUE])
    /\ UNCHANGED <<tables, failures, asked, sent, given>>

ExamWrite(h) ==
    LET t == task[h] IN
    /\ At(h, "write") /\ On(h, "exams")
    /\ exams' = [exams EXCEPT ![t.key] = Written(@, t)]
    /\ Answer(t)
    /\ Finish(h)
    /\ UNCHANGED <<questions, attempts, homeworks, submissions, arrived, failures, crossed>>

QuestionsFind(h) ==
    /\ Arrives(h, "add-questions")
    /\ \E e \in LiveExams : Begin(h, "insertKids", "exams", e, exams[e], <<>>)
    /\ UNCHANGED <<tables, failures, asked, sent, given>>

\* One question, or those of a bulk in one transaction.  Questions is a bound.
QuestionsInsert(h) ==
    /\ At(h, "insertKids")
    /\ \E new \in (SUBSET (Questions \ Asked)) \ {{}} :
         questions' = [questions EXCEPT ![task[h].key] = @ \cup new]
    /\ Finish(h)
    /\ UNCHANGED <<exams, attempts, homeworks, submissions, arrived, failures, history>>

-----------------------------------------------------------------------------
(* Attempts: POST /exams/:id/start, POST /exams/attempts/:attemptId/submit *)

\* The second guard is the bound AttemptIds: an id is left for every start under way.
StartFind(h) ==
    /\ Arrives(h, "start")
    /\ Cardinality({g \in Handlers : On(g, "starts")}) <
          Cardinality({a \in AttemptIds : attempts[a].exam = None})
    /\ \E e \in LiveExams, s \in Students :
         /\ exams[e].published
         /\ Begin(h, "count", "starts", <<e, s>>, NoAttempt, [exam |-> e, student |-> s])
    /\ UNCHANGED <<tables, failures, asked, sent, given>>

\* No endpoint changes maxAttempts, so that the one read by StartFind still stands.
LimitReached(e, count) == count >= exams[e].limit

NumberAfter(count) == count + 1

StartCount(h) ==
    LET row   == task[h].row
        count == Cardinality(AttemptsOf(row.exam, row.student))
    IN  /\ At(h, "count")
        /\ IF LimitReached(row.exam, count) THEN Finish(h)
           ELSE task' = [task EXCEPT ![h].at = "insert", ![h].row.number = NumberAfter(count)]
        /\ UNCHANGED <<tables, arrived, failures, history>>

StartInsert(h) ==
    /\ At(h, "insert") /\ On(h, "starts")
    /\ \E a \in AttemptIds :
         /\ attempts[a].exam = None
         /\ attempts' = [attempts EXCEPT ![a] = task[h].row]
    /\ Finish(h)
    /\ UNCHANGED <<exams, questions, homeworks, submissions, arrived, failures, history>>

AttemptFind(h) ==
    /\ Arrives(h, "submit-attempt")
    /\ \E a \in AttemptIds, sheet \in Sheets :
         /\ attempts[a].exam # None
         /\ Begin(h, "gradeSheet", "attempts", a, attempts[a], [answers |-> sheet])
    /\ UNCHANGED <<tables, failures, asked, sent, given>>

\* An answer to a question the exam does not have is not right.
Right(e, sheet) == [q \in Questions |-> IF q \in questions[e] THEN sheet[q] ELSE 0]

Graded(row) ==
    LET right == Right(row.exam, row.answers) IN
    [row EXCEPT !.submitted = TRUE, !.answers = right, !.score = Worth(right),
                !.passed = Worth(right) >= exams[row.exam].level]

\* The exam is read with its questions, and the sheet graded against them.
AttemptGrade(h) ==
    LET row == task[h].row IN
    /\ At(h, "gradeSheet")
    /\ IF row.exam \notin LiveExams THEN Finish(h)
       ELSE task' = [task EXCEPT ![h].at = "load", ![h].row = Graded(row)]
    /\ UNCHANGED <<tables, arrived, failures, history>>

AttemptWrite(h) ==
    LET t == task[h] IN
    /\ At(h, "write") /\ On(h, "attempts")
    /\ attempts' = [attempts EXCEPT ![t.key] = Written(@, t)]
    /\ Finish(h)
    /\ UNCHANGED <<exams, questions, homeworks, submissions, arrived, failures, history>>

-----------------------------------------------------------------------------
(* Homework: POST /homework, PATCH and DELETE /homework/:id                *)

CreateHomework(h) ==
    /\ Arrives(h, "create-homework")
    /\ \E w \in Homeworks, level \in Levels :
         /\ ~homeworks[w].exists
         /\ homeworks' = [homeworks EXCEPT ![w] =
              [exists |-> TRUE, deleted |-> FALSE, level |-> level]]
         /\ asked' = [asked EXCEPT ![w].level = level]
    /\ UNCHANGED <<exams, questions, attempts, submissions, task, failures, crossed, sent, given>>

EditHomework(h) ==
    /\ \E w \in LiveHomeworks :
         \/ /\ Arrives(h, "edit-homework")
            /\ \E level \in Levels :
                 Begin(h, "load", "homeworks", w, homeworks[w], [level |-> level])
         \/ /\ Arrives(h, "remove-homework")
            /\ Begin(h, "softLoad", "homeworks", w, homeworks[w], [deleted |-> TRUE])
    /\ UNCHANGED <<tables, failures, asked, sent, given>>

HomeworkWrite(h) ==
    LET t == task[h] IN
    /\ At(h, "write") /\ On(h, "homeworks")
    /\ homeworks' = [homeworks EXCEPT ![t.key] = Written(@, t)]
    /\ Answer(t)
    /\ Finish(h)
    /\ UNCHANGED <<exams, questions, attempts, submissions, arrived, failures, crossed>>

-----------------------------------------------------------------------------
(* Submissions: POST /homework/:id/submit, /homework/:id/grade/:subId.     *)
(* StudentsController passes a student's id for the user's, and its route  *)
(* for submit answers 404; StudentsService.submitHomework has no caller.   *)

Submitted(c) == [content |-> c, status |-> "submitted"]

SubmitFind(h) ==
    /\ Arrives(h, "submit")
    /\ \E w \in LiveHomeworks, s \in Students, c \in Contents :
         Begin(h, "look", "submissions", <<w, s>>, NoSubmission, Submitted(c))
    /\ UNCHANGED <<tables, failures, asked, sent, given>>

\* The row that is there keeps its grade.
HandedIn(stored, dto) == Assign(stored, dto)

SubmitLook(h) ==
    LET t      == task[h]
        stored == submissions[t.key]
    IN  /\ At(h, "look")
        /\ IF stored.status = "absent" THEN Goto(h, "insert")
           ELSE task' = [task EXCEPT ![h].at = "load", ![h].row = HandedIn(stored, t.dto)]
        /\ UNCHANGED <<tables, arrived, failures, history>>

\* The unique index on homework and student rejects a second row.
SubmissionInsert(h) ==
    LET t == task[h] IN
    /\ At(h, "insert") /\ On(h, "submissions")
    /\ IF submissions[t.key].status = "absent"
       THEN submissions' = [submissions EXCEPT ![t.key] = t.row] /\ Answer(t)
       ELSE UNCHANGED <<submissions, asked, sent, given>>
    /\ Finish(h)
    /\ UNCHANGED <<exams, questions, attempts, homeworks, arrived, failures, crossed>>

GradeFind(h) ==
    /\ Arrives(h, "grade")
    /\ \E k \in Pairs, score \in Scores :
         /\ submissions[k].status # "absent"
         /\ Begin(h, "load", "submissions", k, submissions[k],
                  [score |-> score, status |-> "graded"])
    /\ UNCHANGED <<tables, failures, asked, sent, given>>

SubmissionWrite(h) ==
    LET t == task[h] IN
    /\ At(h, "write") /\ On(h, "submissions")
    /\ submissions' = [submissions EXCEPT ![t.key] = Written(@, t)]
    /\ Answer(t)
    /\ Finish(h)
    /\ UNCHANGED <<exams, questions, attempts, homeworks, arrived, failures, crossed>>

-----------------------------------------------------------------------------

\* The awaited statement fails, or the process dies: what is committed stays.
HandlerFails(h) ==
    /\ Busy(h)
    /\ failures < MaxFailures
    /\ failures' = failures + 1
    /\ Finish(h)
    /\ UNCHANGED <<tables, arrived, history>>

Request(h) ==
    \/ CreateExam(h) \/ EditExam(h) \/ RemoveExam(h) \/ QuestionsFind(h)
    \/ StartFind(h) \/ AttemptFind(h)
    \/ CreateHomework(h) \/ EditHomework(h)
    \/ SubmitFind(h) \/ GradeFind(h)

Proceed(h) ==
    \/ SaveLoad(h) \/ SoftRemoveLoad(h)
    \/ ExamWrite(h) \/ AttemptWrite(h) \/ HomeworkWrite(h) \/ SubmissionWrite(h)
    \/ QuestionsInsert(h) \/ StartCount(h) \/ StartInsert(h) \/ AttemptGrade(h)
    \/ SubmitLook(h) \/ SubmissionInsert(h)

Next == \E h \in Handlers : Request(h) \/ Proceed(h) \/ HandlerFails(h)

Spec == Init /\ [][Next]_vars

-----------------------------------------------------------------------------
(* Properties                                                              *)

TypeOK ==
    /\ exams \in [Exams -> Exam]
    /\ questions \in [Exams -> SUBSET Questions]
    /\ attempts \in [AttemptIds -> Attempt]
    /\ homeworks \in [Homeworks -> Homework]
    /\ submissions \in [Pairs -> Submission]
    /\ arrived \in Nat /\ failures \in Nat
    /\ given \in [Pairs -> Nat \cup {None}]

\* maxAttempts: a student has at most as many attempts at an exam as it allows, plus
\* one for every other request that can stand between startAttempt's count and insert.
AttemptsOvershootBounded ==
    \A e \in LiveExams, s \in Students :
        Cardinality(AttemptsOf(e, s)) <= exams[e].limit + Cardinality(Handlers) - 1

\* A student whose starts of an exam never overlapped has the attempts 1, 2, 3 ... of
\* it and no more than it allows, whatever happens to the exam meanwhile.
AttemptsNumbered ==
    \A e \in Exams, s \in Students : <<"starts", <<e, s>>>> \notin crossed =>
        LET own == AttemptsOf(e, s) IN
        /\ {attempts[a].number : a \in own} = 1 .. Cardinality(own)
        /\ Cardinality(own) <= exams[e].limit

AttemptsStand == AttemptsOvershootBounded /\ AttemptsNumbered

\* The score stored with an attempt is what the stored answers are worth, also while
\* questions are added and the exam is edited, unless two submissions of it overlapped.
ScoreMatchesAnswers ==
    \A a \in AttemptIds : <<"attempts", a>> \notin crossed =>
        (attempts[a].submitted => attempts[a].score = Worth(attempts[a].answers))

\* A submission on which no two requests overlapped holds what the student handed in
\* last and the score given last: handing in again keeps the score.  It is shown as graded
\* only while that content is what the teacher read.
SubmissionStands ==
    \A k \in Pairs : <<"submissions", k>> \notin crossed =>
        /\ submissions[k].content = sent[k].last
        /\ submissions[k].score = given[k]
        /\ submissions[k].status = "graded" => submissions[k].content = sent[k].graded

\* An exam or homework that no two requests changed at once is as its edits asked: what
\* was published or removed stays so, and the marks are those asked for last, whatever
\* attempts, submissions and new questions do beside.
EditsStand ==
    /\ \A e \in Exams : <<"exams", e>> \notin crossed =>
         /\ exams[e].published = asked[e].published
         /\ exams[e].level = asked[e].level
         /\ exams[e].deleted = asked[e].deleted
    /\ \A w \in Homeworks : <<"homeworks", w>> \notin crossed =>
         homeworks[w].level = asked[w].level /\ homeworks[w].deleted = asked[w].deleted

=============================================================================
