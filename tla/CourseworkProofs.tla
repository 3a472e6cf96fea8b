-------------------------- MODULE CourseworkProofs --------------------------
(* What the run checks of exams, attempts, homework and submissions, for    *)
(* every number of requests, failures, students and rows.  What an attempt  *)
(* is worth is a sum over its answers: its type needs that the sum is a     *)
(* natural number, the rest only that equal answers are worth the same.     *)
EXTENDS Coursework, SumProofs

-----------------------------------------------------------------------------
(* Requests.                                                               *)

TaskShape ==
    /\ task = [h \in Handlers |-> task[h]]
    /\ \A h \in Handlers :
         task[h] = [at |-> task[h].at, table |-> task[h].table, key |-> task[h].key,
                    row |-> task[h].row, dto |-> task[h].dto, kids |-> task[h].kids,
                    dirty |-> task[h].dirty]

\* A request that changes its row, and does not insert below it only.
Changes(h) == Busy(h) /\ ~At(h, "insertKids")

Works(h, table, key) == Changes(h) /\ task[h].table = table /\ task[h].key = key

\* Two requests that are under way and change the same row were noted.
CrossingsNoted ==
    \A g, h \in Handlers :
        g # h /\ Changes(g) /\ Works(h, task[g].table, task[g].key)
            => <<task[g].table, task[g].key>> \in crossed

Saves(h) == At(h, "load") \/ At(h, "write")

\* Which statements a request about a table awaits.
StepOfTable(h) ==
    Busy(h) =>
        CASE task[h].table = "exams"       -> Saves(h) \/ At(h, "softLoad") \/ At(h, "insertKids")
          [] task[h].table = "homeworks"   -> Saves(h) \/ At(h, "softLoad")
          [] task[h].table = "attempts"    -> Saves(h) \/ At(h, "gradeSheet")
          [] task[h].table = "submissions" -> Saves(h) \/ At(h, "look") \/ At(h, "insert")
          [] task[h].table = "starts"      -> At(h, "count") \/ At(h, "insert")
          [] OTHER                         -> FALSE

RequestsInv == TaskShape /\ CrossingsNoted /\ \A h \in Handlers : StepOfTable(h)
-----------------------------------------------------------------------------
(* Invariants.                                                             *)

\* The row that a request has in memory is the stored one with the dto assigned, and the
\* UPDATE names every column in which the two differ.
Saving(h, stored) ==
    LET t == task[h] IN
    /\ t.row = Assign(stored, t.dto)
    /\ At(h, "write") => Differing(t.row, stored) \subseteq t.dirty

ExamDtos     == [level : Levels] \cup [published : {TRUE}] \cup [deleted : {TRUE}]
HomeworkDtos == [level : Levels] \cup [deleted : {TRUE}]

\* No request changes whether an exam is there, or how many attempts it allows.
ExamAtWork(h) ==
    LET t == task[h] IN
    Changes(h) /\ t.table = "exams" =>
        /\ t.key \in Exams /\ exams[t.key].exists
        /\ t.row \in Exam /\ t.row.exists /\ t.row.limit = exams[t.key].limit
        /\ t.dto \in ExamDtos
        /\ At(h, "softLoad") => t.dto = [deleted |-> TRUE]
        /\ <<"exams", t.key>> \notin crossed => Saving(h, exams[t.key])

ExamStands(e) ==
    <<"exams", e>> \notin crossed =>
        /\ exams[e].published = asked[e].published
        /\ exams[e].level = asked[e].level
        /\ exams[e].deleted = asked[e].deleted

AskedShape ==
    /\ asked = [d \in Exams \cup Homeworks |-> asked[d]]
    /\ \A d \in Exams \cup Homeworks :
         asked[d] = [published |-> asked[d].published, level |-> asked[d].level,
                     deleted |-> asked[d].deleted]

ExamsInv ==
    /\ exams \in [Exams -> Exam]
    /\ \A e \in Exams : ~exams[e].exists => exams[e] = NoExam
    /\ \A h \in Handlers : ExamAtWork(h)
    /\ \A e \in Exams : ExamStands(e)

HomeworkAtWork(h) ==
    LET t == task[h] IN
    Changes(h) /\ t.table = "homeworks" =>
        /\ t.key \in Homeworks /\ homeworks[t.key].exists
        /\ t.row \in Homework /\ t.row.exists
        /\ t.dto \in HomeworkDtos
        /\ At(h, "softLoad") => t.dto = [deleted |-> TRUE]
        /\ <<"homeworks", t.key>> \notin crossed => Saving(h, homeworks[t.key])

HomeworkStands(w) ==
    <<"homeworks", w>> \notin crossed =>
        homeworks[w].level = asked[w].level /\ homeworks[w].deleted = asked[w].deleted

HomeworksInv ==
    /\ homeworks \in [Homeworks -> Homework]
    /\ \A w \in Homeworks : ~homeworks[w].exists => homeworks[w] = NoHomework
    /\ \A h \in Handlers : HomeworkAtWork(h)
    /\ \A w \in Homeworks : HomeworkStands(w)

HandInDtos == [content : Contents, status : {"submitted"}]
GradeDtos  == [score : Scores, status : {"graded"}]

\* A hand-in that found no row has one that is new; every other request has the stored one.
SubmissionAtWork(h) ==
    LET t == task[h] IN
    Changes(h) /\ t.table = "submissions" =>
        /\ t.key \in Pairs
        /\ t.row \in Submission
        /\ t.dto \in HandInDtos \cup GradeDtos
        /\ At(h, "look") \/ At(h, "insert") =>
             t.dto \in HandInDtos /\ t.row = Assign(NoSubmission, t.dto)
        /\ Saves(h) =>
             /\ submissions[t.key].status # "absent" /\ t.row.status # "absent"
             /\ <<"submissions", t.key>> \notin crossed => Saving(h, submissions[t.key])

SubmissionIsLast(k) ==
    <<"submissions", k>> \notin crossed =>
        /\ submissions[k].content = sent[k].last
        /\ submissions[k].score = given[k]
        /\ submissions[k].status = "graded" => submissions[k].content = sent[k].graded

SentShape ==
    /\ sent = [k \in Pairs |-> sent[k]] /\ given = [k \in Pairs |-> given[k]]
    /\ \A k \in Pairs : sent[k] = [last |-> sent[k].last, graded |-> sent[k].graded]

SubmissionsInv ==
    /\ submissions \in [Pairs -> Submission]
    /\ SentShape
    /\ \A k \in Pairs : submissions[k].status = "absent" => submissions[k] = NoSubmission
    /\ \A h \in Handlers : SubmissionAtWork(h)
    /\ \A k \in Pairs : SubmissionIsLast(k)

AttemptColumns == {"exam", "student", "number", "submitted", "answers", "score", "passed"}

\* An attempt stays that of its exam and student.  Once its sheet is graded a request holds
\* a score that is what its answers are worth.
AttemptAtWork(h) ==
    LET t == task[h] IN
    Changes(h) /\ t.table = "attempts" =>
        /\ t.key \in AttemptIds /\ attempts[t.key].exam # None
        /\ DOMAIN t.row = AttemptColumns
        /\ t.row.exam = attempts[t.key].exam /\ t.row.student = attempts[t.key].student
        /\ t.row.number = attempts[t.key].number
        /\ "score" \notin DOMAIN t.dto /\ "content" \notin DOMAIN t.dto
        /\ Saves(h) => t.row.submitted /\ t.row.score = Worth(t.row.answers)
        /\ At(h, "write") /\ <<"attempts", t.key>> \notin crossed =>
             Differing(t.row, attempts[t.key]) \subseteq t.dirty

ScoreMatches(a) ==
    <<"attempts", a>> \notin crossed =>
        (attempts[a].submitted => attempts[a].score = Worth(attempts[a].answers))

\* A start has an attempt that is new, of the exam and student that it is about.
StartAtWork(h) ==
    LET t == task[h] IN
    Busy(h) /\ t.table = "starts" =>
        /\ t.row.exam \in Exams /\ t.row.student \in Students
        /\ t.key = <<t.row.exam, t.row.student>>
        /\ exams[t.row.exam].exists
        /\ DOMAIN t.row = AttemptColumns /\ t.row.submitted = FALSE

AttemptsInv ==
    /\ attempts = [a \in AttemptIds |-> attempts[a]]
    /\ \A a \in AttemptIds :
         /\ DOMAIN attempts[a] = AttemptColumns
         /\ attempts[a].exam = None => ~attempts[a].submitted
         /\ attempts[a].exam # None => attempts[a].exam \in Exams /\ exams[attempts[a].exam].exists
    /\ \A h \in Handlers : AttemptAtWork(h) /\ StartAtWork(h)
    /\ \A a \in AttemptIds : ScoreMatches(a)

Inserting(e, s) ==
    {h \in Handlers : At(h, "insert") /\ task[h].table = "starts" /\ task[h].key = <<e, s>>}

\* Starts that have counted hold the next number each, if none overlaps another.
CountedAtWork(h) ==
    LET row == task[h].row  own == AttemptsOf(row.exam, row.student) IN
    At(h, "insert") /\ task[h].table = "starts"
    /\ <<"starts", <<row.exam, row.student>>>> \notin crossed =>
            /\ Cardinality(own) < exams[row.exam].limit
            /\ row.number = Cardinality(own) + 1

NumbersStand(e, s) ==
    <<"starts", <<e, s>>>> \notin crossed =>
        LET own == AttemptsOf(e, s) IN
        /\ {attempts[a].number : a \in own} = 1 .. Cardinality(own)
        /\ Cardinality(own) <= exams[e].limit

\* What was inserted and what is about to be, for exams that are there.
StartsFit(e, s) ==
    exams[e].exists =>
        Cardinality(AttemptsOf(e, s)) + Cardinality(Inserting(e, s))
            <= exams[e].limit + Cardinality(Handlers) - 1

StartsInv ==
    /\ \A h \in Handlers : CountedAtWork(h)
    /\ \A e \in Exams, s \in Students : NumbersStand(e, s) /\ StartsFit(e, s)

CourseworkInv ==
    RequestsInv /\ AskedShape /\ ExamsInv /\ HomeworksInv /\ SubmissionsInv /\ AttemptsInv /\ StartsInv
-----------------------------------------------------------------------------
(* What a step does to the requests.                                       *)

\* A step of h leaves the other requests alone.
Moves(h) ==
    /\ RequestsInv'
    /\ \A g \in Handlers \ {h} : task'[g] = task[g]
    /\ crossed \subseteq crossed'

\* No other request changes that row, or it was noted.
Alone(h, table, key) ==
    <<table, key>> \notin crossed' => \A g \in Handlers \ {h} : ~Works(g, table, key)

\* What h has in hand after its step.
Becomes(h, at, table, key, row, dto, dirty) ==
    /\ task'[h].at = at /\ task'[h].table = table /\ task'[h].key = key
    /\ task'[h].row = row /\ task'[h].dto = dto /\ task'[h].dirty = dirty

\* h alone has another task, which has the seven fields.
Replaced(h) ==
    TaskShape' /\ \A g \in Handlers \ {h} : task'[g] = task[g]

LEMMA ReplacedTask ==
    ASSUME TaskShape, NEW h \in Handlers, NEW at, NEW table, NEW key, NEW row, NEW dto, NEW kids,
           NEW dirty,
           task' = [task EXCEPT ![h] = [at |-> at, table |-> table, key |-> key, row |-> row,
                                        dto |-> dto, kids |-> kids, dirty |-> dirty]]
    PROVE  Replaced(h) /\ Becomes(h, at, table, key, row, dto, dirty)
<1>1. task'[h] = [at |-> at, table |-> table, key |-> key, row |-> row, dto |-> dto,
                  kids |-> kids, dirty |-> dirty]
  BY DEF TaskShape
<1>2. Becomes(h, at, table, key, row, dto, dirty)
  BY <1>1 DEF Becomes
<1>3. Replaced(h)
  BY <1>1 DEF Replaced, TaskShape
<1> QED
  BY <1>2, <1>3

LEMMA NextStatement ==
    ASSUME TaskShape, NEW h \in Handlers, NEW step, NEW x
    PROVE  /\ task' = [task EXCEPT ![h].at = step] =>
                Replaced(h) /\ Becomes(h, step, task[h].table, task[h].key, task[h].row,
                                       task[h].dto, task[h].dirty)
           /\ task' = [task EXCEPT ![h].at = step, ![h].dirty = x] =>
                Replaced(h) /\ Becomes(h, step, task[h].table, task[h].key, task[h].row,
                                       task[h].dto, x)
           /\ task' = [task EXCEPT ![h].at = step, ![h].row = x] =>
                Replaced(h) /\ Becomes(h, step, task[h].table, task[h].key, x,
                                       task[h].dto, task[h].dirty)
           /\ task' = [task EXCEPT ![h].at = step, ![h].row.number = x] =>
                Replaced(h) /\ Becomes(h, step, task[h].table, task[h].key,
                                       [task[h].row EXCEPT !.number = x],
                                       task[h].dto, task[h].dirty)
<1> DEFINE there == [task EXCEPT ![h].at = step]
           t     == task[h]
<1>1. t = [at |-> t.at, table |-> t.table, key |-> t.key, row |-> t.row, dto |-> t.dto,
           kids |-> t.kids, dirty |-> t.dirty]
  BY DEF TaskShape
<1>2. task = [g \in Handlers |-> task[g]]
  BY DEF TaskShape
<1>3. there = [task EXCEPT ![h] = [at |-> step, table |-> t.table, key |-> t.key, row |-> t.row,
                                   dto |-> t.dto, kids |-> t.kids, dirty |-> t.dirty]]
  <2> DEFINE to == [t EXCEPT !.at = step]
  <2>1. to = [at |-> step, table |-> t.table, key |-> t.key, row |-> t.row,
              dto |-> t.dto, kids |-> t.kids, dirty |-> t.dirty]
    <3> HIDE DEF t
    <3> QED
      BY <1>1
  <2>2. there = [task EXCEPT ![h] = to]
    OBVIOUS
  <2> QED
    BY <2>1, <2>2
<1>4. there[h] = [at |-> step, table |-> t.table, key |-> t.key, row |-> t.row,
                  dto |-> t.dto, kids |-> t.kids, dirty |-> t.dirty]
      /\ there = [g \in Handlers |-> there[g]]
      /\ \A g \in Handlers \ {h} : there[g] = task[g]
  BY <1>2, <1>3
<1>5. ASSUME NEW to, task' = [there EXCEPT ![h] = to],
             to = [at |-> to.at, table |-> to.table, key |-> to.key, row |-> to.row,
                   dto |-> to.dto, kids |-> to.kids, dirty |-> to.dirty]
      PROVE  Replaced(h) /\ task'[h] = to
  <2> HIDE DEF there
  <2>1. task'[h] = to /\ \A g \in Handlers \ {h} : task'[g] = task[g]
    BY <1>4, <1>5
  <2>2. task' = [g \in Handlers |-> task'[g]]
    BY <1>4, <1>5
  <2> QED
    BY <1>5, <2>1, <2>2 DEF Replaced, TaskShape
<1>6. ASSUME task' = there
      PROVE  Replaced(h) /\ Becomes(h, step, t.table, t.key, t.row, t.dto, t.dirty)
  BY <1>3, <1>6, ReplacedTask
<1>7. ASSUME task' = [task EXCEPT ![h].at = step, ![h].dirty = x]
      PROVE  Replaced(h) /\ Becomes(h, step, t.table, t.key, t.row, t.dto, x)
  <2> DEFINE to == [there[h] EXCEPT !.dirty = x]
  <2>1. task' = [there EXCEPT ![h] = to]
    BY <1>7
  <2> HIDE DEF there, t
  <2>2. to = [at |-> step, table |-> t.table, key |-> t.key, row |-> t.row, dto |-> t.dto,
              kids |-> t.kids, dirty |-> x]
    BY <1>4
  <2> HIDE DEF to
  <2>3. Replaced(h) /\ task'[h] = to
    BY <1>5, <2>1, <2>2
  <2> QED
    BY <2>2, <2>3 DEF Becomes
<1>8. ASSUME task' = [task EXCEPT ![h].at = step, ![h].row = x]
      PROVE  Replaced(h) /\ Becomes(h, step, t.table, t.key, x, t.dto, t.dirty)
  <2> DEFINE to == [there[h] EXCEPT !.row = x]
  <2>1. task' = [there EXCEPT ![h] = to]
    BY <1>8
  <2> HIDE DEF there, t
  <2>2. to = [at |-> step, table |-> t.table, key |-> t.key, row |-> x, dto |-> t.dto,
              kids |-> t.kids, dirty |-> t.dirty]
    BY <1>4
  <2> HIDE DEF to
  <2>3. Replaced(h) /\ task'[h] = to
    BY <1>5, <2>1, <2>2
  <2> QED
    BY <2>2, <2>3 DEF Becomes
<1>9. ASSUME task' = [task EXCEPT ![h].at = step, ![h].row.number = x]
      PROVE  Replaced(h)
             /\ Becomes(h, step, t.table, t.key, [t.row EXCEPT !.number = x], t.dto, t.dirty)
  <2> DEFINE row == [there[h].row EXCEPT !.number = x]
             to  == [there[h] EXCEPT !.row = row]
  <2>1. task' = [there EXCEPT ![h] = to]
    BY <1>9
  <2> HIDE DEF there, t
  <2>2. row = [t.row EXCEPT !.number = x]
    BY <1>4
  <2> HIDE DEF row
  <2>3. to = [at |-> step, table |-> t.table, key |-> t.key, row |-> row, dto |-> t.dto,
              kids |-> t.kids, dirty |-> t.dirty]
    BY <1>4
  <2> HIDE DEF to
  <2>4. Replaced(h) /\ task'[h] = to
    BY <1>5, <2>1, <2>3
  <2> QED
    BY <2>2, <2>3, <2>4 DEF Becomes
<1> QED
  BY <1>6, <1>7, <1>8, <1>9

\* A request that was under way on a row goes on with it, or ends.
LEMMA GoesOnMoves ==
    ASSUME RequestsInv, NEW h \in Handlers, Busy(h), Replaced(h), crossed' = crossed,
           Changes(h)' => /\ Changes(h) /\ task'[h].table = task[h].table
                          /\ task'[h].key = task[h].key,
           StepOfTable(h)'
    PROVE  Moves(h) /\ (Changes(h) => Alone(h, task[h].table, task[h].key))
<1>1. ASSUME NEW g \in Handlers \ {h}
      PROVE  /\ task'[g] = task[g] /\ StepOfTable(g)' /\ (Changes(g)' <=> Changes(g))
  BY DEF Replaced, RequestsInv, StepOfTable, Saves, Changes, Busy, At
<1>2. ASSUME NEW f \in Handlers, NEW g \in Handlers, f # g, Changes(f)',
             Works(g, task[f].table, task[f].key)'
      PROVE  <<task'[f].table, task'[f].key>> \in crossed'
  <2>1. \A e \in {f, g} : /\ Changes(e) /\ task'[e].table = task[e].table
                          /\ task'[e].key = task[e].key
    BY <1>1, <1>2 DEF Works
  <2> QED
    BY <1>2, <2>1 DEF RequestsInv, CrossingsNoted, Works
<1>3. CrossingsNoted'
  BY <1>2 DEF CrossingsNoted
<1>4. Changes(h) => Alone(h, task[h].table, task[h].key)
  BY DEF RequestsInv, CrossingsNoted, Alone, Works
<1> QED
  BY <1>1, <1>3, <1>4 DEF Moves, RequestsInv, Replaced

LEMMA FinishMoves ==
    ASSUME RequestsInv, NEW h \in Handlers, Busy(h), Finish(h), crossed' = crossed
    PROVE  /\ Moves(h) /\ task'[h].at = "idle"
           /\ Changes(h) => Alone(h, task[h].table, task[h].key)
<1>1. Replaced(h) /\ task'[h].at = "idle"
  <2>1. Replaced(h) /\ Becomes(h, "idle", None, None, None, None, {})
    BY ReplacedTask DEF Finish, Idle, RequestsInv
  <2> QED
    BY <2>1 DEF Becomes
<1>2. ~Changes(h)' /\ StepOfTable(h)'
  BY <1>1 DEF Changes, Busy, StepOfTable
<1> QED
  BY <1>1, <1>2, GoesOnMoves

LEMMA BeginMoves ==
    ASSUME RequestsInv, NEW h \in Handlers, ~Busy(h), NEW step, NEW table, NEW key, NEW entity,
           NEW dto, Begin(h, step, table, key, entity, dto), step # "idle", StepOfTable(h)'
    PROVE  /\ Moves(h)
           /\ Becomes(h, step, table, key, Assign(entity, dto), dto, {})
           /\ step # "insertKids" => Alone(h, table, key)
<1>1. Replaced(h) /\ Becomes(h, step, table, key, Assign(entity, dto), dto, {})
  BY ReplacedTask DEF Begin, RequestsInv
<1>2. crossed \subseteq crossed'
  BY DEF Begin
<1>3. step # "insertKids" => Alone(h, table, key)
  BY DEF Begin, Alone, Works, Changes, On
<1>4. ASSUME NEW g \in Handlers \ {h}
      PROVE  task'[g] = task[g] /\ StepOfTable(g)' /\ (Changes(g)' <=> Changes(g))
  BY <1>1 DEF Replaced, RequestsInv, StepOfTable, Saves, Changes, Busy, At
<1>5. ASSUME NEW f \in Handlers, NEW g \in Handlers, f # g, Changes(f)',
             Works(g, task[f].table, task[f].key)'
      PROVE  <<task'[f].table, task'[f].key>> \in crossed'
  <2>1. task'[g].table = task'[f].table /\ task'[g].key = task'[f].key /\ Changes(g)'
    BY <1>5 DEF Works
  <2>2. CASE f = h
    <3>1. step # "insertKids" /\ Works(g, table, key)
      BY <1>1, <1>4, <1>5, <2>1, <2>2 DEF Becomes, Changes, At, Works
    <3> QED
      BY <1>1, <1>3, <1>5, <2>2, <3>1 DEF Becomes, Alone
  <2>3. CASE g = h
    <3>1. step # "insertKids" /\ Works(f, table, key)
      BY <1>1, <1>4, <1>5, <2>1, <2>3 DEF Becomes, Changes, At, Works
    <3> QED
      BY <1>1, <1>3, <1>5, <2>1, <2>3, <3>1 DEF Becomes, Alone
  <2>4. CASE f # h /\ g # h
    BY <1>2, <1>4, <1>5, <2>1, <2>4 DEF RequestsInv, CrossingsNoted, Works
  <2> QED
    BY <2>2, <2>3, <2>4
<1>6. CrossingsNoted'
  BY <1>5 DEF CrossingsNoted
<1> QED
  BY <1>1, <1>2, <1>3, <1>4, <1>6 DEF Moves, RequestsInv, Replaced
-----------------------------------------------------------------------------
(* What the requests of the others know stays true.                        *)

LEMMA AloneMeans ==
    ASSUME NEW h \in Handlers, NEW g \in Handlers \ {h}, Moves(h), Changes(g),
           <<task[g].table, task[g].key>> \notin crossed'
    PROVE  ~Alone(h, task[g].table, task[g].key)
BY DEF Alone, Works

LEMMA OthersOnExams ==
    ASSUME CourseworkInv, NEW h \in Handlers, Moves(h), \A e \in Exams : exams[e].exists =>
             /\ exams'[e].exists /\ exams'[e].limit = exams[e].limit
             /\ exams'[e] = exams[e] \/ Alone(h, "exams", e)
    PROVE  \A g \in Handlers \ {h} : ExamAtWork(g)'
<1> SUFFICES ASSUME NEW g \in Handlers \ {h}, Changes(g), task[g].table = "exams"
             PROVE  ExamAtWork(g)'
  BY DEF Moves, ExamAtWork, Changes, Busy, At
<1>1. task'[g] = task[g] /\ ExamAtWork(g) /\ crossed \subseteq crossed'
  BY DEF Moves, CourseworkInv, ExamsInv
<1>2. ASSUME <<"exams", task[g].key>> \notin crossed'
      PROVE  Saving(g, exams'[task[g].key]) /\ exams'[task[g].key] = exams[task[g].key]
  BY <1>1, <1>2, AloneMeans DEF ExamAtWork
<1> QED
  BY <1>1, <1>2 DEF ExamAtWork, Saving, At, Assign, Differing

LEMMA OthersOnHomeworks ==
    ASSUME CourseworkInv, NEW h \in Handlers, Moves(h), \A w \in Homeworks : homeworks[w].exists =>
             /\ homeworks'[w].exists
             /\ homeworks'[w] = homeworks[w] \/ Alone(h, "homeworks", w)
    PROVE  \A g \in Handlers \ {h} : HomeworkAtWork(g)'
<1> SUFFICES ASSUME NEW g \in Handlers \ {h}, Changes(g), task[g].table = "homeworks"
             PROVE  HomeworkAtWork(g)'
  BY DEF Moves, HomeworkAtWork, Changes, Busy, At
<1>1. task'[g] = task[g] /\ HomeworkAtWork(g) /\ crossed \subseteq crossed'
  BY DEF Moves, CourseworkInv, HomeworksInv
<1>2. ASSUME <<"homeworks", task[g].key>> \notin crossed'
      PROVE  /\ Saving(g, homeworks'[task[g].key])
             /\ homeworks'[task[g].key] = homeworks[task[g].key]
  BY <1>1, <1>2, AloneMeans DEF HomeworkAtWork
<1> QED
  BY <1>1, <1>2 DEF HomeworkAtWork, Saving, At, Assign, Differing

LEMMA OthersOnSubmissions ==
    ASSUME CourseworkInv, NEW h \in Handlers, Moves(h), \A k \in Pairs :
             submissions[k].status # "absent" =>
               /\ submissions'[k].status # "absent"
               /\ submissions'[k] = submissions[k] \/ Alone(h, "submissions", k)
    PROVE  \A g \in Handlers \ {h} : SubmissionAtWork(g)'
<1> SUFFICES ASSUME NEW g \in Handlers \ {h}, Changes(g), task[g].table = "submissions"
             PROVE  SubmissionAtWork(g)'
  BY DEF Moves, SubmissionAtWork, Changes, Busy, At
<1>1. task'[g] = task[g] /\ SubmissionAtWork(g) /\ crossed \subseteq crossed'
  BY DEF Moves, CourseworkInv, SubmissionsInv
<1>2. ASSUME <<"submissions", task[g].key>> \notin crossed', Saves(g)
      PROVE  /\ Saving(g, submissions'[task[g].key])
             /\ submissions'[task[g].key] = submissions[task[g].key]
  BY <1>1, <1>2, AloneMeans DEF SubmissionAtWork
<1> QED
  BY <1>1, <1>2 DEF SubmissionAtWork, Saves, Saving, At, Assign, Differing

LEMMA OthersOnAttempts ==
    ASSUME CourseworkInv, NEW h \in Handlers, Moves(h), \A a \in AttemptIds :
             attempts[a].exam # None =>
               /\ attempts'[a].exam = attempts[a].exam /\ attempts'[a].student = attempts[a].student
               /\ attempts'[a].number = attempts[a].number
               /\ attempts'[a] = attempts[a] \/ Alone(h, "attempts", a)
    PROVE  \A g \in Handlers \ {h} : AttemptAtWork(g)'
<1> SUFFICES ASSUME NEW g \in Handlers \ {h}, Changes(g), task[g].table = "attempts"
             PROVE  AttemptAtWork(g)'
  BY DEF Moves, AttemptAtWork, Changes, Busy, At
<1>1. task'[g] = task[g] /\ AttemptAtWork(g) /\ crossed \subseteq crossed'
  BY DEF Moves, CourseworkInv, AttemptsInv
<1>2. ASSUME <<"attempts", task[g].key>> \notin crossed'
      PROVE  attempts'[task[g].key] = attempts[task[g].key]
  BY <1>1, <1>2, AloneMeans DEF AttemptAtWork
<1> QED
  BY <1>1, <1>2 DEF AttemptAtWork, Saves, At, Differing

LEMMA OthersOnStarts ==
    ASSUME CourseworkInv, NEW h \in Handlers, Moves(h),
           \A e \in Exams : exams[e].exists => exams'[e].exists
    PROVE  \A g \in Handlers \ {h} : StartAtWork(g)'
BY DEF CourseworkInv, AttemptsInv, Moves, StartAtWork, Busy, At
-----------------------------------------------------------------------------
(* Steps that leave a table alone.                                         *)

LEMMA ExamsKept ==
    ASSUME CourseworkInv, NEW h \in Handlers, Moves(h), exams' = exams,
           \A e \in Exams : asked'[e] = asked[e], ExamAtWork(h)'
    PROVE  ExamsInv'
<1>1. \A g \in Handlers : ExamAtWork(g)'
  BY OthersOnExams
<1>2. \A e \in Exams : ExamStands(e)'
  BY DEF CourseworkInv, ExamsInv, ExamStands, Moves
<1> QED
  BY <1>1, <1>2 DEF CourseworkInv, ExamsInv

LEMMA HomeworksKept ==
    ASSUME CourseworkInv, NEW h \in Handlers, Moves(h), homeworks' = homeworks,
           \A w \in Homeworks : asked'[w] = asked[w], HomeworkAtWork(h)'
    PROVE  HomeworksInv'
<1>1. \A g \in Handlers : HomeworkAtWork(g)'
  BY OthersOnHomeworks
<1>2. \A w \in Homeworks : HomeworkStands(w)'
  BY DEF CourseworkInv, HomeworksInv, HomeworkStands, Moves
<1> QED
  BY <1>1, <1>2 DEF CourseworkInv, HomeworksInv

LEMMA SubmissionsKept ==
    ASSUME CourseworkInv, NEW h \in Handlers, Moves(h), UNCHANGED <<submissions, sent, given>>,
           SubmissionAtWork(h)'
    PROVE  SubmissionsInv'
<1>1. \A g \in Handlers : SubmissionAtWork(g)'
  BY OthersOnSubmissions
<1>2. \A k \in Pairs : SubmissionIsLast(k)'
  BY DEF CourseworkInv, SubmissionsInv, SubmissionIsLast, Moves
<1>3. SentShape'
  BY DEF CourseworkInv, SubmissionsInv, SentShape
<1> QED
  BY <1>1, <1>2, <1>3 DEF CourseworkInv, SubmissionsInv

LEMMA AttemptsKept ==
    ASSUME CourseworkInv, NEW h \in Handlers, Moves(h), attempts' = attempts,
           \A e \in Exams : exams[e].exists => exams'[e].exists,
           AttemptAtWork(h)', StartAtWork(h)'
    PROVE  AttemptsInv'
<1>1. \A g \in Handlers : AttemptAtWork(g)' /\ StartAtWork(g)'
  BY OthersOnAttempts, OthersOnStarts
<1>2. \A a \in AttemptIds : ScoreMatches(a)'
  BY DEF CourseworkInv, AttemptsInv, ScoreMatches, Moves
<1> QED
  BY <1>1, <1>2 DEF CourseworkInv, AttemptsInv

\* h has not counted the attempts of a start.
NotInserting(h) == ~(At(h, "insert") /\ task[h].table = "starts")

LEMMA AttemptsAreFinite ==
    ASSUME NEW e, NEW s
    PROVE  /\ IsFiniteSet(AttemptsOf(e, s)) /\ Cardinality(AttemptsOf(e, s)) \in Nat
           /\ IsFiniteSet(Inserting(e, s)) /\ Cardinality(Inserting(e, s)) \in Nat
           /\ Cardinality(Handlers) \in Nat /\ Cardinality(Handlers) >= 1
<1>1. AttemptsOf(e, s) \subseteq AttemptIds /\ Inserting(e, s) \subseteq Handlers
  BY DEF AttemptsOf, Inserting
<1>2. Cardinality(Handlers) # 0
  BY CourseworkAssumption, FS_EmptySet
<1> QED
  BY <1>1, <1>2, CourseworkAssumption, FS_Subset, FS_CardinalityType

LEMMA OthersOnCounts ==
    ASSUME CourseworkInv, NEW h \in Handlers, Moves(h), NEW g \in Handlers \ {h},
           \A e \in Exams : exams[e].exists => exams'[e].limit = exams[e].limit,
           \A e \in Exams, s \in Students :
             AttemptsOf(e, s)' = AttemptsOf(e, s) \/ Alone(h, "starts", <<e, s>>)
    PROVE  CountedAtWork(g)'
<1>1. /\ task'[g] = task[g] /\ CountedAtWork(g) /\ StartAtWork(g) /\ crossed \subseteq crossed'
      /\ StepOfTable(g)
  BY DEF Moves, CourseworkInv, StartsInv, AttemptsInv, RequestsInv
<1> SUFFICES ASSUME At(g, "insert"), task[g].table = "starts",
                    <<"starts", <<task[g].row.exam, task[g].row.student>>>> \notin crossed'
             PROVE  CountedAtWork(g)'
  BY <1>1 DEF CountedAtWork, At
<1>2. PICK e \in Exams, s \in Students :
        /\ task[g].row.exam = e /\ task[g].row.student = s
        /\ task[g].key = <<e, s>> /\ exams[e].exists
  BY <1>1 DEF StartAtWork, At, Busy
<1>3. Changes(g)
  BY DEF Changes, Busy, At
<1>4. AttemptsOf(e, s)' = AttemptsOf(e, s)
  BY <1>2, <1>3, AloneMeans
<1>5. Cardinality(AttemptsOf(e, s)) < exams[e].limit
      /\ task[g].row.number = Cardinality(AttemptsOf(e, s)) + 1
  BY <1>1, <1>2 DEF CountedAtWork
<1>6. exams'[e].limit = exams[e].limit
  BY <1>2
<1>7. task'[g].row = task[g].row
  BY <1>1
<1>8. Cardinality(AttemptsOf(e, s)') < exams'[e].limit
      /\ task[g].row.number = Cardinality(AttemptsOf(e, s)') + 1
  BY <1>4, <1>5, <1>6
<1> QED
  BY <1>2, <1>7, <1>8 DEF CountedAtWork, AttemptsOf

LEMMA StartsKept ==
    ASSUME CourseworkInv, NEW h \in Handlers, Moves(h),
           \A a \in AttemptIds :
             /\ attempts'[a].exam = attempts[a].exam /\ attempts'[a].student = attempts[a].student
             /\ attempts'[a].number = attempts[a].number,
           \A e \in Exams :
             \/ exams'[e].exists = exams[e].exists /\ exams'[e].limit = exams[e].limit
             \/ ~exams[e].exists /\ exams'[e].limit \in Nat \ {0},
           NotInserting(h)'
    PROVE  StartsInv'
<1>1. \A e, s : AttemptsOf(e, s)' = AttemptsOf(e, s)
  BY DEF AttemptsOf
<1>2. \A g \in Handlers : CountedAtWork(g)'
  <2>1. CountedAtWork(h)'
    BY DEF NotInserting, CountedAtWork, At
  <2> QED
    BY <1>1, <2>1, OthersOnCounts
<1>3. ASSUME NEW e \in Exams, NEW s \in Students PROVE NumbersStand(e, s)' /\ StartsFit(e, s)'
  <2> DEFINE n == Cardinality(AttemptsOf(e, s))
             i == Cardinality(Inserting(e, s))
  <2>1. n \in Nat /\ i \in Nat /\ i' \in Nat /\ Cardinality(Handlers) \in Nat \ {0}
    <3>1. Inserting(e, s)' \subseteq Handlers
      BY DEF Inserting
    <3>2. i' \in Nat
      BY <3>1, CourseworkAssumption, FS_Subset, FS_CardinalityType
    <3> QED
      BY <3>2, AttemptsAreFinite
  <2>2. NumbersStand(e, s) /\ StartsFit(e, s) /\ crossed \subseteq crossed'
    BY DEF CourseworkInv, StartsInv, Moves
  <2>3. Inserting(e, s)' \subseteq Inserting(e, s)
    BY DEF Inserting, NotInserting, Moves, At
  <2>4. i' <= i
    BY <2>3, AttemptsAreFinite, FS_Subset
  <2>5. exams[e].limit \in Nat
    BY DEF CourseworkInv, ExamsInv, Exam
  <2>6. n' = n /\ AttemptsOf(e, s)' = AttemptsOf(e, s)
    BY <1>1
  <2>7. CASE exams'[e].exists = exams[e].exists /\ exams'[e].limit = exams[e].limit
    <3>1. StartsFit(e, s)'
      <4> SUFFICES ASSUME exams'[e].exists
                   PROVE  n' + i' <= exams'[e].limit + Cardinality(Handlers) - 1
        BY DEF StartsFit
      <4>1. n + i <= exams[e].limit + Cardinality(Handlers) - 1
        BY <2>2, <2>7 DEF StartsFit
      <4> HIDE DEF n, i
      <4> QED
        BY <2>1, <2>4, <2>5, <2>6, <2>7, <4>1
    <3>2. NumbersStand(e, s)'
      <4>1. AttemptsOf(e, s) \subseteq AttemptIds
        BY DEF AttemptsOf
      <4>2. {attempts'[a].number : a \in AttemptsOf(e, s)} = {attempts[a].number : a \in AttemptsOf(e, s)}
        BY <4>1
      <4> QED
        BY <2>2, <2>6, <2>7, <4>2 DEF NumbersStand
    <3> QED
      BY <3>1, <3>2
  <2>8. CASE ~exams[e].exists /\ exams'[e].limit \in Nat \ {0}
    <3>1. AttemptsOf(e, s) = {}
      BY <2>8, CourseworkAssumption DEF AttemptsOf, CourseworkInv, AttemptsInv
    <3>2. Inserting(e, s) = {}
      <4> SUFFICES ASSUME NEW g \in Inserting(e, s) PROVE FALSE
        OBVIOUS
      <4>1. StartAtWork(g) /\ Busy(g) /\ task[g].table = "starts" /\ task[g].key = <<e, s>>
        BY DEF Inserting, CourseworkInv, AttemptsInv, Busy, At
      <4>2. task[g].row.exam = e /\ exams[task[g].row.exam].exists
        BY <4>1 DEF StartAtWork
      <4> QED
        BY <2>8, <4>2
    <3>3. n' = 0 /\ i' = 0
      BY <2>3, <2>6, <3>1, <3>2, FS_EmptySet
    <3>4. StartsFit(e, s)'
      <4> SUFFICES n' + i' <= exams'[e].limit + Cardinality(Handlers) - 1
        BY DEF StartsFit
      <4> HIDE DEF n, i
      <4> QED
        BY <2>1, <2>8, <3>3
    <3>5. NumbersStand(e, s)'
      <4>1. AttemptsOf(e, s)' = {}
        BY <2>6, <3>1
      <4>2. {attempts'[a].number : a \in AttemptsOf(e, s)'} = {} /\ 1 .. n' = {}
        BY <3>3, <4>1
      <4>3. n' <= exams'[e].limit
        BY <2>8, <3>3
      <4> QED
        BY <4>2, <4>3 DEF NumbersStand
    <3> QED
      BY <3>4, <3>5
  <2> QED
    BY <2>7, <2>8
<1> QED
  BY <1>2, <1>3 DEF StartsInv

AtWork(h) ==
    /\ ExamAtWork(h) /\ HomeworkAtWork(h) /\ SubmissionAtWork(h)
    /\ AttemptAtWork(h) /\ StartAtWork(h)

\* A step of h that only changes its task.
LEMMA TablesKept ==
    ASSUME CourseworkInv, NEW h \in Handlers, Moves(h),
           UNCHANGED <<exams, attempts, homeworks, submissions, asked, sent, given>>,
           AtWork(h)', NotInserting(h)'
    PROVE  CourseworkInv'
<1>1. AskedShape'
  BY DEF CourseworkInv, AskedShape
<1> QED
  BY <1>1, ExamsKept, HomeworksKept, SubmissionsKept, AttemptsKept, StartsKept
  DEF CourseworkInv, Moves, AtWork

\* A request that has ended, or inserts below its row, knows nothing.
LEMMA NothingAtWork ==
    ASSUME NEW h, Busy(h)' => At(h, "insertKids")', task'[h].table # "starts" \/ ~Busy(h)'
    PROVE  AtWork(h)' /\ NotInserting(h)'
BY DEF AtWork, NotInserting, ExamAtWork, HomeworkAtWork, SubmissionAtWork, AttemptAtWork,
   StartAtWork, Changes, Busy, At
-----------------------------------------------------------------------------
(* Requests that arrive.                                                   *)

LEMMA BeginBecomes ==
    ASSUME RequestsInv, NEW h \in Handlers, NEW step, NEW table, NEW key, NEW entity, NEW dto,
           Begin(h, step, table, key, entity, dto)
    PROVE  Becomes(h, step, table, key, Assign(entity, dto), dto, {})
BY ReplacedTask DEF Begin, RequestsInv

LEMMA ExamDtoAssigned ==
    ASSUME NEW exam \in Exam, NEW dto \in ExamDtos
    PROVE  /\ Assign(exam, dto) \in Exam
           /\ Assign(exam, dto).exists = exam.exists /\ Assign(exam, dto).limit = exam.limit
           /\ DOMAIN Assign(exam, dto) = DOMAIN exam
<1>1. Levels \subseteq Nat
  BY CourseworkAssumption
<1>2. ASSUME NEW l \in Levels, dto = [level |-> l]
      PROVE  /\ Assign(exam, dto) \in Exam
             /\ Assign(exam, dto).exists = exam.exists /\ Assign(exam, dto).limit = exam.limit
  BY <1>1, <1>2 DEF Assign, Exam
<1>3. ASSUME dto = [published |-> TRUE]
      PROVE  /\ Assign(exam, dto) \in Exam
             /\ Assign(exam, dto).exists = exam.exists /\ Assign(exam, dto).limit = exam.limit
  BY <1>3 DEF Assign, Exam
<1>4. ASSUME dto = [deleted |-> TRUE]
      PROVE  /\ Assign(exam, dto) \in Exam
             /\ Assign(exam, dto).exists = exam.exists /\ Assign(exam, dto).limit = exam.limit
  BY <1>4 DEF Assign, Exam
<1> QED
  BY <1>2, <1>3, <1>4 DEF ExamDtos, Assign

LEMMA BeginOnExams ==
    ASSUME CourseworkInv, NEW h \in Handlers, ~Busy(h), NEW e \in LiveExams, NEW dto \in ExamDtos,
           NEW step \in {"load", "softLoad"}, step = "softLoad" => dto = [deleted |-> TRUE],
           Begin(h, step, "exams", e, exams[e], dto), UNCHANGED <<tables, asked, sent, given>>
    PROVE  CourseworkInv'
<1>1. Becomes(h, step, "exams", e, Assign(exams[e], dto), dto, {})
  BY BeginBecomes DEF CourseworkInv
<1>2. StepOfTable(h)'
  BY <1>1 DEF Becomes, StepOfTable, Saves, At
<1>3. Moves(h)
  BY <1>2, BeginMoves DEF CourseworkInv
<1>4. e \in Exams /\ exams[e].exists /\ exams[e] \in Exam /\ exams' = exams
  BY DEF LiveExams, CourseworkInv, ExamsInv, tables
<1>5. ExamAtWork(h)'
  <2>1. Saving(h, exams[e])'
    BY <1>1, <1>4 DEF Becomes, Saving, At, Assign
  <2> QED
    BY <1>1, <1>4, <2>1, ExamDtoAssigned DEF Becomes, ExamAtWork, Saving, At, Assign, Differing
<1>6. AtWork(h)' /\ NotInserting(h)'
  BY <1>1, <1>5 DEF Becomes, AtWork, NotInserting, HomeworkAtWork, SubmissionAtWork, AttemptAtWork,
     StartAtWork, At
<1> QED
  BY <1>3, <1>6, TablesKept DEF tables

LEMMA HomeworkDtoAssigned ==
    ASSUME NEW homework \in Homework, NEW dto \in HomeworkDtos
    PROVE  /\ Assign(homework, dto) \in Homework
           /\ Assign(homework, dto).exists = homework.exists
           /\ DOMAIN Assign(homework, dto) = DOMAIN homework
<1>1. Levels \subseteq Nat
  BY CourseworkAssumption
<1>2. ASSUME NEW l \in Levels, dto = [level |-> l]
      PROVE  /\ Assign(homework, dto) \in Homework
             /\ Assign(homework, dto).exists = homework.exists
  BY <1>1, <1>2 DEF Assign, Homework
<1>3. ASSUME dto = [deleted |-> TRUE]
      PROVE  /\ Assign(homework, dto) \in Homework
             /\ Assign(homework, dto).exists = homework.exists
  BY <1>3 DEF Assign, Homework
<1> QED
  BY <1>2, <1>3 DEF HomeworkDtos, Assign

LEMMA BeginOnHomeworks ==
    ASSUME CourseworkInv, NEW h \in Handlers, ~Busy(h), NEW w \in LiveHomeworks,
           NEW dto \in HomeworkDtos, NEW step \in {"load", "softLoad"},
           step = "softLoad" => dto = [deleted |-> TRUE],
           Begin(h, step, "homeworks", w, homeworks[w], dto), UNCHANGED <<tables, asked, sent, given>>
    PROVE  CourseworkInv'
<1>1. Becomes(h, step, "homeworks", w, Assign(homeworks[w], dto), dto, {})
  BY BeginBecomes DEF CourseworkInv
<1>2. StepOfTable(h)'
  BY <1>1 DEF Becomes, StepOfTable, Saves, At
<1>3. Moves(h)
  BY <1>2, BeginMoves DEF CourseworkInv
<1>4. /\ w \in Homeworks /\ homeworks[w].exists /\ homeworks[w] \in Homework
      /\ homeworks' = homeworks
  BY DEF LiveHomeworks, CourseworkInv, HomeworksInv, tables
<1>5. HomeworkAtWork(h)'
  <2>1. Saving(h, homeworks[w])'
    BY <1>1, <1>4 DEF Becomes, Saving, At, Assign
  <2> QED
    BY <1>1, <1>4, <2>1, HomeworkDtoAssigned
    DEF Becomes, HomeworkAtWork, Saving, At, Assign, Differing
<1>6. AtWork(h)' /\ NotInserting(h)'
  BY <1>1, <1>5 DEF Becomes, AtWork, NotInserting, ExamAtWork, SubmissionAtWork, AttemptAtWork,
     StartAtWork, At
<1> QED
  BY <1>3, <1>6, TablesKept DEF tables

LEMMA SubmissionDtoAssigned ==
    ASSUME NEW row \in Submission, NEW dto \in HandInDtos \cup GradeDtos
    PROVE  /\ Assign(row, dto) \in Submission
           /\ Assign(row, dto).status # "absent"
           /\ DOMAIN Assign(row, dto) = DOMAIN row
<1>1. Scores \subseteq Nat
  BY CourseworkAssumption
<1>2. ASSUME NEW c \in Contents, dto = [content |-> c, status |-> "submitted"]
      PROVE  Assign(row, dto) \in Submission /\ Assign(row, dto).status # "absent"
  BY <1>2 DEF Assign, Submission
<1>3. ASSUME NEW n \in Scores, dto = [score |-> n, status |-> "graded"]
      PROVE  Assign(row, dto) \in Submission /\ Assign(row, dto).status # "absent"
  BY <1>1, <1>3 DEF Assign, Submission
<1> QED
  BY <1>2, <1>3 DEF HandInDtos, GradeDtos, Assign

LEMMA BeginOnSubmissions ==
    ASSUME CourseworkInv, NEW h \in Handlers, SubmitFind(h) \/ GradeFind(h)
    PROVE  CourseworkInv'
<1>1. /\ ~Busy(h) /\ UNCHANGED <<tables, asked, sent, given>>
      /\ submissions \in [Pairs -> Submission] /\ NoSubmission \in Submission
  BY DEF SubmitFind, GradeFind, Arrives, CourseworkInv, SubmissionsInv, Submission, NoSubmission
<1>2. ASSUME NEW k \in Pairs, NEW row \in Submission, NEW dto \in HandInDtos \cup GradeDtos,
             NEW step \in {"look", "load"}, Begin(h, step, "submissions", k, row, dto),
             step = "look" => dto \in HandInDtos /\ row = NoSubmission,
             step = "load" => row = submissions[k] /\ submissions[k].status # "absent"
      PROVE  CourseworkInv'
  <2>1. Becomes(h, step, "submissions", k, Assign(row, dto), dto, {})
    BY <1>2, BeginBecomes DEF CourseworkInv
  <2>2. StepOfTable(h)'
    BY <2>1 DEF Becomes, StepOfTable, Saves, At
  <2>3. Moves(h)
    BY <1>1, <1>2, <2>2, BeginMoves DEF CourseworkInv
  <2>4. submissions' = submissions
    BY <1>1 DEF tables
  <2>5. SubmissionAtWork(h)'
    <3>1. step = "load" => Saving(h, submissions[k])'
      BY <1>2, <2>1, <2>4 DEF Becomes, Saving, At, Assign
    <3> QED
      BY <1>2, <2>1, <2>4, <3>1, SubmissionDtoAssigned
      DEF Becomes, SubmissionAtWork, Saves, Saving, At, Assign, Differing, NoSubmission
  <2>6. AtWork(h)' /\ NotInserting(h)'
    BY <2>1, <2>5 DEF Becomes, AtWork, NotInserting, ExamAtWork, HomeworkAtWork, AttemptAtWork,
       StartAtWork, At
  <2> QED
    BY <1>1, <2>3, <2>6, TablesKept DEF tables
<1>3. CASE SubmitFind(h)
  <2>1. PICK w \in LiveHomeworks, s \in Students, c \in Contents :
          Begin(h, "look", "submissions", <<w, s>>, NoSubmission, Submitted(c))
    BY <1>3 DEF SubmitFind
  <2>2. Submitted(c) \in HandInDtos /\ <<w, s>> \in Pairs
    BY DEF Submitted, HandInDtos, Pairs, LiveHomeworks
  <2> QED
    BY <1>1, <1>2, <2>1, <2>2
<1>4. CASE GradeFind(h)
  <2>1. PICK k \in Pairs, n \in Scores :
          /\ submissions[k].status # "absent"
          /\ Begin(h, "load", "submissions", k, submissions[k], [score |-> n, status |-> "graded"])
    BY <1>4 DEF GradeFind
  <2>2. [score |-> n, status |-> "graded"] \in GradeDtos
    BY DEF GradeDtos
  <2> QED
    BY <1>1, <1>2, <2>1, <2>2
<1> QED
  BY <1>3, <1>4

LEMMA BeginOnAttempts ==
    ASSUME CourseworkInv, NEW h \in Handlers, AttemptFind(h) PROVE CourseworkInv'
<1>1. PICK a \in AttemptIds, sheet \in Sheets :
        /\ attempts[a].exam # None
        /\ Begin(h, "gradeSheet", "attempts", a, attempts[a], [answers |-> sheet])
  BY DEF AttemptFind
<1>2. ~Busy(h) /\ UNCHANGED <<tables, asked, sent, given>> /\ DOMAIN attempts[a] = AttemptColumns
  BY DEF AttemptFind, Arrives, CourseworkInv, AttemptsInv
<1> DEFINE dto == [answers |-> sheet]
<1>3. Becomes(h, "gradeSheet", "attempts", a, Assign(attempts[a], dto), dto, {})
  BY <1>1, BeginBecomes DEF CourseworkInv
<1>4. StepOfTable(h)'
  BY <1>3 DEF Becomes, StepOfTable, At
<1>5. Moves(h)
  BY <1>1, <1>2, <1>4, BeginMoves DEF CourseworkInv
<1>6. DOMAIN dto = {"answers"}
  OBVIOUS
<1>7. /\ DOMAIN Assign(attempts[a], dto) = AttemptColumns
      /\ Assign(attempts[a], dto).exam = attempts[a].exam
      /\ Assign(attempts[a], dto).student = attempts[a].student
      /\ Assign(attempts[a], dto).number = attempts[a].number
  BY <1>2, <1>6 DEF Assign, AttemptColumns
<1>8. attempts' = attempts
  BY <1>2 DEF tables
<1>9. AttemptAtWork(h)'
  BY <1>1, <1>3, <1>6, <1>7, <1>8 DEF Becomes, AttemptAtWork, Saves, At
<1>10. AtWork(h)' /\ NotInserting(h)'
  BY <1>3, <1>9 DEF Becomes, AtWork, NotInserting, ExamAtWork, HomeworkAtWork, SubmissionAtWork,
     StartAtWork, At
<1> QED
  BY <1>2, <1>5, <1>10, TablesKept DEF tables

LEMMA BeginOnStarts ==
    ASSUME CourseworkInv, NEW h \in Handlers, StartFind(h) PROVE CourseworkInv'
<1>1. PICK e \in LiveExams, s \in Students :
        Begin(h, "count", "starts", <<e, s>>, NoAttempt, [exam |-> e, student |-> s])
  BY DEF StartFind
<1>2. ~Busy(h) /\ UNCHANGED <<tables, asked, sent, given>> /\ e \in Exams /\ exams[e].exists
  BY DEF StartFind, Arrives, LiveExams
<1> DEFINE dto == [exam |-> e, student |-> s]
           row == Assign(NoAttempt, dto)
<1>3. Becomes(h, "count", "starts", <<e, s>>, row, dto, {})
  BY <1>1, BeginBecomes DEF CourseworkInv
<1>4. StepOfTable(h)'
  BY <1>3 DEF Becomes, StepOfTable, At
<1>5. Moves(h)
  BY <1>1, <1>2, <1>4, BeginMoves DEF CourseworkInv
<1>6. /\ DOMAIN row = AttemptColumns /\ row.submitted = FALSE
      /\ row.exam = e /\ row.student = s
  BY DEF Assign, NoAttempt, AttemptColumns
<1> HIDE DEF row
<1>7. StartAtWork(h)'
  BY <1>2, <1>3, <1>6 DEF Becomes, StartAtWork, tables
<1>8. AtWork(h)' /\ NotInserting(h)'
  BY <1>3, <1>7 DEF Becomes, AtWork, NotInserting, ExamAtWork, HomeworkAtWork, SubmissionAtWork,
     AttemptAtWork, At
<1> QED
  BY <1>2, <1>5, <1>8, TablesKept DEF tables

LEMMA RequestStep ==
    ASSUME CourseworkInv, NEW h \in Handlers,
           \/ EditExam(h) \/ RemoveExam(h) \/ QuestionsFind(h) \/ StartFind(h) \/ AttemptFind(h)
           \/ EditHomework(h) \/ SubmitFind(h) \/ GradeFind(h)
    PROVE  CourseworkInv'
<1>1. CASE EditExam(h)
  <2>1. ~Busy(h) /\ UNCHANGED <<tables, asked, sent, given>>
    BY <1>1 DEF EditExam, Arrives
  <2>2. PICK e \in LiveExams :
          \/ \E level \in Levels : Begin(h, "load", "exams", e, exams[e], [level |-> level])
          \/ Begin(h, "load", "exams", e, exams[e], [published |-> TRUE])
    BY <1>1 DEF EditExam
  <2>3. [published |-> TRUE] \in ExamDtos /\ \A level \in Levels : [level |-> level] \in ExamDtos
    BY DEF ExamDtos
  <2> QED
    BY <2>1, <2>2, <2>3, BeginOnExams
<1>2. CASE RemoveExam(h)
  <2>1. ~Busy(h) /\ UNCHANGED <<tables, asked, sent, given>> /\ [deleted |-> TRUE] \in ExamDtos
    BY <1>2 DEF RemoveExam, Arrives, ExamDtos
  <2> QED
    BY <1>2, <2>1, BeginOnExams DEF RemoveExam
<1>3. CASE QuestionsFind(h)
  <2>1. PICK e \in LiveExams : Begin(h, "insertKids", "exams", e, exams[e], <<>>)
    BY <1>3 DEF QuestionsFind
  <2>2. ~Busy(h) /\ UNCHANGED <<tables, asked, sent, given>>
    BY <1>3 DEF QuestionsFind, Arrives
  <2>3. Becomes(h, "insertKids", "exams", e, Assign(exams[e], <<>>), <<>>, {})
    BY <2>1, BeginBecomes DEF CourseworkInv
  <2>4. StepOfTable(h)' /\ At(h, "insertKids")' /\ task'[h].table = "exams"
    BY <2>3 DEF Becomes, StepOfTable, At
  <2>5. Moves(h)
    BY <2>1, <2>2, <2>4, BeginMoves DEF CourseworkInv
  <2> QED
    BY <2>2, <2>4, <2>5, NothingAtWork, TablesKept DEF tables
<1>4. CASE EditHomework(h)
  <2>1. ~Busy(h) /\ UNCHANGED <<tables, asked, sent, given>>
    BY <1>4 DEF EditHomework, Arrives
  <2>2. PICK w \in LiveHomeworks :
          \/ \E level \in Levels :
               Begin(h, "load", "homeworks", w, homeworks[w], [level |-> level])
          \/ Begin(h, "softLoad", "homeworks", w, homeworks[w], [deleted |-> TRUE])
    BY <1>4 DEF EditHomework
  <2>3. [deleted |-> TRUE] \in HomeworkDtos /\ \A l \in Levels : [level |-> l] \in HomeworkDtos
    BY DEF HomeworkDtos
  <2> QED
    BY <2>1, <2>2, <2>3, BeginOnHomeworks
<1> QED
  BY <1>1, <1>2, <1>3, <1>4, BeginOnStarts, BeginOnAttempts, BeginOnSubmissions
-----------------------------------------------------------------------------
(* Requests that go on, or end, and change no table.                       *)

\* The tables and histories that the invariant speaks of.
RowsStand == UNCHANGED <<exams, attempts, homeworks, submissions, asked, sent, given, crossed>>

LEMMA Ends ==
    ASSUME CourseworkInv, NEW h \in Handlers, Busy(h), Finish(h), RowsStand
    PROVE  CourseworkInv'
<1>1. Moves(h) /\ task'[h].at = "idle"
  BY FinishMoves DEF CourseworkInv, RowsStand
<1>2. AtWork(h)' /\ NotInserting(h)'
  BY <1>1, NothingAtWork DEF Busy
<1> QED
  BY <1>1, <1>2, TablesKept DEF RowsStand

LEMMA HandlerFailsStep ==
    ASSUME CourseworkInv, NEW h \in Handlers, HandlerFails(h) PROVE CourseworkInv'
BY Ends DEF HandlerFails, RowsStand, tables, history

LEMMA QuestionsInsertStep ==
    ASSUME CourseworkInv, NEW h \in Handlers, QuestionsInsert(h) PROVE CourseworkInv'
<1>1. Busy(h) /\ Finish(h) /\ RowsStand
  BY DEF QuestionsInsert, At, Busy, RowsStand, history
<1> QED
  BY <1>1, Ends

\* The SELECT of a save or removal was fine: h will write the columns in dirty.
\* What h knows of its row, when its task has just become what it is.
LEMMA ExamKnown ==
    ASSUME NEW h, NEW at, NEW e \in Exams, NEW row \in Exam, NEW dto \in ExamDtos, NEW dirty,
           Becomes(h, at, "exams", e, row, dto, dirty), exams'[e].exists, row.exists,
           row.limit = exams'[e].limit, at = "softLoad" => dto = [deleted |-> TRUE],
           <<"exams", e>> \notin crossed' =>
             /\ row = Assign(exams'[e], dto)
             /\ at = "write" => Differing(row, exams'[e]) \subseteq dirty
    PROVE  ExamAtWork(h)'
BY DEF Becomes, ExamAtWork, Saving, At, Assign, Differing

LEMMA HomeworkKnown ==
    ASSUME NEW h, NEW at, NEW w \in Homeworks, NEW row \in Homework, NEW dto \in HomeworkDtos,
           NEW dirty, Becomes(h, at, "homeworks", w, row, dto, dirty), homeworks'[w].exists,
           row.exists, at = "softLoad" => dto = [deleted |-> TRUE],
           <<"homeworks", w>> \notin crossed' =>
             /\ row = Assign(homeworks'[w], dto)
             /\ at = "write" => Differing(row, homeworks'[w]) \subseteq dirty
    PROVE  HomeworkAtWork(h)'
BY DEF Becomes, HomeworkAtWork, Saving, At, Assign, Differing

LEMMA SubmissionKnown ==
    ASSUME NEW h, NEW at \in {"load", "write"}, NEW k \in Pairs, NEW row \in Submission,
           NEW dto \in HandInDtos \cup GradeDtos, NEW dirty,
           Becomes(h, at, "submissions", k, row, dto, dirty),
           submissions'[k].status # "absent", row.status # "absent",
           <<"submissions", k>> \notin crossed' =>
             /\ row = Assign(submissions'[k], dto)
             /\ at = "write" => Differing(row, submissions'[k]) \subseteq dirty
    PROVE  SubmissionAtWork(h)'
BY DEF Becomes, SubmissionAtWork, Saves, Saving, At, Assign, Differing

LEMMA ToWrite ==
    ASSUME CourseworkInv, NEW h \in Handlers, At(h, "load") \/ At(h, "softLoad"), RowsStand,
           NEW dirty, task' = [task EXCEPT ![h].at = "write", ![h].dirty = dirty],
           At(h, "load") => dirty = Differing(task[h].row, Stored(task[h].table, task[h].key)),
           At(h, "softLoad") => dirty = {"deleted"}
    PROVE  CourseworkInv'
<1> DEFINE t == task[h]
<1>1. Replaced(h) /\ Becomes(h, "write", t.table, t.key, t.row, t.dto, dirty)
  BY NextStatement DEF CourseworkInv, RequestsInv
<1>2. StepOfTable(h) /\ Busy(h) /\ Changes(h)
  BY DEF CourseworkInv, RequestsInv, At, Busy, Changes
<1>3. StepOfTable(h)' /\ t.table \in {"exams", "homeworks", "attempts", "submissions"}
  BY <1>1, <1>2 DEF StepOfTable, Becomes, Saves, At
<1>4. Moves(h)
  BY <1>1, <1>2, <1>3, GoesOnMoves DEF CourseworkInv, RowsStand, Becomes
<1>5. /\ ExamAtWork(h) /\ HomeworkAtWork(h) /\ SubmissionAtWork(h) /\ AttemptAtWork(h)
      /\ exams \in [Exams -> Exam] /\ homeworks \in [Homeworks -> Homework]
  BY DEF CourseworkInv, ExamsInv, HomeworksInv, SubmissionsInv, AttemptsInv
<1>6. CASE t.table = "exams"
  <2>1. ASSUME <<"exams", t.key>> \notin crossed
        PROVE  Differing(t.row, exams[t.key]) \subseteq dirty
    <3>1. CASE At(h, "load")
      BY <1>6, <3>1 DEF Stored
    <3>2. CASE At(h, "softLoad")
      <4>1. t.row = Assign(exams[t.key], [deleted |-> TRUE])
        BY <1>2, <1>5, <1>6, <2>1, <3>2 DEF ExamAtWork, Saving
      <4> QED
        BY <3>2, <4>1 DEF Differing, Assign
    <3> QED
      BY <3>1, <3>2
  <2>2. ExamAtWork(h)'
    <3>1. /\ t.key \in Exams /\ t.row \in Exam /\ t.dto \in ExamDtos
          /\ exams[t.key].exists /\ t.row.exists /\ t.row.limit = exams[t.key].limit
          /\ <<"exams", t.key>> \notin crossed => t.row = Assign(exams[t.key], t.dto)
      BY <1>2, <1>5, <1>6 DEF ExamAtWork, Saving
    <3> HIDE DEF t
    <3>2. exams' = exams /\ crossed' = crossed
      BY DEF RowsStand
    <3> QED
      BY <1>1, <1>6, <2>1, <3>1, <3>2, ExamKnown
  <2>3. AtWork(h)' /\ NotInserting(h)'
    BY <1>1, <1>6, <2>2 DEF Becomes, AtWork, NotInserting, HomeworkAtWork, SubmissionAtWork,
       AttemptAtWork, StartAtWork, At
  <2> QED
    BY <1>4, <2>3, TablesKept DEF RowsStand
<1>7. CASE t.table = "homeworks"
  <2>1. ASSUME <<"homeworks", t.key>> \notin crossed
        PROVE  Differing(t.row, homeworks[t.key]) \subseteq dirty
    <3>1. CASE At(h, "load")
      BY <1>7, <3>1 DEF Stored
    <3>2. CASE At(h, "softLoad")
      <4>1. t.row = Assign(homeworks[t.key], [deleted |-> TRUE])
        BY <1>2, <1>5, <1>7, <2>1, <3>2 DEF HomeworkAtWork, Saving
      <4> QED
        BY <3>2, <4>1 DEF Differing, Assign
    <3> QED
      BY <3>1, <3>2
  <2>2. HomeworkAtWork(h)'
    <3>1. /\ t.key \in Homeworks /\ t.row \in Homework /\ t.dto \in HomeworkDtos
          /\ homeworks[t.key].exists /\ t.row.exists
          /\ <<"homeworks", t.key>> \notin crossed => t.row = Assign(homeworks[t.key], t.dto)
      BY <1>2, <1>5, <1>7 DEF HomeworkAtWork, Saving
    <3> HIDE DEF t
    <3>2. homeworks' = homeworks /\ crossed' = crossed
      BY DEF RowsStand
    <3> QED
      BY <1>1, <1>7, <2>1, <3>1, <3>2, HomeworkKnown
  <2>3. AtWork(h)' /\ NotInserting(h)'
    BY <1>1, <1>7, <2>2 DEF Becomes, AtWork, NotInserting, ExamAtWork, SubmissionAtWork,
       AttemptAtWork, StartAtWork, At
  <2> QED
    BY <1>4, <2>3, TablesKept DEF RowsStand
<1>8. CASE t.table = "submissions"
  <2>1. At(h, "load") /\ dirty = Differing(t.row, submissions[t.key])
    BY <1>2, <1>8 DEF StepOfTable, Saves, At, Stored
  <2>2. SubmissionAtWork(h)'
    <3>1. /\ t.key \in Pairs /\ t.row \in Submission /\ t.dto \in HandInDtos \cup GradeDtos
          /\ submissions[t.key].status # "absent" /\ t.row.status # "absent"
          /\ <<"submissions", t.key>> \notin crossed => t.row = Assign(submissions[t.key], t.dto)
      BY <1>2, <1>5, <1>8, <2>1 DEF SubmissionAtWork, Saves, Saving
    <3> HIDE DEF t
    <3>2. submissions' = submissions /\ crossed' = crossed
      BY DEF RowsStand
    <3> QED
      BY <1>1, <1>8, <2>1, <3>1, <3>2, SubmissionKnown DEF Differing
  <2>3. AtWork(h)' /\ NotInserting(h)'
    BY <1>1, <1>8, <2>2 DEF Becomes, AtWork, NotInserting, ExamAtWork, HomeworkAtWork,
       AttemptAtWork, StartAtWork, At
  <2> QED
    BY <1>4, <2>3, TablesKept DEF RowsStand
<1>9. CASE t.table = "attempts"
  <2>1. At(h, "load") /\ dirty = Differing(t.row, attempts[t.key])
    BY <1>2, <1>9 DEF StepOfTable, Saves, At, Stored
  <2>2. AttemptAtWork(h)'
    BY <1>1, <1>2, <1>5, <1>9, <2>1 DEF Becomes, AttemptAtWork, Saves, At, RowsStand, Differing
  <2>3. AtWork(h)' /\ NotInserting(h)'
    BY <1>1, <1>9, <2>2 DEF Becomes, AtWork, NotInserting, ExamAtWork, HomeworkAtWork,
       SubmissionAtWork, StartAtWork, At
  <2> QED
    BY <1>4, <2>3, TablesKept DEF RowsStand
<1> QED
  BY <1>3, <1>6, <1>7, <1>8, <1>9

LEMMA SoftRemoveLoadStep ==
    ASSUME CourseworkInv, NEW h \in Handlers, SoftRemoveLoad(h) PROVE CourseworkInv'
<1>1. At(h, "softLoad") /\ Busy(h) /\ ~At(h, "load") /\ RowsStand
  BY DEF SoftRemoveLoad, At, Busy, RowsStand, tables, history
<1>2. Finish(h) \/ task' = [task EXCEPT ![h].at = "write", ![h].dirty = {"deleted"}]
  BY DEF SoftRemoveLoad
<1> QED
  BY <1>1, <1>2, Ends, ToWrite

LEMMA SubmitLookStep ==
    ASSUME CourseworkInv, NEW h \in Handlers, SubmitLook(h) PROVE CourseworkInv'
<1> DEFINE t == task[h]
<1>1. At(h, "look") /\ Busy(h) /\ Changes(h) /\ RowsStand /\ t.table = "submissions"
      /\ StepOfTable(h)
  BY DEF SubmitLook, At, Busy, Changes, RowsStand, tables, history, CourseworkInv, RequestsInv,
     StepOfTable, Saves
<1>2. SubmissionAtWork(h) /\ submissions \in [Pairs -> Submission]
  BY DEF CourseworkInv, SubmissionsInv
<1>3. ASSUME NEW at \in {"insert", "load"}, NEW row, Replaced(h),
             Becomes(h, at, t.table, t.key, row, t.dto, t.dirty), SubmissionAtWork(h)'
      PROVE  CourseworkInv'
  <2>1. StepOfTable(h)'
    BY <1>1, <1>3 DEF StepOfTable, Becomes, Saves, At
  <2>2. Moves(h)
    BY <1>1, <1>3, <2>1, GoesOnMoves DEF CourseworkInv, RowsStand, Becomes
  <2>3. AtWork(h)' /\ NotInserting(h)'
    BY <1>1, <1>3 DEF Becomes, AtWork, NotInserting, ExamAtWork, HomeworkAtWork,
       AttemptAtWork, StartAtWork, At
  <2> QED
    BY <1>1, <2>2, <2>3, TablesKept DEF RowsStand
<1>4. CASE submissions[t.key].status = "absent"
  <2>1. task' = [task EXCEPT ![h].at = "insert"]
    BY <1>4 DEF SubmitLook, Goto
  <2>2. Replaced(h) /\ Becomes(h, "insert", t.table, t.key, t.row, t.dto, t.dirty)
    BY <2>1, NextStatement DEF CourseworkInv, RequestsInv
  <2>3. SubmissionAtWork(h)'
    BY <1>1, <1>2, <2>2 DEF Becomes, SubmissionAtWork, Saves, At
  <2> QED
    BY <1>3, <2>2, <2>3
<1>5. CASE submissions[t.key].status # "absent"
  <2> DEFINE row == HandedIn(submissions[t.key], t.dto)
  <2>1. task' = [task EXCEPT ![h].at = "load", ![h].row = row]
    BY <1>5 DEF SubmitLook
  <2>2. row = Assign(submissions[t.key], t.dto)
    BY DEF HandedIn
  <2> HIDE DEF row
  <2>3. Replaced(h) /\ Becomes(h, "load", t.table, t.key, row, t.dto, t.dirty)
    BY <2>1, NextStatement DEF CourseworkInv, RequestsInv
  <2>4. t.key \in Pairs /\ t.dto \in HandInDtos
    BY <1>1, <1>2 DEF SubmissionAtWork
  <2>5. row \in Submission /\ row.status # "absent"
    BY <1>2, <2>2, <2>4, SubmissionDtoAssigned
  <2>6. SubmissionAtWork(h)'
    BY <1>1, <1>5, <2>2, <2>3, <2>4, <2>5
    DEF Becomes, SubmissionAtWork, Saving, Saves, At, RowsStand
  <2> QED
    BY <1>3, <2>3, <2>6
<1> QED
  BY <1>4, <1>5

LEMMA SheetGraded ==
    ASSUME NEW row, DOMAIN row = AttemptColumns
    PROVE  LET new == Graded(row) IN
           /\ DOMAIN new = AttemptColumns /\ new.exam = row.exam /\ new.student = row.student
           /\ new.number = row.number /\ new.submitted = TRUE /\ new.score = Worth(new.answers)
BY DEF Graded, AttemptColumns

LEMMA AttemptGradeStep ==
    ASSUME CourseworkInv, NEW h \in Handlers, AttemptGrade(h) PROVE CourseworkInv'
<1> DEFINE t == task[h]
<1>1. At(h, "gradeSheet") /\ Busy(h) /\ Changes(h) /\ RowsStand /\ t.table = "attempts"
      /\ StepOfTable(h)
  BY DEF AttemptGrade, At, Busy, Changes, RowsStand, tables, history, CourseworkInv, RequestsInv,
     StepOfTable, Saves
<1>2. CASE Finish(h)
  BY <1>1, <1>2, Ends
<1>3. CASE task' = [task EXCEPT ![h].at = "load", ![h].row = Graded(t.row)]
  <2>1. AttemptAtWork(h)
    BY DEF CourseworkInv, AttemptsInv
  <2>2. DOMAIN t.row = AttemptColumns
    BY <1>1, <2>1 DEF AttemptAtWork
  <2> DEFINE new == Graded(t.row)
  <2>3. /\ DOMAIN new = AttemptColumns /\ new.exam = t.row.exam /\ new.student = t.row.student
        /\ new.number = t.row.number /\ new.submitted = TRUE /\ new.score = Worth(new.answers)
    BY <2>2, SheetGraded
  <2> HIDE DEF new
  <2>4. Replaced(h) /\ Becomes(h, "load", t.table, t.key, new, t.dto, t.dirty)
    BY <1>3, NextStatement DEF CourseworkInv, RequestsInv, new
  <2>5. AttemptAtWork(h)'
    BY <1>1, <2>1, <2>3, <2>4 DEF Becomes, AttemptAtWork, Saves, At, RowsStand
  <2>6. StepOfTable(h)'
    BY <1>1, <2>4 DEF StepOfTable, Becomes, Saves, At
  <2>7. Moves(h)
    BY <1>1, <2>4, <2>6, GoesOnMoves DEF CourseworkInv, RowsStand, Becomes
  <2>8. AtWork(h)' /\ NotInserting(h)'
    BY <1>1, <2>4, <2>5 DEF Becomes, AtWork, NotInserting, ExamAtWork, HomeworkAtWork,
       SubmissionAtWork, StartAtWork, At
  <2> QED
    BY <1>1, <2>7, <2>8, TablesKept DEF RowsStand
<1> QED
  BY <1>2, <1>3 DEF AttemptGrade
-----------------------------------------------------------------------------
(* Starts of an attempt.                                                   *)

LEMMA NumberedRow ==
    ASSUME NEW row, DOMAIN row = AttemptColumns, NEW n
    PROVE  LET new == [row EXCEPT !.number = n] IN
           /\ DOMAIN new = AttemptColumns /\ new.exam = row.exam /\ new.student = row.student
           /\ new.number = n /\ new.submitted = row.submitted
BY DEF AttemptColumns

\* A start that found fewer attempts than the exam allows is one of those about to insert.
LEMMA StartCounted ==
    ASSUME CourseworkInv, NEW h \in Handlers, Moves(h), NEW e \in Exams, NEW s \in Students,
           NEW row, NEW dto, NEW dirty, Becomes(h, "insert", "starts", <<e, s>>, row, dto, dirty),
           row.exam = e, row.student = s, row.number = Cardinality(AttemptsOf(e, s)) + 1,
           Cardinality(AttemptsOf(e, s)) < exams[e].limit, exams' = exams, attempts' = attempts
    PROVE  StartsInv'
<1>1. \A d, r : AttemptsOf(d, r)' = AttemptsOf(d, r)
  BY DEF AttemptsOf
<1>2. CountedAtWork(h)'
  <2>1. task'[h].row = row
    BY DEF Becomes
  <2>2. Cardinality(AttemptsOf(e, s)') < exams'[e].limit
        /\ row.number = Cardinality(AttemptsOf(e, s)') + 1
    BY <1>1
  <2> QED
    BY <2>1, <2>2 DEF CountedAtWork, AttemptsOf
<1>3. \A g \in Handlers : CountedAtWork(g)'
  BY <1>1, <1>2, OthersOnCounts
<1>4. ASSUME NEW d \in Exams, NEW r \in Students PROVE NumbersStand(d, r)' /\ StartsFit(d, r)'
  <2>1. NumbersStand(d, r) /\ StartsFit(d, r) /\ crossed \subseteq crossed'
    BY DEF CourseworkInv, StartsInv, Moves
  <2>2. AttemptsOf(d, r)' = AttemptsOf(d, r)
    BY <1>1
  <2>3. NumbersStand(d, r)'
    BY <2>1, <2>2 DEF NumbersStand
  <2>4. CASE d = e /\ r = s
    <3> DEFINE n == Cardinality(AttemptsOf(e, s))
               i == Cardinality(Inserting(e, s))
    <3>1. i' \in Nat /\ i' <= Cardinality(Handlers)
      <4>1. Inserting(e, s)' \subseteq Handlers
        BY DEF Inserting
      <4> QED
        BY <4>1, CourseworkAssumption, FS_Subset, FS_CardinalityType
    <3>2. n' = n /\ n \in Nat /\ Cardinality(Handlers) \in Nat /\ exams[e].limit \in Nat
      BY <1>1, AttemptsAreFinite DEF CourseworkInv, ExamsInv, Exam
    <3>3. n < exams[e].limit /\ exams' = exams
      OBVIOUS
    <3>4. StartsFit(e, s)'
      <4> SUFFICES n' + i' <= exams'[e].limit + Cardinality(Handlers) - 1
        BY DEF StartsFit
      <4> HIDE DEF n, i
      <4> QED
        BY <3>1, <3>2, <3>3
    <3> QED
      BY <2>3, <2>4, <3>4
  <2>5. CASE ~(d = e /\ r = s)
    <3>1. Inserting(d, r)' \subseteq Inserting(d, r)
      <4>1. task'[h].key = <<e, s>>
        BY DEF Becomes
      <4>2. <<d, r>> # <<e, s>>
        BY <2>5
      <4> QED
        BY <4>1, <4>2 DEF Inserting, Moves, At
    <3>2. Cardinality(Inserting(d, r)') <= Cardinality(Inserting(d, r))
          /\ Cardinality(Inserting(d, r)') \in Nat
      BY <3>1, AttemptsAreFinite, FS_Subset, FS_CardinalityType
    <3>3. StartsFit(d, r)'
      <4> DEFINE n == Cardinality(AttemptsOf(d, r))
                 i == Cardinality(Inserting(d, r))
      <4>1. n \in Nat /\ i \in Nat /\ i' \in Nat /\ i' <= i /\ n' = n
            /\ Cardinality(Handlers) \in Nat /\ exams[d].limit \in Nat
        BY <2>2, <3>2, AttemptsAreFinite DEF CourseworkInv, ExamsInv, Exam
      <4> SUFFICES ASSUME exams[d].exists
                   PROVE  n' + i' <= exams'[d].limit + Cardinality(Handlers) - 1
        BY DEF StartsFit
      <4>2. n + i <= exams[d].limit + Cardinality(Handlers) - 1
        BY <2>1 DEF StartsFit
      <4> HIDE DEF n, i
      <4> QED
        BY <4>1, <4>2
    <3> QED
      BY <2>3, <3>3
  <2> QED
    BY <2>4, <2>5
<1> QED
  BY <1>3, <1>4 DEF StartsInv

LEMMA StartCountStep ==
    ASSUME CourseworkInv, NEW h \in Handlers, StartCount(h) PROVE CourseworkInv'
<1> DEFINE t == task[h]
<1>1. At(h, "count") /\ Busy(h) /\ Changes(h) /\ RowsStand /\ t.table = "starts"
  BY DEF StartCount, At, Busy, Changes, RowsStand, tables, history, CourseworkInv, RequestsInv,
     StepOfTable, Saves
<1>2. CASE Finish(h)
  BY <1>1, <1>2, Ends
<1>3. CASE ~Finish(h)
  <2>1. StartAtWork(h)
    BY DEF CourseworkInv, AttemptsInv
  <2>2. PICK e \in Exams, s \in Students :
          /\ t.row.exam = e /\ t.row.student = s /\ t.key = <<e, s>> /\ exams[e].exists
    BY <1>1, <2>1 DEF StartAtWork
  <2>3. DOMAIN t.row = AttemptColumns /\ t.row.submitted = FALSE
    BY <1>1, <2>1 DEF StartAtWork
  <2> DEFINE n   == Cardinality(AttemptsOf(e, s))
             new == [t.row EXCEPT !.number = n + 1]
  <2>4. /\ ~(n >= exams[e].limit)
        /\ task' = [task EXCEPT ![h].at = "insert", ![h].row.number = n + 1]
    BY <1>3, <2>2 DEF StartCount, LimitReached, NumberAfter
  <2>5. n \in Nat /\ exams[e].limit \in Nat
    BY AttemptsAreFinite DEF CourseworkInv, ExamsInv, Exam
  <2>6. n < exams[e].limit
    <3> HIDE DEF n
    <3> QED
      BY <2>4, <2>5
  <2>7. /\ DOMAIN new = AttemptColumns /\ new.exam = e /\ new.student = s
        /\ new.number = n + 1 /\ new.submitted = FALSE
    BY <2>2, <2>3, NumberedRow
  <2>8. Replaced(h) /\ Becomes(h, "insert", "starts", <<e, s>>, new, t.dto, t.dirty)
    BY <1>1, <2>2, <2>4, NextStatement DEF CourseworkInv, RequestsInv
  <2> HIDE DEF new
  <2>9. StepOfTable(h)'
    BY <2>8 DEF StepOfTable, Becomes, Saves, At
  <2>10. Moves(h)
    BY <1>1, <2>2, <2>8, <2>9, GoesOnMoves DEF CourseworkInv, RowsStand, Becomes
  <2>11. StartAtWork(h)'
    BY <1>1, <2>2, <2>7, <2>8 DEF Becomes, StartAtWork, RowsStand
  <2>12. ExamAtWork(h)' /\ HomeworkAtWork(h)' /\ SubmissionAtWork(h)' /\ AttemptAtWork(h)'
    BY <2>8 DEF Becomes, ExamAtWork, HomeworkAtWork, SubmissionAtWork, AttemptAtWork
  <2>13. StartsInv'
    BY <1>1, <2>6, <2>7, <2>8, <2>10, StartCounted DEF RowsStand
  <2>14. AskedShape'
    BY <1>1 DEF CourseworkInv, AskedShape, RowsStand
  <2> QED
    BY <1>1, <2>10, <2>11, <2>12, <2>13, <2>14, ExamsKept, HomeworksKept, SubmissionsKept,
       AttemptsKept DEF CourseworkInv, Moves, RowsStand
<1> QED
  BY <1>2, <1>3

Numbers(e, s) == {attempts[a].number : a \in AttemptsOf(e, s)}

InsertedAs(a, row) == attempts' = [attempts EXCEPT ![a] = row]

\* The attempt that a start inserts is the next of its exam and student.
LEMMA AttemptAdded ==
    ASSUME CourseworkInv, NEW a \in AttemptIds, attempts[a].exam = None, NEW row,
           InsertedAs(a, row), NEW e \in Exams, NEW s \in Students,
           row.exam = e, row.student = s
    PROVE  /\ AttemptsOf(e, s)' = AttemptsOf(e, s) \cup {a} /\ a \notin AttemptsOf(e, s)
           /\ Cardinality(AttemptsOf(e, s)') = Cardinality(AttemptsOf(e, s)) + 1
           /\ Numbers(e, s)' = Numbers(e, s) \cup {row.number}
           /\ \A d \in Exams, r \in Students : ~(d = e /\ r = s) =>
                /\ AttemptsOf(d, r)' = AttemptsOf(d, r)
                /\ Numbers(d, r)' = Numbers(d, r)
<1>1. attempts'[a] = row /\ \A b \in AttemptIds \ {a} : attempts'[b] = attempts[b]
  BY DEF CourseworkInv, AttemptsInv, InsertedAs
<1>2. \A d \in Exams, r \in Students : a \notin AttemptsOf(d, r)
  BY CourseworkAssumption DEF AttemptsOf
<1>3. AttemptsOf(e, s)' = AttemptsOf(e, s) \cup {a}
  BY <1>1 DEF AttemptsOf
<1>4. Cardinality(AttemptsOf(e, s)') = Cardinality(AttemptsOf(e, s)) + 1
  <2> DEFINE own == AttemptsOf(e, s)
  <2>1. IsFiniteSet(own) /\ a \notin own
    BY <1>2, AttemptsAreFinite
  <2>2. Cardinality(own \cup {a}) = Cardinality(own) + 1
    <3> HIDE DEF own
    <3> QED
      BY <2>1, FS_AddElement
  <2> QED
    BY <1>3, <2>2
<1>5. Numbers(e, s)' = Numbers(e, s) \cup {row.number}
  <2>1. \A b \in AttemptsOf(e, s) : attempts'[b] = attempts[b]
    BY <1>1, <1>2 DEF AttemptsOf
  <2> QED
    BY <1>1, <1>3, <2>1 DEF Numbers
<1>6. ASSUME NEW d \in Exams, NEW r \in Students, ~(d = e /\ r = s)
      PROVE  /\ AttemptsOf(d, r)' = AttemptsOf(d, r)
             /\ Numbers(d, r)' = Numbers(d, r)
  <2>1. AttemptsOf(d, r)' = AttemptsOf(d, r)
    BY <1>1, <1>2, <1>6 DEF AttemptsOf
  <2>2. \A b \in AttemptsOf(d, r) : attempts'[b] = attempts[b]
    BY <1>1, <1>2 DEF AttemptsOf
  <2> QED
    BY <2>1, <2>2 DEF Numbers
<1> QED
  BY <1>2, <1>3, <1>4, <1>5, <1>6

LEMMA StartInsertStep ==
    ASSUME CourseworkInv, NEW h \in Handlers, StartInsert(h) PROVE CourseworkInv'
<1> DEFINE t == task[h]
<1>1. /\ At(h, "insert") /\ Busy(h) /\ Changes(h) /\ t.table = "starts" /\ Finish(h)
      /\ UNCHANGED <<exams, questions, homeworks, submissions, crossed, asked, sent, given>>
  BY DEF StartInsert, On, At, Busy, Changes, history
<1>2. PICK a \in AttemptIds : attempts[a].exam = None /\ attempts' = [attempts EXCEPT ![a] = t.row]
  BY DEF StartInsert
<1>3. StartAtWork(h) /\ CountedAtWork(h)
  BY DEF CourseworkInv, AttemptsInv, StartsInv
<1>4. PICK e \in Exams, s \in Students :
        /\ t.row.exam = e /\ t.row.student = s /\ t.key = <<e, s>> /\ exams[e].exists
  BY <1>1, <1>3 DEF StartAtWork
<1>5. DOMAIN t.row = AttemptColumns /\ t.row.submitted = FALSE
  BY <1>1, <1>3 DEF StartAtWork
<1>6. Moves(h) /\ task'[h].at = "idle" /\ Alone(h, "starts", <<e, s>>)
  BY <1>1, <1>4, FinishMoves DEF CourseworkInv
<1>7. AtWork(h)' /\ NotInserting(h)'
  BY <1>6, NothingAtWork DEF Busy
<1>8. attempts'[a] = t.row /\ \A b \in AttemptIds \ {a} : attempts'[b] = attempts[b]
  BY <1>2 DEF CourseworkInv, AttemptsInv
<1>9. AttemptsInv'
  <2>1. \A g \in Handlers : AttemptAtWork(g)' /\ StartAtWork(g)'
    BY <1>1, <1>2, <1>6, <1>7, <1>8, OthersOnAttempts, OthersOnStarts DEF AtWork
  <2>2. \A b \in AttemptIds : ScoreMatches(b)'
    BY <1>1, <1>5, <1>8 DEF CourseworkInv, AttemptsInv, ScoreMatches
  <2>3. attempts' = [b \in AttemptIds |-> attempts'[b]]
    BY <1>2 DEF CourseworkInv, AttemptsInv
  <2>4. \A b \in AttemptIds :
          /\ DOMAIN attempts'[b] = AttemptColumns
          /\ attempts'[b].exam = None => ~attempts'[b].submitted
          /\ attempts'[b].exam # None =>
               attempts'[b].exam \in Exams /\ exams'[attempts'[b].exam].exists
    BY <1>1, <1>4, <1>5, <1>8 DEF CourseworkInv, AttemptsInv
  <2> QED
    BY <2>1, <2>2, <2>3, <2>4 DEF AttemptsInv
<1>10. StartsInv'
  <2>1. /\ AttemptsOf(e, s)' = AttemptsOf(e, s) \cup {a}
        /\ Cardinality(AttemptsOf(e, s)') = Cardinality(AttemptsOf(e, s)) + 1
        /\ Numbers(e, s)' = Numbers(e, s) \cup {t.row.number}
        /\ \A d \in Exams, r \in Students : ~(d = e /\ r = s) =>
             /\ AttemptsOf(d, r)' = AttemptsOf(d, r)
             /\ Numbers(d, r)' = Numbers(d, r)
    <3>1. PICK row : row = t.row
      OBVIOUS
    <3>2. InsertedAs(a, row) /\ row.exam = e /\ row.student = s
      BY <1>2, <1>4, <3>1 DEF InsertedAs
    <3>0. attempts[a].exam = None /\ a \in AttemptIds
      BY <1>2
    <3>3. AttemptsOf(e, s)' = AttemptsOf(e, s) \cup {a} /\ a \notin AttemptsOf(e, s)
      BY <3>0, <3>2, AttemptAdded
    <3>4. Cardinality(AttemptsOf(e, s)') = Cardinality(AttemptsOf(e, s)) + 1
      BY <3>0, <3>2, AttemptAdded
    <3>5. Numbers(e, s)' = Numbers(e, s) \cup {row.number}
      BY <3>0, <3>2, AttemptAdded
    <3>6. \A d \in Exams, r \in Students : ~(d = e /\ r = s) =>
               AttemptsOf(d, r)' = AttemptsOf(d, r) /\ Numbers(d, r)' = Numbers(d, r)
      BY <3>0, <3>2, AttemptAdded
    <3> QED
      BY <3>1, <3>3, <3>4, <3>5, <3>6
  <2>2. \A g \in Handlers : CountedAtWork(g)'
    <3>1. CountedAtWork(h)'
      BY <1>7 DEF NotInserting, CountedAtWork, At
    <3>2. \A d \in Exams, r \in Students :
            AttemptsOf(d, r)' = AttemptsOf(d, r) \/ Alone(h, "starts", <<d, r>>)
      BY <1>6, <2>1
    <3> QED
      BY <1>1, <1>6, <3>1, <3>2, OthersOnCounts
  <2>3. ASSUME NEW d \in Exams, NEW r \in Students PROVE NumbersStand(d, r)' /\ StartsFit(d, r)'
    <3> DEFINE n == Cardinality(AttemptsOf(d, r))
               i == Cardinality(Inserting(d, r))
    <3>1. NumbersStand(d, r) /\ StartsFit(d, r)
      BY DEF CourseworkInv, StartsInv
    <3>2. n \in Nat /\ i \in Nat /\ Cardinality(Handlers) \in Nat /\ exams[d].limit \in Nat
      BY AttemptsAreFinite DEF CourseworkInv, ExamsInv, Exam
    <3>3. i' \in Nat /\ Inserting(d, r)' = Inserting(d, r) \ {h}
      <4>1. Inserting(d, r)' = Inserting(d, r) \ {h}
        BY <1>6 DEF Inserting, Moves, At
      <4> QED
        BY <4>1, AttemptsAreFinite, FS_Subset, FS_CardinalityType
    <3>4. CASE d = e /\ r = s
      <4>1. h \in Inserting(d, r)
        BY <1>1, <1>4, <3>4 DEF Inserting
      <4>2. i' = i - 1
        <5> DEFINE all == Inserting(d, r)
        <5>1. IsFiniteSet(all) /\ h \in all
          BY <4>1, AttemptsAreFinite
        <5>2. Cardinality(all \ {h}) = Cardinality(all) - 1
          <6> HIDE DEF all
          <6> QED
            BY <5>1, FS_RemoveElement
        <5> QED
          BY <3>3, <5>2
      <4>3. n' = n + 1
        BY <2>1, <3>4
      <4>4. n + i <= exams[d].limit + Cardinality(Handlers) - 1 /\ exams' = exams
        BY <1>1, <1>4, <3>1, <3>4 DEF StartsFit
      <4>5. StartsFit(d, r)'
        <5> SUFFICES n' + i' <= exams'[d].limit + Cardinality(Handlers) - 1
          BY DEF StartsFit
        <5> HIDE DEF n, i
        <5> QED
          BY <3>2, <3>3, <4>2, <4>3, <4>4
      <4>6. ASSUME <<"starts", <<e, s>>>> \notin crossed
            PROVE  /\ Numbers(d, r)' = 1 .. n'
                   /\ n' <= exams'[d].limit
        <5>1. n < exams[d].limit /\ t.row.number = n + 1
          BY <1>1, <1>3, <1>4, <3>4, <4>6 DEF CountedAtWork
        <5>2. Numbers(d, r) = 1 .. n
          BY <3>1, <3>4, <4>6 DEF NumbersStand, Numbers
        <5>3. Numbers(d, r)' = (1 .. n) \cup {n + 1}
          BY <2>1, <3>4, <5>1, <5>2
        <5>4. (1 .. n) \cup {n + 1} = 1 .. (n + 1)
          <6> HIDE DEF n
          <6> QED
            BY <3>2
        <5>5. n' <= exams'[d].limit
          <6> HIDE DEF n
          <6> QED
            BY <3>2, <4>3, <4>4, <5>1
        <5> QED
          BY <4>3, <5>3, <5>4, <5>5
      <4>7. NumbersStand(d, r)'
        BY <1>1, <3>4, <4>6 DEF NumbersStand, Numbers
      <4> QED
        BY <4>5, <4>7
    <3>5. CASE ~(d = e /\ r = s)
      <4>1. n' = n /\ AttemptsOf(d, r)' = AttemptsOf(d, r)
            /\ Numbers(d, r)' = Numbers(d, r)
        BY <2>1, <3>5
      <4>2. i' <= i
        BY <3>3, AttemptsAreFinite, FS_Subset
      <4>3. StartsFit(d, r)'
        <5> SUFFICES ASSUME exams[d].exists
                     PROVE  n' + i' <= exams'[d].limit + Cardinality(Handlers) - 1
          BY <1>1 DEF StartsFit
        <5>1. n + i <= exams[d].limit + Cardinality(Handlers) - 1 /\ exams' = exams
          BY <1>1, <3>1 DEF StartsFit
        <5> HIDE DEF n, i
        <5> QED
          BY <3>2, <3>3, <4>1, <4>2, <5>1
      <4>4. NumbersStand(d, r)'
        BY <1>1, <3>1, <4>1 DEF NumbersStand, Numbers
      <4> QED
        BY <4>3, <4>4
    <3> QED
      BY <3>4, <3>5
  <2> QED
    BY <2>2, <2>3 DEF StartsInv
<1>11. AskedShape'
  BY <1>1 DEF CourseworkInv, AskedShape
<1> QED
  BY <1>1, <1>6, <1>7, <1>9, <1>10, <1>11, ExamsKept, HomeworksKept, SubmissionsKept
  DEF CourseworkInv, Moves, AtWork
-----------------------------------------------------------------------------
(* Requests that save an exam or a homework.                               *)

LEMMA AskedAssigned ==
    ASSUME NEW old, NEW dto, old = [published |-> old.published, level |-> old.level,
                                    deleted |-> old.deleted]
    PROVE  LET new == Assign(old, dto) IN
           /\ new = [published |-> new.published, level |-> new.level, deleted |-> new.deleted]
           /\ \A f \in {"published", "level", "deleted"} :
                new[f] = IF f \in DOMAIN dto THEN dto[f] ELSE old[f]
<1>1. DOMAIN old = {"published", "level", "deleted"}
  <2>1. \A p, l, d : DOMAIN [published |-> p, level |-> l, deleted |-> d]
                       = {"published", "level", "deleted"}
    OBVIOUS
  <2> QED
    BY <2>1
<1> DEFINE new == Assign(old, dto)
<1>2. new = [f \in {"published", "level", "deleted"} |-> IF f \in DOMAIN dto THEN dto[f] ELSE old[f]]
  BY <1>1 DEF Assign
<1>3. \A f \in {"published", "level", "deleted"} :
        new[f] = IF f \in DOMAIN dto THEN dto[f] ELSE old[f]
  BY <1>2
<1>4. new = [f \in {"published", "level", "deleted"} |-> new[f]]
  BY <1>2
<1> HIDE DEF new
<1>5. new = [published |-> new.published, level |-> new.level, deleted |-> new.deleted]
  BY <1>4
<1> QED
  BY <1>3, <1>5 DEF new

\* An edit of d is answered: it joins what was asked for.
AskedFor(d, dto) == asked' = [asked EXCEPT ![d] = Assign(@, dto)]

LEMMA AskedKept ==
    ASSUME AskedShape, NEW d \in Exams \cup Homeworks, NEW dto, AskedFor(d, dto)
    PROVE  /\ AskedShape'
           /\ \A c \in (Exams \cup Homeworks) \ {d} : asked'[c] = asked[c]
           /\ \A f \in {"published", "level", "deleted"} :
                asked'[d][f] = IF f \in DOMAIN dto THEN dto[f] ELSE asked[d][f]
<1> DEFINE new == Assign(asked[d], dto)
<1>1. asked' = [asked EXCEPT ![d] = new] /\ asked = [c \in Exams \cup Homeworks |-> asked[c]]
  BY DEF AskedFor, AskedShape
<1>2. /\ new = [published |-> new.published, level |-> new.level, deleted |-> new.deleted]
      /\ \A f \in {"published", "level", "deleted"} :
           new[f] = IF f \in DOMAIN dto THEN dto[f] ELSE asked[d][f]
  BY AskedAssigned DEF AskedShape
<1> HIDE DEF new
<1>3. asked'[d] = new /\ \A c \in (Exams \cup Homeworks) \ {d} : asked'[c] = asked[c]
  BY <1>1
<1>4. asked' = [c \in Exams \cup Homeworks |-> asked'[c]]
  BY <1>1
<1>5. \A c \in Exams \cup Homeworks :
        asked'[c] = [published |-> asked'[c].published, level |-> asked'[c].level,
                     deleted |-> asked'[c].deleted]
  BY <1>2, <1>3 DEF AskedShape
<1> QED
  BY <1>2, <1>3, <1>4, <1>5 DEF AskedShape

LEMMA ExamSaved ==
    ASSUME CourseworkInv, NEW h \in Handlers, Moves(h), task'[h].at = "idle",
           NEW e \in Exams, Alone(h, "exams", e), exams[e].exists,
           NEW new \in Exam, exams' = [exams EXCEPT ![e] = new], new.exists,
           new.limit = exams[e].limit, NEW dto, AskedFor(e, dto),
           <<"exams", e>> \notin crossed => new = Assign(exams[e], dto),
           UNCHANGED <<attempts, homeworks, submissions, sent, given>>
    PROVE  CourseworkInv'
<1>1. /\ exams' \in [Exams -> Exam] /\ exams'[e] = new
      /\ \A d \in Exams \ {e} : exams'[d] = exams[d]
  BY DEF CourseworkInv, ExamsInv
<1>2. /\ AskedShape'
      /\ \A c \in (Exams \cup Homeworks) \ {e} : asked'[c] = asked[c]
      /\ \A f \in {"published", "level", "deleted"} :
           asked'[e][f] = IF f \in DOMAIN dto THEN dto[f] ELSE asked[e][f]
  BY AskedKept DEF CourseworkInv
<1>3. AtWork(h)' /\ NotInserting(h)'
  BY NothingAtWork DEF Busy
<1>4. ExamsInv'
  <2>1. \A g \in Handlers : ExamAtWork(g)'
    BY <1>1, <1>3, OthersOnExams DEF AtWork
  <2>2. \A d \in Exams : ~exams'[d].exists => exams'[d] = NoExam
    BY <1>1 DEF CourseworkInv, ExamsInv
  <2>3. \A d \in Exams : ExamStands(d) /\ crossed \subseteq crossed'
    BY DEF CourseworkInv, ExamsInv, Moves
  <2>4. \A d \in Exams \ {e} : ExamStands(d)'
    BY <1>1, <1>2, <2>3 DEF ExamStands
  <2>5. ExamStands(e)'
    <3> SUFFICES ASSUME <<"exams", e>> \notin crossed'
                 PROVE  /\ exams'[e].published = asked'[e].published
                        /\ exams'[e].level = asked'[e].level
                        /\ exams'[e].deleted = asked'[e].deleted
      BY DEF ExamStands
    <3>1. ExamStands(e) /\ <<"exams", e>> \notin crossed
      BY <2>3
    <3>2. exams[e].published = asked[e].published /\ exams[e].level = asked[e].level
          /\ exams[e].deleted = asked[e].deleted
      BY <3>1 DEF ExamStands
    <3>3. \A f \in {"published", "level", "deleted"} : f \in DOMAIN exams[e]
      BY DEF CourseworkInv, ExamsInv, Exam
    <3>4. \A f \in {"published", "level", "deleted"} :
            exams'[e][f] = IF f \in DOMAIN dto THEN dto[f] ELSE exams[e][f]
      BY <1>1, <3>1, <3>3 DEF Assign
    <3> QED
      BY <1>2, <3>2, <3>4
  <2> QED
    BY <1>1, <2>1, <2>2, <2>4, <2>5 DEF ExamsInv
<1>5. \A d \in Exams :
        exams'[d].exists = exams[d].exists /\ exams'[d].limit = exams[d].limit
  BY <1>1 DEF Exam, CourseworkInv, ExamsInv
<1>6. HomeworksInv'
  BY <1>2, <1>3, HomeworksKept, CourseworkAssumption DEF AtWork
<1>7. AttemptsInv' /\ StartsInv' /\ SubmissionsInv'
  BY <1>3, <1>5, AttemptsKept, StartsKept, SubmissionsKept DEF AtWork
<1> QED
  BY <1>2, <1>4, <1>6, <1>7 DEF CourseworkInv, Moves

LEMMA HomeworkSaved ==
    ASSUME CourseworkInv, NEW h \in Handlers, Moves(h), task'[h].at = "idle",
           NEW w \in Homeworks, Alone(h, "homeworks", w), homeworks[w].exists,
           NEW new \in Homework, homeworks' = [homeworks EXCEPT ![w] = new], new.exists,
           NEW dto, AskedFor(w, dto),
           <<"homeworks", w>> \notin crossed => new = Assign(homeworks[w], dto),
           UNCHANGED <<exams, attempts, submissions, sent, given>>
    PROVE  CourseworkInv'
<1>1. /\ homeworks' \in [Homeworks -> Homework] /\ homeworks'[w] = new
      /\ \A d \in Homeworks \ {w} : homeworks'[d] = homeworks[d]
  BY DEF CourseworkInv, HomeworksInv
<1>2. /\ AskedShape'
      /\ \A c \in (Exams \cup Homeworks) \ {w} : asked'[c] = asked[c]
      /\ \A f \in {"published", "level", "deleted"} :
           asked'[w][f] = IF f \in DOMAIN dto THEN dto[f] ELSE asked[w][f]
  BY AskedKept DEF CourseworkInv
<1>3. AtWork(h)' /\ NotInserting(h)'
  BY NothingAtWork DEF Busy
<1>4. HomeworksInv'
  <2>1. \A g \in Handlers : HomeworkAtWork(g)'
    BY <1>1, <1>3, OthersOnHomeworks DEF AtWork
  <2>2. \A d \in Homeworks : ~homeworks'[d].exists => homeworks'[d] = NoHomework
    BY <1>1 DEF CourseworkInv, HomeworksInv
  <2>3. \A d \in Homeworks : HomeworkStands(d) /\ crossed \subseteq crossed'
    BY DEF CourseworkInv, HomeworksInv, Moves
  <2>4. \A d \in Homeworks \ {w} : HomeworkStands(d)'
    BY <1>1, <1>2, <2>3 DEF HomeworkStands
  <2>5. HomeworkStands(w)'
    <3> SUFFICES ASSUME <<"homeworks", w>> \notin crossed'
                 PROVE  /\ homeworks'[w].level = asked'[w].level
                        /\ homeworks'[w].deleted = asked'[w].deleted
      BY DEF HomeworkStands
    <3>1. HomeworkStands(w) /\ <<"homeworks", w>> \notin crossed
      BY <2>3
    <3>2. homeworks[w].level = asked[w].level /\ homeworks[w].deleted = asked[w].deleted
      BY <3>1 DEF HomeworkStands
    <3>3. \A f \in {"level", "deleted"} : f \in DOMAIN homeworks[w]
      BY DEF CourseworkInv, HomeworksInv, Homework
    <3>4. \A f \in {"level", "deleted"} :
            homeworks'[w][f] = IF f \in DOMAIN dto THEN dto[f] ELSE homeworks[w][f]
      BY <1>1, <3>1, <3>3 DEF Assign
    <3> QED
      BY <1>2, <3>2, <3>4
  <2> QED
    BY <1>1, <2>1, <2>2, <2>4, <2>5 DEF HomeworksInv
<1>5. ExamsInv'
  BY <1>2, <1>3, ExamsKept, CourseworkAssumption DEF AtWork
<1>6. AttemptsInv' /\ StartsInv' /\ SubmissionsInv'
  BY <1>3, AttemptsKept, StartsKept, SubmissionsKept DEF AtWork
<1> QED
  BY <1>2, <1>4, <1>5, <1>6 DEF CourseworkInv, Moves

\* An UPDATE that names what differs writes the whole row.
LEMMA WholeRowWritten ==
    ASSUME NEW t, NEW stored, DOMAIN t.row = DOMAIN stored, stored = [f \in DOMAIN stored |-> stored[f]],
           t.row = [f \in DOMAIN t.row |-> t.row[f]], Differing(t.row, stored) \subseteq t.dirty
    PROVE  Written(stored, t) = t.row
<1>1. \A f \in DOMAIN stored : (IF f \in t.dirty THEN t.row[f] ELSE stored[f]) = t.row[f]
  BY DEF Differing
<1> QED
  BY <1>1 DEF Written

LEMMA ExamWritten ==
    ASSUME NEW t, NEW stored \in Exam, t.row \in Exam
    PROVE  Written(stored, t) \in Exam
           /\ (t.row.limit = stored.limit => Written(stored, t).limit = stored.limit)
           /\ (t.row.exists /\ stored.exists => Written(stored, t).exists)
BY DEF Written, Exam

LEMMA HomeworkWritten ==
    ASSUME NEW t, NEW stored \in Homework, t.row \in Homework
    PROVE  Written(stored, t) \in Homework
           /\ (t.row.exists /\ stored.exists => Written(stored, t).exists)
BY DEF Written, Homework

LEMMA ExamWriteStep ==
    ASSUME CourseworkInv, NEW h \in Handlers, ExamWrite(h) PROVE CourseworkInv'
<1> DEFINE t   == task[h]
           new == Written(exams[t.key], t)
<1>1. /\ At(h, "write") /\ Busy(h) /\ Changes(h) /\ t.table = "exams" /\ Finish(h) /\ Answer(t)
      /\ exams' = [exams EXCEPT ![t.key] = new]
      /\ UNCHANGED <<attempts, homeworks, submissions, crossed>>
  BY DEF ExamWrite, On, At, Busy, Changes
<1>2. ExamAtWork(h) /\ exams \in [Exams -> Exam]
  BY DEF CourseworkInv, ExamsInv
<1>3. /\ t.key \in Exams /\ exams[t.key].exists /\ t.row \in Exam /\ t.row.exists
      /\ t.row.limit = exams[t.key].limit /\ t.dto \in ExamDtos
  BY <1>1, <1>2 DEF ExamAtWork
<1>4. ASSUME <<"exams", t.key>> \notin crossed
      PROVE  new = Assign(exams[t.key], t.dto)
  <2>1. /\ t.row = Assign(exams[t.key], t.dto)
        /\ Differing(t.row, exams[t.key]) \subseteq t.dirty
    BY <1>1, <1>2, <1>4 DEF ExamAtWork, Saving
  <2>2. /\ DOMAIN t.row = DOMAIN exams[t.key] /\ t.row = [f \in DOMAIN t.row |-> t.row[f]]
        /\ exams[t.key] = [f \in DOMAIN exams[t.key] |-> exams[t.key][f]]
    BY <1>2, <1>3 DEF Exam
  <2> QED
    BY <2>1, <2>2, WholeRowWritten
<1>5. new \in Exam /\ new.exists /\ new.limit = exams[t.key].limit
  BY <1>2, <1>3, ExamWritten
<1>6. Moves(h) /\ task'[h].at = "idle" /\ Alone(h, "exams", t.key)
  BY <1>1, FinishMoves DEF CourseworkInv
<1>7. AskedFor(t.key, t.dto) /\ UNCHANGED <<sent, given>>
  <2>1. "score" \notin DOMAIN t.dto /\ "content" \notin DOMAIN t.dto
    BY <1>3 DEF ExamDtos
  <2> QED
    BY <1>1, <2>1 DEF Answer, AskedFor
<1> HIDE DEF new
<1> QED
  BY <1>1, <1>3, <1>4, <1>5, <1>6, <1>7, ExamSaved

LEMMA HomeworkWriteStep ==
    ASSUME CourseworkInv, NEW h \in Handlers, HomeworkWrite(h) PROVE CourseworkInv'
<1> DEFINE t   == task[h]
           new == Written(homeworks[t.key], t)
<1>1. /\ At(h, "write") /\ Busy(h) /\ Changes(h) /\ t.table = "homeworks" /\ Finish(h)
      /\ Answer(t) /\ homeworks' = [homeworks EXCEPT ![t.key] = new]
      /\ UNCHANGED <<exams, attempts, submissions, crossed>>
  BY DEF HomeworkWrite, On, At, Busy, Changes
<1>2. HomeworkAtWork(h) /\ homeworks \in [Homeworks -> Homework]
  BY DEF CourseworkInv, HomeworksInv
<1>3. /\ t.key \in Homeworks /\ homeworks[t.key].exists /\ t.row \in Homework /\ t.row.exists
      /\ t.dto \in HomeworkDtos
  BY <1>1, <1>2 DEF HomeworkAtWork
<1>4. ASSUME <<"homeworks", t.key>> \notin crossed
      PROVE  new = Assign(homeworks[t.key], t.dto)
  <2>1. /\ t.row = Assign(homeworks[t.key], t.dto)
        /\ Differing(t.row, homeworks[t.key]) \subseteq t.dirty
    BY <1>1, <1>2, <1>4 DEF HomeworkAtWork, Saving
  <2>2. /\ DOMAIN t.row = DOMAIN homeworks[t.key] /\ t.row = [f \in DOMAIN t.row |-> t.row[f]]
        /\ homeworks[t.key] = [f \in DOMAIN homeworks[t.key] |-> homeworks[t.key][f]]
    BY <1>2, <1>3 DEF Homework
  <2> QED
    BY <2>1, <2>2, WholeRowWritten
<1>5. new \in Homework /\ new.exists
  BY <1>2, <1>3, HomeworkWritten
<1>6. Moves(h) /\ task'[h].at = "idle" /\ Alone(h, "homeworks", t.key)
  BY <1>1, FinishMoves DEF CourseworkInv
<1>7. AskedFor(t.key, t.dto) /\ UNCHANGED <<sent, given>>
  <2>1. "score" \notin DOMAIN t.dto /\ "content" \notin DOMAIN t.dto
    BY <1>3 DEF HomeworkDtos
  <2> QED
    BY <1>1, <2>1 DEF Answer, AskedFor
<1> HIDE DEF new
<1> QED
  BY <1>1, <1>3, <1>4, <1>5, <1>6, <1>7, HomeworkSaved
-----------------------------------------------------------------------------
(* Requests that save a submission.                                        *)

\* A hand-in of k, or a grade for its content, is answered.
HandInKept(k, dto) ==
    sent' = [sent EXCEPT ![k].last = dto.content] /\ given' = given

GradeKept(k, dto, content) ==
    sent' = [sent EXCEPT ![k].graded = content] /\ given' = [given EXCEPT ![k] = dto.score]

LEMMA SentAfter ==
    ASSUME SentShape, NEW k \in Pairs, NEW dto, NEW content
    PROVE  /\ HandInKept(k, dto) =>
                /\ SentShape' /\ \A j \in Pairs \ {k} : sent'[j] = sent[j] /\ given'[j] = given[j]
                /\ sent'[k].last = dto.content /\ sent'[k].graded = sent[k].graded
                /\ given'[k] = given[k]
           /\ GradeKept(k, dto, content) =>
                /\ SentShape' /\ \A j \in Pairs \ {k} : sent'[j] = sent[j] /\ given'[j] = given[j]
                /\ sent'[k].last = sent[k].last /\ sent'[k].graded = content
                /\ given'[k] = dto.score
<1>1. /\ sent = [j \in Pairs |-> sent[j]] /\ given = [j \in Pairs |-> given[j]]
      /\ \A j \in Pairs : sent[j] = [last |-> sent[j].last, graded |-> sent[j].graded]
  BY DEF SentShape
<1>2. ASSUME NEW l, NEW g, sent' = [sent EXCEPT ![k] = [last |-> l, graded |-> g]]
      PROVE  /\ sent' = [j \in Pairs |-> sent'[j]]
             /\ \A j \in Pairs : sent'[j] = [last |-> sent'[j].last, graded |-> sent'[j].graded]
             /\ \A j \in Pairs \ {k} : sent'[j] = sent[j]
             /\ sent'[k].last = l /\ sent'[k].graded = g
  <2> DEFINE new == [last |-> l, graded |-> g]
  <2>1. new.last = l /\ new.graded = g /\ new = [last |-> new.last, graded |-> new.graded]
    OBVIOUS
  <2>2. sent' = [sent EXCEPT ![k] = new]
    BY <1>2
  <2> HIDE DEF new
  <2>3. sent' = [j \in Pairs |-> sent'[j]] /\ sent'[k] = new
        /\ \A j \in Pairs \ {k} : sent'[j] = sent[j]
    BY <1>1, <2>2
  <2> QED
    BY <1>1, <2>1, <2>3
<1>3. ASSUME HandInKept(k, dto)
      PROVE  /\ SentShape' /\ \A j \in Pairs \ {k} : sent'[j] = sent[j] /\ given'[j] = given[j]
             /\ sent'[k].last = dto.content /\ sent'[k].graded = sent[k].graded
             /\ given'[k] = given[k]
  <2> DEFINE new == [sent[k] EXCEPT !.last = dto.content]
  <2>1. sent' = [sent EXCEPT ![k] = new] /\ given' = given
    BY <1>3 DEF HandInKept
  <2>2. new = [last |-> dto.content, graded |-> sent[k].graded]
    <3> DEFINE old == sent[k]
    <3>1. old = [last |-> old.last, graded |-> old.graded]
      BY <1>1
    <3> HIDE DEF old
    <3>2. [old EXCEPT !.last = dto.content] = [last |-> dto.content, graded |-> old.graded]
      BY <3>1
    <3> QED
      BY <3>2 DEF old
  <2> HIDE DEF new
  <2>3. sent' = [sent EXCEPT ![k] = [last |-> dto.content, graded |-> sent[k].graded]]
    BY <2>1, <2>2
  <2> QED
    BY <1>1, <1>2, <2>1, <2>3 DEF SentShape
<1>4. ASSUME GradeKept(k, dto, content)
      PROVE  /\ SentShape' /\ \A j \in Pairs \ {k} : sent'[j] = sent[j] /\ given'[j] = given[j]
             /\ sent'[k].last = sent[k].last /\ sent'[k].graded = content
             /\ given'[k] = dto.score
  <2> DEFINE new == [sent[k] EXCEPT !.graded = content]
  <2>1. sent' = [sent EXCEPT ![k] = new] /\ given' = [given EXCEPT ![k] = dto.score]
    BY <1>4 DEF GradeKept
  <2>2. new = [last |-> sent[k].last, graded |-> content]
    <3> DEFINE old == sent[k]
    <3>1. old = [last |-> old.last, graded |-> old.graded]
      BY <1>1
    <3> HIDE DEF old
    <3>2. [old EXCEPT !.graded = content] = [last |-> old.last, graded |-> content]
      BY <3>1
    <3> QED
      BY <3>2 DEF old
  <2> HIDE DEF new
  <2>3. sent' = [sent EXCEPT ![k] = [last |-> sent[k].last, graded |-> content]]
    BY <2>1, <2>2
  <2>4. /\ given' = [j \in Pairs |-> given'[j]] /\ given'[k] = dto.score
        /\ \A j \in Pairs \ {k} : given'[j] = given[j]
    BY <1>1, <2>1
  <2> QED
    BY <1>2, <2>3, <2>4 DEF SentShape
<1> QED
  BY <1>3, <1>4

LEMMA SubmissionSaved ==
    ASSUME CourseworkInv, NEW h \in Handlers, Moves(h), task'[h].at = "idle",
           NEW k \in Pairs, Alone(h, "submissions", k),
           NEW new \in Submission, submissions' = [submissions EXCEPT ![k] = new],
           new.status # "absent", NEW dto, NEW content,
           \/ dto \in HandInDtos /\ HandInKept(k, dto)
           \/ dto \in GradeDtos /\ GradeKept(k, dto, content),
           <<"submissions", k>> \notin crossed =>
             new = Assign(submissions[k], dto) /\ (dto \in GradeDtos => content = new.content),
           UNCHANGED <<exams, attempts, homeworks, asked>>
    PROVE  CourseworkInv'
<1>1. /\ submissions' \in [Pairs -> Submission] /\ submissions'[k] = new
      /\ \A j \in Pairs \ {k} : submissions'[j] = submissions[j]
  BY DEF CourseworkInv, SubmissionsInv
<1>2. AtWork(h)' /\ NotInserting(h)'
  BY NothingAtWork DEF Busy
<1>3. \A j \in Pairs : SubmissionIsLast(j) /\ crossed \subseteq crossed'
  BY DEF CourseworkInv, SubmissionsInv, Moves
<1>4. SentShape
  BY DEF CourseworkInv, SubmissionsInv
<1>5. SentShape' /\ \A j \in Pairs \ {k} : sent'[j] = sent[j] /\ given'[j] = given[j]
  BY <1>4, SentAfter
<1>6. SubmissionIsLast(k)'
  <2> SUFFICES ASSUME <<"submissions", k>> \notin crossed'
               PROVE  /\ new.content = sent'[k].last
                      /\ new.score = given'[k]
                      /\ new.status = "graded" => new.content = sent'[k].graded
    BY <1>1 DEF SubmissionIsLast
  <2>1. SubmissionIsLast(k) /\ <<"submissions", k>> \notin crossed
    BY <1>3
  <2>2. submissions[k].content = sent[k].last /\ submissions[k].score = given[k]
    BY <2>1 DEF SubmissionIsLast
  <2>3. submissions[k] \in Submission /\ new = Assign(submissions[k], dto)
    BY <2>1 DEF CourseworkInv, SubmissionsInv
  <2>4. DOMAIN submissions[k] = {"status", "content", "score"}
    BY <2>3 DEF Submission
  <2>5. CASE dto \in HandInDtos /\ HandInKept(k, dto)
    <3>1. DOMAIN dto = {"content", "status"} /\ dto.status = "submitted"
      BY <2>5 DEF HandInDtos
    <3>2. /\ new.content = dto.content /\ new.status = "submitted"
          /\ new.score = submissions[k].score
      BY <2>3, <2>4, <3>1 DEF Assign
    <3> QED
      BY <1>4, <2>2, <2>5, <3>2, SentAfter
  <2>6. CASE dto \in GradeDtos /\ GradeKept(k, dto, content)
    <3>1. DOMAIN dto = {"score", "status"} /\ dto.status = "graded"
      BY <2>6 DEF GradeDtos
    <3>2. new.content = submissions[k].content /\ new.score = dto.score
      BY <2>3, <2>4, <3>1 DEF Assign
    <3>3. content = new.content
      BY <2>1, <2>6
    <3> QED
      BY <1>4, <2>2, <2>6, <3>2, <3>3, SentAfter
  <2> QED
    BY <2>5, <2>6
<1>7. SubmissionsInv'
  <2>1. \A g \in Handlers : SubmissionAtWork(g)'
    BY <1>1, <1>2, OthersOnSubmissions DEF AtWork
  <2>2. \A j \in Pairs : submissions'[j].status = "absent" => submissions'[j] = NoSubmission
    BY <1>1 DEF CourseworkInv, SubmissionsInv
  <2>3. \A j \in Pairs \ {k} : SubmissionIsLast(j)'
    BY <1>1, <1>3, <1>5 DEF SubmissionIsLast
  <2> QED
    BY <1>1, <1>5, <1>6, <2>1, <2>2, <2>3 DEF SubmissionsInv
<1>8. AskedShape'
  BY DEF CourseworkInv, AskedShape
<1> QED
  BY <1>2, <1>7, <1>8, ExamsKept, HomeworksKept, AttemptsKept, StartsKept
  DEF CourseworkInv, Moves, AtWork

\* The answer to a request about a submission.
LEMMA SubmissionAnswer ==
    ASSUME NEW t, Answer(t), t.table = "submissions", t.dto \in HandInDtos \cup GradeDtos
    PROVE  /\ asked' = asked
           /\ \/ t.dto \in HandInDtos /\ HandInKept(t.key, t.dto)
              \/ t.dto \in GradeDtos /\ GradeKept(t.key, t.dto, t.row.content)
<1>1. asked' = asked
  BY DEF Answer
<1>2. CASE t.dto \in HandInDtos
  <2>1. DOMAIN t.dto = {"content", "status"}
    BY <1>2 DEF HandInDtos
  <2>2. "score" \notin DOMAIN t.dto /\ "content" \in DOMAIN t.dto
    BY <2>1
  <2>3. given' = given /\ sent' = [sent EXCEPT ![t.key].last = t.dto.content]
    BY <2>2 DEF Answer
  <2> QED
    BY <1>1, <1>2, <2>3 DEF HandInKept
<1>3. CASE t.dto \in GradeDtos
  <2>1. DOMAIN t.dto = {"score", "status"}
    BY <1>3 DEF GradeDtos
  <2>2. "score" \in DOMAIN t.dto /\ "content" \notin DOMAIN t.dto
    BY <2>1
  <2>3. /\ given' = [given EXCEPT ![t.key] = t.dto.score]
        /\ sent' = [sent EXCEPT ![t.key].graded = t.row.content]
    BY <2>2 DEF Answer
  <2> QED
    BY <1>1, <1>3, <2>3 DEF GradeKept
<1> QED
  BY <1>2, <1>3

LEMMA SubmissionWritten ==
    ASSUME NEW t, NEW stored \in Submission, t.row \in Submission
    PROVE  Written(stored, t) \in Submission
           /\ (t.row.status # "absent" /\ stored.status # "absent" =>
                 Written(stored, t).status # "absent")
BY DEF Written, Submission

LEMMA SubmissionWriteStep ==
    ASSUME CourseworkInv, NEW h \in Handlers, SubmissionWrite(h) PROVE CourseworkInv'
<1> DEFINE t   == task[h]
           new == Written(submissions[t.key], t)
<1>1. /\ At(h, "write") /\ Busy(h) /\ Changes(h) /\ Saves(h) /\ t.table = "submissions"
      /\ Finish(h) /\ Answer(t)
      /\ submissions' = [submissions EXCEPT ![t.key] = new]
      /\ UNCHANGED <<exams, attempts, homeworks, crossed>>
  BY DEF SubmissionWrite, On, At, Busy, Changes, Saves
<1>2. SubmissionAtWork(h) /\ submissions \in [Pairs -> Submission]
  BY DEF CourseworkInv, SubmissionsInv
<1>3. /\ t.key \in Pairs /\ submissions[t.key].status # "absent" /\ t.row \in Submission
      /\ t.row.status # "absent" /\ t.dto \in HandInDtos \cup GradeDtos
  BY <1>1, <1>2 DEF SubmissionAtWork
<1>4. ASSUME <<"submissions", t.key>> \notin crossed
      PROVE  new = Assign(submissions[t.key], t.dto) /\ t.row.content = new.content
  <2>1. /\ t.row = Assign(submissions[t.key], t.dto)
        /\ Differing(t.row, submissions[t.key]) \subseteq t.dirty
    BY <1>1, <1>2, <1>4 DEF SubmissionAtWork, Saving
  <2>2. /\ DOMAIN t.row = DOMAIN submissions[t.key] /\ t.row = [f \in DOMAIN t.row |-> t.row[f]]
        /\ submissions[t.key] = [f \in DOMAIN submissions[t.key] |-> submissions[t.key][f]]
    BY <1>2, <1>3 DEF Submission
  <2> QED
    BY <2>1, <2>2, WholeRowWritten
<1>5. new \in Submission /\ new.status # "absent"
  BY <1>2, <1>3, SubmissionWritten
<1>6. Moves(h) /\ task'[h].at = "idle" /\ Alone(h, "submissions", t.key)
  BY <1>1, FinishMoves DEF CourseworkInv
<1>7. /\ asked' = asked
      /\ \/ t.dto \in HandInDtos /\ HandInKept(t.key, t.dto)
         \/ t.dto \in GradeDtos /\ GradeKept(t.key, t.dto, t.row.content)
  BY <1>1, <1>3, SubmissionAnswer
<1> HIDE DEF new
<1> QED
  BY <1>1, <1>3, <1>4, <1>5, <1>6, <1>7, SubmissionSaved

LEMMA SubmissionInsertStep ==
    ASSUME CourseworkInv, NEW h \in Handlers, SubmissionInsert(h) PROVE CourseworkInv'
<1> DEFINE t == task[h]
<1>1. /\ At(h, "insert") /\ Busy(h) /\ Changes(h) /\ t.table = "submissions"
      /\ Finish(h) /\ UNCHANGED <<exams, attempts, homeworks, crossed>>
  BY DEF SubmissionInsert, On, At, Busy, Changes
<1>2. SubmissionAtWork(h) /\ \A k \in Pairs : submissions[k].status = "absent" => submissions[k] = NoSubmission
  BY DEF CourseworkInv, SubmissionsInv
<1>3. /\ t.key \in Pairs /\ t.row \in Submission /\ t.dto \in HandInDtos
      /\ t.row = Assign(NoSubmission, t.dto)
  BY <1>1, <1>2 DEF SubmissionAtWork
<1>4. CASE submissions[t.key].status # "absent"
  <2>1. RowsStand
    BY <1>1, <1>4 DEF SubmissionInsert, RowsStand
  <2> QED
    BY <1>1, <2>1, Ends
<1>5. CASE submissions[t.key].status = "absent"
  <2>1. submissions' = [submissions EXCEPT ![t.key] = t.row] /\ Answer(t)
    BY <1>5 DEF SubmissionInsert
  <2>2. /\ asked' = asked
        /\ \/ t.dto \in HandInDtos /\ HandInKept(t.key, t.dto)
           \/ t.dto \in GradeDtos /\ GradeKept(t.key, t.dto, t.row.content)
    BY <1>1, <1>3, <2>1, SubmissionAnswer
  <2>3. Moves(h) /\ task'[h].at = "idle" /\ Alone(h, "submissions", t.key)
    BY <1>1, FinishMoves DEF CourseworkInv
  <2>4. t.row.status # "absent" /\ t.row = Assign(submissions[t.key], t.dto)
    <3>1. NoSubmission \in Submission /\ submissions[t.key] = NoSubmission
      BY <1>2, <1>3, <1>5 DEF Submission, NoSubmission
    <3> QED
      BY <1>3, <3>1, SubmissionDtoAssigned
  <2> DEFINE row == t.row  content == t.row.content
  <2>5. \/ t.dto \in HandInDtos /\ HandInKept(t.key, t.dto)
        \/ t.dto \in GradeDtos /\ GradeKept(t.key, t.dto, content)
    BY <2>2
  <2> QED
    BY <1>1, <1>3, <2>1, <2>2, <2>3, <2>4, <2>5, SubmissionSaved
<1> QED
  BY <1>4, <1>5
-----------------------------------------------------------------------------
(* Requests that save an attempt, and saves without a difference.          *)

LEMMA AttemptSaved ==
    ASSUME CourseworkInv, NEW h \in Handlers, Moves(h), task'[h].at = "idle",
           NEW a \in AttemptIds, Alone(h, "attempts", a), attempts[a].exam # None,
           NEW new, attempts' = [attempts EXCEPT ![a] = new], DOMAIN new = AttemptColumns,
           new.exam = attempts[a].exam, new.student = attempts[a].student,
           new.number = attempts[a].number,
           <<"attempts", a>> \notin crossed => new.score = Worth(new.answers),
           UNCHANGED <<exams, homeworks, submissions, asked, sent, given>>
    PROVE  CourseworkInv'
<1>1. /\ attempts'[a] = new /\ attempts' = [b \in AttemptIds |-> attempts'[b]]
      /\ \A b \in AttemptIds \ {a} : attempts'[b] = attempts[b]
  BY DEF CourseworkInv, AttemptsInv
<1>2. AtWork(h)' /\ NotInserting(h)'
  BY NothingAtWork DEF Busy
<1>3. \A b \in AttemptIds : ScoreMatches(b) /\ crossed \subseteq crossed'
  BY DEF CourseworkInv, AttemptsInv, Moves
<1>4. \A b \in AttemptIds : ScoreMatches(b)'
  <2>1. ScoreMatches(a)'
    BY <1>1, <1>3 DEF ScoreMatches
  <2>2. \A b \in AttemptIds \ {a} : ScoreMatches(b)'
    BY <1>1, <1>3 DEF ScoreMatches
  <2> QED
    BY <2>1, <2>2
<1>5. \A b \in AttemptIds :
        /\ attempts'[b].exam = attempts[b].exam /\ attempts'[b].student = attempts[b].student
        /\ attempts'[b].number = attempts[b].number
        /\ attempts'[b] = attempts[b] \/ Alone(h, "attempts", b)
  BY <1>1
<1>6. AttemptsInv'
  <2>1. \A g \in Handlers : AttemptAtWork(g)' /\ StartAtWork(g)'
    BY <1>2, <1>5, OthersOnAttempts, OthersOnStarts DEF AtWork
  <2>2. \A b \in AttemptIds :
          /\ DOMAIN attempts'[b] = AttemptColumns
          /\ attempts'[b].exam = None => ~attempts'[b].submitted
          /\ attempts'[b].exam # None =>
               attempts'[b].exam \in Exams /\ exams'[attempts'[b].exam].exists
    BY <1>1 DEF CourseworkInv, AttemptsInv
  <2> QED
    BY <1>1, <1>4, <2>1, <2>2 DEF AttemptsInv
<1>7. StartsInv'
  BY <1>2, <1>5, StartsKept
<1>8. AskedShape'
  BY DEF CourseworkInv, AskedShape
<1> QED
  BY <1>2, <1>6, <1>7, <1>8, ExamsKept, HomeworksKept, SubmissionsKept
  DEF CourseworkInv, Moves, AtWork

LEMMA AttemptWritten ==
    ASSUME NEW t, NEW stored, DOMAIN stored = AttemptColumns, DOMAIN t.row = AttemptColumns,
           t.row.exam = stored.exam, t.row.student = stored.student, t.row.number = stored.number
    PROVE  LET new == Written(stored, t) IN
           /\ DOMAIN new = AttemptColumns /\ new.exam = stored.exam
           /\ new.student = stored.student /\ new.number = stored.number
           /\ Differing(t.row, stored) \subseteq t.dirty =>
                \A f \in AttemptColumns : new[f] = t.row[f]
BY DEF Written, AttemptColumns, Differing

LEMMA AttemptWriteStep ==
    ASSUME CourseworkInv, NEW h \in Handlers, AttemptWrite(h) PROVE CourseworkInv'
<1> DEFINE t   == task[h]
           new == Written(attempts[t.key], t)
<1>1. /\ At(h, "write") /\ Busy(h) /\ Changes(h) /\ Saves(h) /\ t.table = "attempts" /\ Finish(h)
      /\ attempts' = [attempts EXCEPT ![t.key] = new]
      /\ UNCHANGED <<exams, homeworks, submissions, crossed, asked, sent, given>>
  BY DEF AttemptWrite, On, At, Busy, Changes, Saves, history
<1>2. AttemptAtWork(h) /\ attempts = [a \in AttemptIds |-> attempts[a]]
      /\ \A a \in AttemptIds : DOMAIN attempts[a] = AttemptColumns /\ ScoreMatches(a)
  BY DEF CourseworkInv, AttemptsInv
<1>3. /\ t.key \in AttemptIds /\ attempts[t.key].exam # None
      /\ DOMAIN t.row = AttemptColumns /\ t.row.exam = attempts[t.key].exam
      /\ t.row.student = attempts[t.key].student /\ t.row.number = attempts[t.key].number
      /\ t.row.score = Worth(t.row.answers)
  BY <1>1, <1>2 DEF AttemptAtWork
<1>4. /\ DOMAIN new = AttemptColumns /\ new.exam = attempts[t.key].exam
      /\ new.student = attempts[t.key].student /\ new.number = attempts[t.key].number
      /\ Differing(t.row, attempts[t.key]) \subseteq t.dirty =>
           \A f \in AttemptColumns : new[f] = t.row[f]
  BY <1>2, <1>3, AttemptWritten
<1> HIDE DEF new
<1>5. ASSUME <<"attempts", t.key>> \notin crossed PROVE new.score = Worth(new.answers)
  <2>1. Differing(t.row, attempts[t.key]) \subseteq t.dirty
    BY <1>1, <1>2, <1>5 DEF AttemptAtWork
  <2>2. new.score = t.row.score /\ new.answers = t.row.answers
    BY <1>4, <2>1 DEF AttemptColumns
  <2> QED
    BY <1>3, <2>2
<1>6. Moves(h) /\ task'[h].at = "idle" /\ Alone(h, "attempts", t.key)
  BY <1>1, FinishMoves DEF CourseworkInv
<1> QED
  BY <1>1, <1>3, <1>4, <1>5, <1>6, AttemptSaved

\* A row that does not differ is the stored one.
LEMMA NothingDiffers ==
    ASSUME NEW row, NEW stored, Differing(row, stored) = {}, DOMAIN row = DOMAIN stored,
           row = [f \in DOMAIN row |-> row[f]], stored = [f \in DOMAIN stored |-> stored[f]]
    PROVE  row = stored
BY DEF Differing

LEMMA SaveLoadStep ==
    ASSUME CourseworkInv, NEW h \in Handlers, SaveLoad(h) PROVE CourseworkInv'
<1> DEFINE t     == task[h]
           dirty == Differing(t.row, Stored(t.table, t.key))
<1>1. /\ At(h, "load") /\ Busy(h) /\ Changes(h) /\ Saves(h)
      /\ UNCHANGED <<exams, attempts, homeworks, submissions, crossed>>
      /\ t.table \in {"exams", "homeworks", "attempts", "submissions"}
  BY DEF SaveLoad, tables, At, Busy, Changes, Saves, CourseworkInv, RequestsInv, StepOfTable
<1>2. \/ Finish(h) /\ UNCHANGED <<asked, sent, given>>
      \/ dirty = {} /\ Finish(h) /\ Answer(t)
      \/ /\ task' = [task EXCEPT ![h].at = "write", ![h].dirty = dirty]
         /\ UNCHANGED <<asked, sent, given>>
  BY DEF SaveLoad
<1>3. CASE Finish(h) /\ UNCHANGED <<asked, sent, given>>
  BY <1>1, <1>3, Ends DEF RowsStand
<1>4. CASE task' = [task EXCEPT ![h].at = "write", ![h].dirty = dirty] /\ UNCHANGED <<asked, sent, given>>
  <2>1. RowsStand /\ ~At(h, "softLoad")
    BY <1>1, <1>4 DEF RowsStand, At
  <2> QED
    BY <1>1, <1>4, <2>1, ToWrite
<1>5. CASE dirty = {} /\ Finish(h) /\ Answer(t)
  <2>1. Moves(h) /\ task'[h].at = "idle" /\ Alone(h, t.table, t.key)
    BY <1>1, <1>5, FinishMoves DEF CourseworkInv
  <2>2. CASE t.table = "exams"
    <3>1. ExamAtWork(h) /\ exams \in [Exams -> Exam]
      BY DEF CourseworkInv, ExamsInv
    <3>2. /\ t.key \in Exams /\ exams[t.key].exists /\ t.row \in Exam /\ t.dto \in ExamDtos
          /\ exams[t.key] \in Exam
      BY <1>1, <2>2, <3>1 DEF ExamAtWork
    <3>3. t.row = exams[t.key]
      <4>1. Differing(t.row, exams[t.key]) = {}
        BY <1>5, <2>2 DEF Stored
      <4>2. /\ DOMAIN t.row = DOMAIN exams[t.key] /\ t.row = [f \in DOMAIN t.row |-> t.row[f]]
            /\ exams[t.key] = [f \in DOMAIN exams[t.key] |-> exams[t.key][f]]
        BY <3>2 DEF Exam
      <4> QED
        BY <4>1, <4>2, NothingDiffers
    <3>4. <<"exams", t.key>> \notin crossed => exams[t.key] = Assign(exams[t.key], t.dto)
      BY <1>1, <2>2, <3>1, <3>3 DEF ExamAtWork, Saving
    <3>5. exams' = [exams EXCEPT ![t.key] = exams[t.key]]
      BY <1>1, <3>1, <3>2
    <3>6. AskedFor(t.key, t.dto) /\ UNCHANGED <<sent, given>>
      <4>1. "score" \notin DOMAIN t.dto /\ "content" \notin DOMAIN t.dto
        BY <3>2 DEF ExamDtos
      <4> QED
        BY <1>5, <2>2, <4>1 DEF Answer, AskedFor
    <3> QED
      BY <1>1, <2>1, <2>2, <3>2, <3>4, <3>5, <3>6, ExamSaved
  <2>3. CASE t.table = "homeworks"
    <3>1. HomeworkAtWork(h) /\ homeworks \in [Homeworks -> Homework]
      BY DEF CourseworkInv, HomeworksInv
    <3>2. /\ t.key \in Homeworks /\ homeworks[t.key].exists /\ t.row \in Homework
          /\ t.dto \in HomeworkDtos /\ homeworks[t.key] \in Homework
      BY <1>1, <2>3, <3>1 DEF HomeworkAtWork
    <3>3. t.row = homeworks[t.key]
      <4>1. Differing(t.row, homeworks[t.key]) = {}
        BY <1>5, <2>3 DEF Stored
      <4>2. /\ DOMAIN t.row = DOMAIN homeworks[t.key] /\ t.row = [f \in DOMAIN t.row |-> t.row[f]]
            /\ homeworks[t.key] = [f \in DOMAIN homeworks[t.key] |-> homeworks[t.key][f]]
        BY <3>2 DEF Homework
      <4> QED
        BY <4>1, <4>2, NothingDiffers
    <3>4. <<"homeworks", t.key>> \notin crossed =>
            homeworks[t.key] = Assign(homeworks[t.key], t.dto)
      BY <1>1, <2>3, <3>1, <3>3 DEF HomeworkAtWork, Saving
    <3>5. homeworks' = [homeworks EXCEPT ![t.key] = homeworks[t.key]]
      BY <1>1, <3>1, <3>2
    <3>6. AskedFor(t.key, t.dto) /\ UNCHANGED <<sent, given>>
      <4>1. "score" \notin DOMAIN t.dto /\ "content" \notin DOMAIN t.dto
        BY <3>2 DEF HomeworkDtos
      <4> QED
        BY <1>5, <2>3, <4>1 DEF Answer, AskedFor
    <3> QED
      BY <1>1, <2>1, <2>3, <3>2, <3>4, <3>5, <3>6, HomeworkSaved
  <2>4. CASE t.table = "attempts"
    <3>1. AttemptAtWork(h)
      BY DEF CourseworkInv, AttemptsInv
    <3>2. "score" \notin DOMAIN t.dto /\ "content" \notin DOMAIN t.dto
      BY <1>1, <2>4, <3>1 DEF AttemptAtWork
    <3>3. RowsStand
      BY <1>1, <1>5, <2>4, <3>2 DEF Answer, RowsStand
    <3> QED
      BY <1>1, <1>5, <3>3, Ends
  <2>5. CASE t.table = "submissions"
    <3>1. SubmissionAtWork(h) /\ submissions \in [Pairs -> Submission]
      BY DEF CourseworkInv, SubmissionsInv
    <3>2. /\ t.key \in Pairs /\ submissions[t.key].status # "absent" /\ t.row \in Submission
          /\ t.dto \in HandInDtos \cup GradeDtos /\ submissions[t.key] \in Submission
      BY <1>1, <2>5, <3>1 DEF SubmissionAtWork
    <3>3. t.row = submissions[t.key]
      <4>1. Differing(t.row, submissions[t.key]) = {}
        BY <1>5, <2>5 DEF Stored
      <4>2. /\ DOMAIN t.row = DOMAIN submissions[t.key]
            /\ t.row = [f \in DOMAIN t.row |-> t.row[f]]
            /\ submissions[t.key] = [f \in DOMAIN submissions[t.key] |-> submissions[t.key][f]]
        BY <3>2 DEF Submission
      <4> QED
        BY <4>1, <4>2, NothingDiffers
    <3>4. <<"submissions", t.key>> \notin crossed =>
            /\ submissions[t.key] = Assign(submissions[t.key], t.dto)
            /\ t.row.content = submissions[t.key].content
      BY <1>1, <2>5, <3>1, <3>3 DEF SubmissionAtWork, Saving
    <3>5. submissions' = [submissions EXCEPT ![t.key] = submissions[t.key]]
      BY <1>1, <3>1, <3>2
    <3>6. /\ asked' = asked
          /\ \/ t.dto \in HandInDtos /\ HandInKept(t.key, t.dto)
             \/ t.dto \in GradeDtos /\ GradeKept(t.key, t.dto, t.row.content)
      BY <1>5, <2>5, <3>2, SubmissionAnswer
    <3> QED
      BY <1>1, <2>1, <2>5, <3>2, <3>4, <3>5, <3>6, SubmissionSaved
  <2> QED
    BY <1>1, <2>2, <2>3, <2>4, <2>5
<1> QED
  BY <1>2, <1>3, <1>4, <1>5
-----------------------------------------------------------------------------
(* New exams and homework, and every step.                                 *)

LEMMA LevelAsked ==
    ASSUME AskedShape, NEW d \in Exams \cup Homeworks, NEW level,
           asked' = [asked EXCEPT ![d].level = level]
    PROVE  AskedFor(d, [level |-> level])
<1> DEFINE old == asked[d]
           new == [old EXCEPT !.level = level]
<1>1. asked' = [asked EXCEPT ![d] = new]
  OBVIOUS
<1>2. old = [published |-> old.published, level |-> old.level, deleted |-> old.deleted]
  BY DEF AskedShape
<1> HIDE DEF old
<1>3. Assign(old, [level |-> level]) = new
  <2>1. new = [published |-> old.published, level |-> level, deleted |-> old.deleted]
    BY <1>2
  <2>2. DOMAIN old = {"published", "level", "deleted"}
    <3>1. \A p, l, c : DOMAIN [published |-> p, level |-> l, deleted |-> c]
                         = {"published", "level", "deleted"}
      OBVIOUS
    <3> QED
      BY <1>2, <3>1
  <2> DEFINE set == Assign(old, [level |-> level])
  <2>3. /\ set = [f \in {"published", "level", "deleted"} |-> set[f]]
        /\ set.published = old.published /\ set.level = level /\ set.deleted = old.deleted
    BY <2>2 DEF Assign
  <2> HIDE DEF set, new
  <2>4. set = [published |-> old.published, level |-> level, deleted |-> old.deleted]
    BY <2>3
  <2> QED
    BY <2>1, <2>4 DEF set
<1> QED
  BY <1>1, <1>3 DEF AskedFor, old

LEMMA IdleMoves ==
    ASSUME RequestsInv, NEW h \in Handlers, ~Busy(h), task' = task, crossed' = crossed
    PROVE  Moves(h) /\ task'[h].at = "idle" /\ AtWork(h)' /\ NotInserting(h)'
<1>1. RequestsInv'
  BY DEF RequestsInv, TaskShape, CrossingsNoted, Changes, Works, Busy, At, StepOfTable, Saves
<1>2. task'[h].at = "idle"
  BY DEF Busy
<1>3. AtWork(h)' /\ NotInserting(h)'
  BY <1>2, NothingAtWork DEF Busy
<1> QED
  BY <1>1, <1>2, <1>3 DEF Moves

LEMMA CreateExamStep ==
    ASSUME CourseworkInv, NEW h \in Handlers, CreateExam(h) PROVE CourseworkInv'
<1>1. ~Busy(h) /\ UNCHANGED <<attempts, homeworks, submissions, task, crossed, sent, given>>
  BY DEF CreateExam, Arrives
<1>2. PICK e \in Exams, level \in Levels, limit \in Limits :
        /\ ~exams[e].exists
        /\ exams' = [exams EXCEPT ![e] =
             [NoExam EXCEPT !.exists = TRUE, !.level = level, !.limit = limit]]
        /\ asked' = [asked EXCEPT ![e].level = level]
  BY DEF CreateExam
<1> DEFINE new == [NoExam EXCEPT !.exists = TRUE, !.level = level, !.limit = limit]
           dto == [level |-> level]
<1>3. /\ new \in Exam /\ new.exists = TRUE /\ new.deleted = FALSE /\ new.published = FALSE
      /\ new.level = level /\ new.limit = limit /\ limit \in Nat \ {0}
  BY CourseworkAssumption DEF NoExam, Exam
<1>4. exams' = [exams EXCEPT ![e] = new]
  BY <1>2
<1> HIDE DEF new
<1>5. /\ exams' \in [Exams -> Exam] /\ exams'[e] = new
      /\ \A d \in Exams \ {e} : exams'[d] = exams[d]
  BY <1>3, <1>4 DEF CourseworkInv, ExamsInv
<1>6. AskedFor(e, dto)
  BY <1>2, LevelAsked DEF CourseworkInv
<1>7. /\ AskedShape'
      /\ \A c \in (Exams \cup Homeworks) \ {e} : asked'[c] = asked[c]
      /\ \A f \in {"published", "level", "deleted"} :
           asked'[e][f] = IF f \in DOMAIN dto THEN dto[f] ELSE asked[e][f]
  BY <1>6, AskedKept DEF CourseworkInv
<1>8. /\ asked'[e].level = level /\ asked'[e].published = asked[e].published
      /\ asked'[e].deleted = asked[e].deleted
  <2>1. DOMAIN dto = {"level"} /\ dto["level"] = level
    OBVIOUS
  <2> HIDE DEF dto
  <2> QED
    BY <1>7, <2>1
<1>9. Moves(h) /\ AtWork(h)' /\ NotInserting(h)'
  BY <1>1, IdleMoves DEF CourseworkInv
<1>10. ExamsInv'
  <2>1. \A g \in Handlers : ExamAtWork(g)'
    BY <1>2, <1>5, <1>9, OthersOnExams DEF AtWork
  <2>2. \A d \in Exams : ~exams'[d].exists => exams'[d] = NoExam
    BY <1>3, <1>5 DEF CourseworkInv, ExamsInv
  <2>3. \A d \in Exams \ {e} : ExamStands(d)'
    BY <1>1, <1>5, <1>7 DEF CourseworkInv, ExamsInv, ExamStands
  <2>4. ExamStands(e)'
    <3> SUFFICES ASSUME <<"exams", e>> \notin crossed
                 PROVE  /\ new.published = asked'[e].published
                        /\ new.level = asked'[e].level
                        /\ new.deleted = asked'[e].deleted
      BY <1>1, <1>5 DEF ExamStands
    <3>1. exams[e] = NoExam /\ ExamStands(e)
      BY <1>2 DEF CourseworkInv, ExamsInv
    <3>2. NoExam.published = asked[e].published /\ NoExam.deleted = asked[e].deleted
      BY <3>1 DEF ExamStands
    <3>3. NoExam.published = FALSE /\ NoExam.deleted = FALSE
      BY DEF NoExam
    <3> QED
      BY <1>3, <1>8, <3>2, <3>3
  <2> QED
    BY <1>5, <2>1, <2>2, <2>3, <2>4 DEF ExamsInv
<1>11. HomeworksInv'
  BY <1>1, <1>7, <1>9, HomeworksKept, CourseworkAssumption DEF AtWork
<1>12. \A d \in Exams :
         \/ exams'[d].exists = exams[d].exists /\ exams'[d].limit = exams[d].limit
         \/ ~exams[d].exists /\ exams'[d].limit \in Nat \ {0}
  BY <1>2, <1>3, <1>5
<1>13. StartsInv'
  BY <1>1, <1>9, <1>12, StartsKept
<1>14. AttemptsInv' /\ SubmissionsInv'
  BY <1>1, <1>2, <1>5, <1>9, AttemptsKept, SubmissionsKept DEF AtWork
<1> QED
  BY <1>7, <1>9, <1>10, <1>11, <1>13, <1>14 DEF CourseworkInv, Moves

LEMMA CreateHomeworkStep ==
    ASSUME CourseworkInv, NEW h \in Handlers, CreateHomework(h) PROVE CourseworkInv'
<1>1. ~Busy(h) /\ UNCHANGED <<exams, attempts, submissions, task, crossed, sent, given>>
  BY DEF CreateHomework, Arrives
<1>2. PICK w \in Homeworks, level \in Levels :
        /\ ~homeworks[w].exists
        /\ homeworks' = [homeworks EXCEPT ![w] =
             [exists |-> TRUE, deleted |-> FALSE, level |-> level]]
        /\ asked' = [asked EXCEPT ![w].level = level]
  BY DEF CreateHomework
<1> DEFINE new == [exists |-> TRUE, deleted |-> FALSE, level |-> level]
           dto == [level |-> level]
<1>3. /\ new \in Homework /\ new.exists = TRUE /\ new.deleted = FALSE /\ new.level = level
  BY CourseworkAssumption DEF Homework
<1>4. homeworks' = [homeworks EXCEPT ![w] = new]
  BY <1>2
<1> HIDE DEF new
<1>5. /\ homeworks' \in [Homeworks -> Homework] /\ homeworks'[w] = new
      /\ \A d \in Homeworks \ {w} : homeworks'[d] = homeworks[d]
  BY <1>3, <1>4 DEF CourseworkInv, HomeworksInv
<1>6. AskedFor(w, dto)
  BY <1>2, LevelAsked DEF CourseworkInv
<1>7. /\ AskedShape'
      /\ \A c \in (Exams \cup Homeworks) \ {w} : asked'[c] = asked[c]
      /\ \A f \in {"published", "level", "deleted"} :
           asked'[w][f] = IF f \in DOMAIN dto THEN dto[f] ELSE asked[w][f]
  BY <1>6, AskedKept DEF CourseworkInv
<1>8. asked'[w].level = level /\ asked'[w].deleted = asked[w].deleted
  <2>1. DOMAIN dto = {"level"} /\ dto["level"] = level
    OBVIOUS
  <2> HIDE DEF dto
  <2> QED
    BY <1>7, <2>1
<1>9. Moves(h) /\ AtWork(h)' /\ NotInserting(h)'
  BY <1>1, IdleMoves DEF CourseworkInv
<1>10. HomeworksInv'
  <2>1. \A g \in Handlers : HomeworkAtWork(g)'
    BY <1>2, <1>5, <1>9, OthersOnHomeworks DEF AtWork
  <2>2. \A d \in Homeworks : ~homeworks'[d].exists => homeworks'[d] = NoHomework
    BY <1>3, <1>5 DEF CourseworkInv, HomeworksInv
  <2>3. \A d \in Homeworks \ {w} : HomeworkStands(d)'
    BY <1>1, <1>5, <1>7 DEF CourseworkInv, HomeworksInv, HomeworkStands
  <2>4. HomeworkStands(w)'
    <3> SUFFICES ASSUME <<"homeworks", w>> \notin crossed
                 PROVE  new.level = asked'[w].level /\ new.deleted = asked'[w].deleted
      BY <1>1, <1>5 DEF HomeworkStands
    <3>1. homeworks[w] = NoHomework /\ HomeworkStands(w)
      BY <1>2 DEF CourseworkInv, HomeworksInv
    <3>2. NoHomework.deleted = asked[w].deleted
      BY <3>1 DEF HomeworkStands
    <3>3. NoHomework.deleted = FALSE
      BY DEF NoHomework
    <3> QED
      BY <1>3, <1>8, <3>2, <3>3
  <2> QED
    BY <1>5, <2>1, <2>2, <2>3, <2>4 DEF HomeworksInv
<1>11. ExamsInv'
  BY <1>1, <1>7, <1>9, ExamsKept, CourseworkAssumption DEF AtWork
<1>12. AttemptsInv' /\ StartsInv' /\ SubmissionsInv'
  BY <1>1, <1>9, AttemptsKept, StartsKept, SubmissionsKept DEF AtWork
<1> QED
  BY <1>7, <1>9, <1>10, <1>11, <1>12 DEF CourseworkInv, Moves

LEMMA InitInv == Init => CourseworkInv
<1> SUFFICES ASSUME Init PROVE CourseworkInv
  OBVIOUS
<1>1. \A h \in Handlers : task[h] = Idle /\ ~Busy(h)
  BY DEF Init, Idle, Busy
<1>2. RequestsInv
  <2>1. TaskShape
    BY <1>1 DEF TaskShape, Init, Idle
  <2> QED
    BY <1>1, <2>1 DEF RequestsInv, CrossingsNoted, Changes, StepOfTable
<1>3. AskedShape
  BY DEF Init, AskedShape
<1>4. ExamsInv
  <2>1. exams \in [Exams -> Exam] /\ \A e \in Exams : exams[e] = NoExam
    BY DEF Init, NoExam, Exam
  <2>2. \A e \in Exams : ExamStands(e)
    BY DEF Init, ExamStands, NoExam
  <2> QED
    BY <1>1, <2>1, <2>2 DEF ExamsInv, ExamAtWork, Changes
<1>5. HomeworksInv
  <2>1. homeworks \in [Homeworks -> Homework] /\ \A w \in Homeworks : homeworks[w] = NoHomework
    BY DEF Init, NoHomework, Homework
  <2>2. \A w \in Homeworks : HomeworkStands(w)
    BY DEF Init, HomeworkStands, NoHomework
  <2> QED
    BY <1>1, <2>1, <2>2 DEF HomeworksInv, HomeworkAtWork, Changes
<1>6. SubmissionsInv
  <2>1. submissions \in [Pairs -> Submission] /\ \A k \in Pairs : submissions[k] = NoSubmission
    BY DEF Init, NoSubmission, Submission
  <2>2. SentShape /\ \A k \in Pairs : SubmissionIsLast(k)
    BY DEF Init, SubmissionIsLast, SentShape, NoSubmission
  <2> QED
    BY <1>1, <2>1, <2>2 DEF SubmissionsInv, SubmissionAtWork, Changes
<1>7. AttemptsInv
  <2>1. attempts = [a \in AttemptIds |-> attempts[a]] /\ \A a \in AttemptIds : attempts[a] = NoAttempt
    BY DEF Init
  <2>2. NoAttempt.exam = None /\ NoAttempt.submitted = FALSE /\ DOMAIN NoAttempt = AttemptColumns
    BY DEF NoAttempt, AttemptColumns
  <2> QED
    BY <1>1, <2>1, <2>2 DEF AttemptsInv, AttemptAtWork, StartAtWork, ScoreMatches, Changes
<1>8. StartsInv
  <2>1. \A h \in Handlers : CountedAtWork(h)
    BY <1>1 DEF CountedAtWork, At, Idle
  <2>2. ASSUME NEW e \in Exams, NEW s \in Students PROVE NumbersStand(e, s) /\ StartsFit(e, s)
    <3>1. AttemptsOf(e, s) = {}
      BY CourseworkAssumption DEF AttemptsOf, Init, NoAttempt
    <3>2. Cardinality(AttemptsOf(e, s)) = 0 /\ exams[e].limit = 1 /\ exams[e].exists = FALSE
      BY <3>1, FS_EmptySet DEF Init, NoExam
    <3>3. {attempts[a].number : a \in AttemptsOf(e, s)} = 1 .. Cardinality(AttemptsOf(e, s))
      BY <3>1, <3>2
    <3> QED
      BY <3>2, <3>3 DEF NumbersStand, StartsFit
  <2> QED
    BY <2>1, <2>2 DEF StartsInv
<1> QED
  BY <1>2, <1>3, <1>4, <1>5, <1>6, <1>7, <1>8 DEF CourseworkInv

LEMMA StepInv == CourseworkInv /\ [Next]_vars => CourseworkInv'
<1> SUFFICES ASSUME CourseworkInv, [Next]_vars PROVE CourseworkInv'
  OBVIOUS
<1>1. CASE UNCHANGED vars
  <2>1. UNCHANGED <<exams, attempts, homeworks, submissions, task, crossed, asked, sent, given>>
    BY <1>1 DEF vars, tables, history
  <2>2. RequestsInv' /\ AskedShape'
    BY <2>1 DEF CourseworkInv, RequestsInv, TaskShape, CrossingsNoted, Changes, Works, Busy, At,
       StepOfTable, Saves, AskedShape
  <2>3. ExamsInv' /\ HomeworksInv'
    BY <2>1 DEF CourseworkInv, ExamsInv, HomeworksInv, ExamAtWork, HomeworkAtWork, ExamStands,
       HomeworkStands, Saving, Assign, Differing, Changes, Busy, At
  <2>4. SubmissionsInv'
    BY <2>1 DEF CourseworkInv, SubmissionsInv, SubmissionAtWork, SubmissionIsLast, SentShape,
       Saves, Saving, Assign, Differing, Changes, Busy, At
  <2>5. AttemptsInv'
    BY <2>1 DEF CourseworkInv, AttemptsInv, AttemptAtWork, StartAtWork, ScoreMatches, Saves,
       Differing, Changes, Busy, At
  <2>6. StartsInv'
    <3>1. /\ \A e, s : AttemptsOf(e, s)' = AttemptsOf(e, s)
          /\ \A e, s : Inserting(e, s)' = Inserting(e, s)
      BY <2>1 DEF AttemptsOf, Inserting, At
    <3>2. \A h \in Handlers : CountedAtWork(h)'
      BY <2>1 DEF CourseworkInv, StartsInv, CountedAtWork, AttemptsOf, At
    <3>3. \A e \in Exams, s \in Students : StartsFit(e, s)'
      BY <2>1, <3>1 DEF CourseworkInv, StartsInv, StartsFit
    <3>4. \A e \in Exams, s \in Students : NumbersStand(e, s)'
      BY <2>1, <3>1 DEF CourseworkInv, StartsInv, NumbersStand
    <3> QED
      BY <3>2, <3>3, <3>4 DEF StartsInv
  <2> QED
    BY <2>2, <2>3, <2>4, <2>5, <2>6 DEF CourseworkInv
<1>2. ASSUME NEW h \in Handlers, Request(h) PROVE CourseworkInv'
  BY <1>2, RequestStep, CreateExamStep, CreateHomeworkStep DEF Request
<1>3. ASSUME NEW h \in Handlers, Proceed(h) PROVE CourseworkInv'
  BY <1>3, SaveLoadStep, SoftRemoveLoadStep, ExamWriteStep, AttemptWriteStep, HomeworkWriteStep,
     SubmissionWriteStep, QuestionsInsertStep, StartCountStep, StartInsertStep, AttemptGradeStep,
     SubmitLookStep, SubmissionInsertStep DEF Proceed
<1>4. ASSUME NEW h \in Handlers, HandlerFails(h) PROVE CourseworkInv'
  BY <1>4, HandlerFailsStep
<1> QED
  BY <1>1, <1>2, <1>3, <1>4 DEF Next
-----------------------------------------------------------------------------
(* What holds in every reachable state.                                    *)

LEMMA InvHolds == Spec => []CourseworkInv
BY InitInv, StepInv, PTL DEF Spec

\* A student gets at most maxAttempts attempts at an exam and one for every other start in
\* flight (startAttempt counts, then inserts).  If the starts never overlapped there are no
\* more than the exam allows, numbered 1, 2, 3 ...
THEOREM AttemptsStandHolds == Spec => []AttemptsStand
<1>1. CourseworkInv => AttemptsStand
  <2> SUFFICES ASSUME CourseworkInv PROVE AttemptsStand
    OBVIOUS
  <2>1. AttemptsNumbered
    BY DEF CourseworkInv, StartsInv, NumbersStand, AttemptsNumbered
  <2>2. ASSUME NEW e \in LiveExams, NEW s \in Students
        PROVE  Cardinality(AttemptsOf(e, s)) <= exams[e].limit + Cardinality(Handlers) - 1
    <3> DEFINE n == Cardinality(AttemptsOf(e, s))
               i == Cardinality(Inserting(e, s))
    <3>1. e \in Exams /\ exams[e].exists /\ exams[e].limit \in Nat
      BY DEF LiveExams, CourseworkInv, ExamsInv, Exam
    <3>2. n + i <= exams[e].limit + Cardinality(Handlers) - 1
      BY <3>1 DEF CourseworkInv, StartsInv, StartsFit
    <3>3. n \in Nat /\ i \in Nat /\ Cardinality(Handlers) \in Nat
      BY AttemptsAreFinite
    <3> HIDE DEF n, i
    <3>4. n <= exams[e].limit + Cardinality(Handlers) - 1
      BY <3>1, <3>2, <3>3
    <3> QED
      BY <3>4 DEF n
  <2> QED
    BY <2>1, <2>2 DEF AttemptsStand, AttemptsOvershootBounded
<1> QED
  BY <1>1, InvHolds, PTL

\* The score saved by submitAttempt is what the answers saved with it are worth, while
\* questions are added and the exam is edited, unless two submissions of it overlapped.
THEOREM ScoreMatchesAnswersHolds == Spec => []ScoreMatchesAnswers
<1>1. CourseworkInv => ScoreMatchesAnswers
  BY DEF CourseworkInv, AttemptsInv, ScoreMatches, ScoreMatchesAnswers
<1> QED
  BY <1>1, InvHolds, PTL

\* A submission holds what was handed in last and the score given last, and is graded only
\* while its content is what the teacher read, unless two requests about it overlapped.
THEOREM SubmissionStandsHolds == Spec => []SubmissionStands
<1>1. CourseworkInv => SubmissionStands
  BY DEF CourseworkInv, SubmissionsInv, SubmissionIsLast, SubmissionStands
<1> QED
  BY <1>1, InvHolds, PTL

\* An exam or homework is as its edits asked, whatever attempts, submissions and questions
\* do beside, unless two of the edits overlapped: save writes back no column of another's.
THEOREM EditsStandHolds == Spec => []EditsStand
<1>1. CourseworkInv => EditsStand
  BY DEF CourseworkInv, ExamsInv, HomeworksInv, ExamStands, HomeworkStands, EditsStand
<1> QED
  BY <1>1, InvHolds, PTL
-----------------------------------------------------------------------------
(* Types.                                                                  *)

\* Right answers are worth a natural number of marks.
LEMMA WorthIsNat == ASSUME NEW answers \in [Questions -> Nat] PROVE Worth(answers) \in Nat
<1> DEFINE f == [q \in Questions |-> answers[q] * Marks[q]]
           Is(sum) == sum = [s \in SUBSET Questions |->
                        IF s = {} THEN 0
                        ELSE answers[CHOOSE y \in s : TRUE] * Marks[CHOOSE y \in s : TRUE]
                             + sum[s \ {CHOOSE y \in s : TRUE}]]
           iter == CHOOSE sum : Is(sum)
<1>0. IsFiniteSet(Questions) /\ DOMAIN answers = Questions /\ \A q \in Questions : f[q] \in Nat
  <2>1. ASSUME NEW q \in Questions PROVE f[q] \in Nat
    <3>1. answers[q] \in Nat /\ Marks[q] \in Nat
      BY CourseworkAssumption
    <3>2. ASSUME NEW m \in Nat, NEW n \in Nat PROVE m * n \in Nat
      OBVIOUS
    <3> QED
      BY <3>1, <3>2
  <2> QED
    BY <2>1, CourseworkAssumption
<1>1. Worth(answers) = iter[Questions]
  BY <1>0 DEF Worth, MapThenSumSet, MapThenFoldSet
<1>2. ASSUME NEW sum PROVE Is(sum) <=> Sums(f, Questions, sum)
  <2>1. ASSUME NEW s \in SUBSET Questions, s # {}
        PROVE  f[Picked(s)] = answers[CHOOSE y \in s : TRUE] * Marks[CHOOSE y \in s : TRUE]
    BY <2>1, PickedIn DEF Picked
  <2>2. \A s \in SUBSET Questions :
          NextSum(f, sum, s) =
            IF s = {} THEN 0
            ELSE answers[CHOOSE y \in s : TRUE] * Marks[CHOOSE y \in s : TRUE]
                 + sum[s \ {CHOOSE y \in s : TRUE}]
    BY <2>1 DEF NextSum, Picked
  <2> QED
    BY <2>2 DEF Sums
<1>3. PICK sum : Sums(f, Questions, sum) /\ SumOver(f, Questions) = sum[Questions]
  BY <1>0, SumOverSums
<1>4. Is(iter)
  <2>1. Is(sum)
    BY <1>2, <1>3
  <2> HIDE DEF Is
  <2> QED
    BY <2>1
<1>5. Sums(f, Questions, iter)
  BY <1>2, <1>4
<1>6. iter[Questions] = sum[Questions]
  <2> HIDE DEF iter, f
  <2>1. \A x \in Questions : f[x] = f[x]
    OBVIOUS
  <2>2. \A s \in SUBSET Questions : iter[s] = sum[s]
    BY <1>0, <1>3, <1>5, <2>1, SumsAgree
  <2> QED
    BY <2>2
<1>7. SumOver(f, Questions) \in Nat
  <2> HIDE DEF f
  <2> QED
    BY <1>0, SumOverNat
<1> QED
  BY <1>1, <1>3, <1>6, <1>7

\* An attempt in memory has the columns of one, and a score that is given is one of Scores.
Typed ==
    /\ questions \in [Exams -> SUBSET Questions]
    /\ attempts \in [AttemptIds -> Attempt]
    /\ arrived \in Nat /\ failures \in Nat
    /\ given \in [Pairs -> Nat \cup {None}]

HoldsAttempt(h) == Busy(h) /\ task[h].table \in {"attempts", "starts"} => task[h].row \in Attempt

TypesInv == Typed /\ \A h \in Handlers : HoldsAttempt(h)

LEMMA InitTypes == Init => TypesInv
<1> SUFFICES ASSUME Init PROVE TypesInv
  OBVIOUS
<1>1. NoAttempt \in Attempt
  BY DEF NoAttempt, Attempt
<1>2. Typed
  BY <1>1 DEF Init, Typed
<1>3. \A h \in Handlers : ~Busy(h)
  BY DEF Init, Busy, Idle
<1> QED
  BY <1>2, <1>3 DEF TypesInv, HoldsAttempt

\* An attempt stays one when columns of it are assigned.
LEMMA AttemptAssigned ==
    ASSUME NEW row \in Attempt
    PROVE  /\ \A e \in Exams, s \in Students :
                Assign(row, [exam |-> e, student |-> s]) \in Attempt
           /\ \A sheet \in Sheets : Assign(row, [answers |-> sheet]) \in Attempt
           /\ \A n \in Nat : [row EXCEPT !.number = n] \in Attempt
<1>1. ASSUME NEW e \in Exams, NEW s \in Students
      PROVE  Assign(row, [exam |-> e, student |-> s]) \in Attempt
  <2> DEFINE dto == [exam |-> e, student |-> s]
  <2>1. DOMAIN dto = {"exam", "student"} /\ dto["exam"] = e /\ dto["student"] = s
    OBVIOUS
  <2> HIDE DEF dto
  <2>2. Assign(row, dto) = [row EXCEPT !.exam = e, !.student = s]
    BY <2>1 DEF Assign, Attempt
  <2>3. Assign(row, dto) \in Attempt
    BY <2>2 DEF Attempt
  <2> QED
    BY <2>3 DEF dto
<1>2. ASSUME NEW sheet \in Sheets PROVE Assign(row, [answers |-> sheet]) \in Attempt
  <2>1. DOMAIN [answers |-> sheet] = {"answers"} /\ sheet \in [Questions -> Nat]
    BY CourseworkAssumption
  <2>2. Assign(row, [answers |-> sheet]) = [row EXCEPT !.answers = sheet]
    BY <2>1 DEF Assign, Attempt
  <2> QED
    BY <2>1, <2>2 DEF Attempt
<1>3. \A n \in Nat : [row EXCEPT !.number = n] \in Attempt
  BY DEF Attempt
<1> QED
  BY <1>1, <1>2, <1>3

LEMMA GradedIsAttempt == ASSUME NEW row \in Attempt PROVE Graded(row) \in Attempt
<1> DEFINE right == Right(row.exam, row.answers)
<1>1. row.answers \in [Questions -> Nat]
  BY DEF Attempt
<1>2. right \in [Questions -> Nat]
  BY <1>1 DEF Right
<1>3. Worth(right) \in Nat
  BY <1>2, WorthIsNat
<1>4. (Worth(right) >= exams[row.exam].level) \in BOOLEAN
  OBVIOUS
<1> DEFINE pass == Worth(right) >= exams[row.exam].level
<1>5. Graded(row) = [row EXCEPT !.submitted = TRUE, !.answers = right, !.score = Worth(right),
                                !.passed = pass]
  BY DEF Graded
<1>6. pass \in BOOLEAN
  OBVIOUS
<1> HIDE DEF right, pass
<1> QED
  BY <1>2, <1>3, <1>5, <1>6 DEF Attempt

LEMMA WrittenIsAttempt ==
    ASSUME NEW stored \in Attempt, NEW t, t.row \in Attempt
    PROVE  Written(stored, t) \in Attempt
BY DEF Written, Attempt

\* What the request that steps has in memory decides.
LEMMA HoldsOthers ==
    ASSUME CourseworkInv, NEW h \in Handlers, \A g \in Handlers : HoldsAttempt(g),
           \A g \in Handlers \ {h} : task'[g] = task[g], HoldsAttempt(h)'
    PROVE  \A g \in Handlers : HoldsAttempt(g)'
BY DEF HoldsAttempt, Busy, At

LEMMA BeginTypes ==
    ASSUME CourseworkInv, TypesInv, NEW h \in Handlers, NEW e, Arrives(h, e), NEW step, NEW table,
           NEW key, NEW entity, NEW dto, Begin(h, step, table, key, entity, dto),
           UNCHANGED <<tables, failures, asked, sent, given>>,
           table \in {"attempts", "starts"} => Assign(entity, dto) \in Attempt
    PROVE  TypesInv'
<1>1. Typed'
  BY DEF TypesInv, Typed, Arrives, tables
<1>2. Replaced(h) /\ Becomes(h, step, table, key, Assign(entity, dto), dto, {})
  BY ReplacedTask DEF Begin, CourseworkInv, RequestsInv
<1>3. HoldsAttempt(h)'
  BY <1>2 DEF Becomes, HoldsAttempt
<1>4. \A g \in Handlers : HoldsAttempt(g)'
  BY <1>2, <1>3, HoldsOthers DEF TypesInv, Replaced
<1> QED
  BY <1>1, <1>4 DEF TypesInv

LEMMA RequestTypes ==
    ASSUME CourseworkInv, TypesInv, NEW h \in Handlers, Request(h) PROVE TypesInv'
<1>1. CASE CreateExam(h) \/ CreateHomework(h)
  <2>1. UNCHANGED <<questions, attempts, task, failures, given>> /\ arrived' = arrived + 1
    BY <1>1 DEF CreateExam, CreateHomework, Arrives
  <2> QED
    BY <2>1 DEF TypesInv, Typed, HoldsAttempt, Busy, At
<1>2. CASE EditExam(h)
  <2>1. UNCHANGED <<tables, failures, asked, sent, given>>
    BY <1>2 DEF EditExam
  <2>2. PICK e \in LiveExams :
          \/ /\ Arrives(h, "edit-exam")
             /\ \E level \in Levels : Begin(h, "load", "exams", e, exams[e], [level |-> level])
          \/ /\ Arrives(h, "publish")
             /\ Begin(h, "load", "exams", e, exams[e], [published |-> TRUE])
    BY <1>2 DEF EditExam
  <2>3. ASSUME NEW p, NEW dto, Arrives(h, p), Begin(h, "load", "exams", e, exams[e], dto)
        PROVE  TypesInv'
    BY <2>1, <2>3, BeginTypes
  <2> QED
    BY <2>2, <2>3
<1>3. CASE RemoveExam(h)
  BY <1>3, BeginTypes DEF RemoveExam
<1>4. CASE QuestionsFind(h)
  BY <1>4, BeginTypes DEF QuestionsFind
<1>5. CASE StartFind(h)
  <2>1. PICK e \in LiveExams, s \in Students :
          Begin(h, "count", "starts", <<e, s>>, NoAttempt, [exam |-> e, student |-> s])
    BY <1>5 DEF StartFind
  <2>2. e \in Exams /\ NoAttempt \in Attempt
    BY DEF LiveExams, NoAttempt, Attempt
  <2>3. Assign(NoAttempt, [exam |-> e, student |-> s]) \in Attempt
    BY <2>2, AttemptAssigned
  <2>4. Arrives(h, "start") /\ UNCHANGED <<tables, failures, asked, sent, given>>
    BY <1>5 DEF StartFind
  <2> QED
    BY <2>1, <2>3, <2>4, BeginTypes
<1>6. CASE AttemptFind(h)
  <2>1. PICK a \in AttemptIds, sheet \in Sheets :
          Begin(h, "gradeSheet", "attempts", a, attempts[a], [answers |-> sheet])
    BY <1>6 DEF AttemptFind
  <2>2. attempts[a] \in Attempt
    BY DEF TypesInv, Typed
  <2>3. Assign(attempts[a], [answers |-> sheet]) \in Attempt
    BY <2>2, AttemptAssigned
  <2>4. Arrives(h, "submit-attempt") /\ UNCHANGED <<tables, failures, asked, sent, given>>
    BY <1>6 DEF AttemptFind
  <2> QED
    BY <2>1, <2>3, <2>4, BeginTypes
<1>7. CASE EditHomework(h)
  <2>1. UNCHANGED <<tables, failures, asked, sent, given>>
    BY <1>7 DEF EditHomework
  <2>2. PICK w \in LiveHomeworks :
          \/ /\ Arrives(h, "edit-homework")
             /\ \E level \in Levels :
                  Begin(h, "load", "homeworks", w, homeworks[w], [level |-> level])
          \/ /\ Arrives(h, "remove-homework")
             /\ Begin(h, "softLoad", "homeworks", w, homeworks[w], [deleted |-> TRUE])
    BY <1>7 DEF EditHomework
  <2>3. ASSUME NEW p, NEW step, NEW dto, Arrives(h, p),
               Begin(h, step, "homeworks", w, homeworks[w], dto)
        PROVE  TypesInv'
    BY <2>1, <2>3, BeginTypes
  <2> QED
    BY <2>2, <2>3
<1>8. CASE SubmitFind(h)
  BY <1>8, BeginTypes DEF SubmitFind
<1>9. CASE GradeFind(h)
  BY <1>9, BeginTypes DEF GradeFind
<1> QED
  BY <1>1, <1>2, <1>3, <1>4, <1>5, <1>6, <1>7, <1>8, <1>9 DEF Request

LEMMA DtoScores ==
    ASSUME NEW dto \in (ExamDtos \cup HomeworkDtos) \cup (HandInDtos \cup GradeDtos)
    PROVE  "score" \in DOMAIN dto => dto["score"] \in Nat
<1> DEFINE Natural == "score" \in DOMAIN dto => dto["score"] \in Nat
<1>1. ASSUME NEW l, dto = [level |-> l] \/ dto = [published |-> l] \/ dto = [deleted |-> l]
      PROVE  Natural
  BY <1>1
<1>2. ASSUME NEW c, dto = [content |-> c, status |-> "submitted"] PROVE Natural
  BY <1>2
<1>3. ASSUME NEW n \in Scores, dto = [score |-> n, status |-> "graded"] PROVE Natural
  BY <1>3, CourseworkAssumption
<1>4. CASE dto \in ExamDtos \cup HomeworkDtos
  BY <1>1, <1>4 DEF ExamDtos, HomeworkDtos
<1>5. CASE dto \in HandInDtos
  BY <1>2, <1>5 DEF HandInDtos
<1>6. CASE dto \in GradeDtos
  BY <1>3, <1>6 DEF GradeDtos
<1> QED
  BY <1>4, <1>5, <1>6

\* A request that saves gives a natural number, if it gives a score.
LEMMA ScoreGiven ==
    ASSUME CourseworkInv, NEW h \in Handlers,
           Saves(h) \/ (At(h, "insert") /\ On(h, "submissions"))
    PROVE  "score" \in DOMAIN task[h].dto => task[h].dto["score"] \in Nat
<1>1. Changes(h) /\ StepOfTable(h) /\ Busy(h)
  BY DEF CourseworkInv, RequestsInv, Saves, At, Changes, Busy
<1>2. task[h].table \in {"exams", "homeworks", "attempts", "submissions"}
  BY <1>1 DEF StepOfTable, Saves, At, On
<1>3. CASE task[h].table = "exams"
  BY <1>1, <1>3, DtoScores DEF CourseworkInv, ExamsInv, ExamAtWork
<1>4. CASE task[h].table = "homeworks"
  BY <1>1, <1>4, DtoScores DEF CourseworkInv, HomeworksInv, HomeworkAtWork
<1>5. CASE task[h].table = "attempts"
  BY <1>1, <1>5 DEF CourseworkInv, AttemptsInv, AttemptAtWork
<1>6. CASE task[h].table = "submissions"
  BY <1>1, <1>6, DtoScores DEF CourseworkInv, SubmissionsInv, SubmissionAtWork
<1> QED
  BY <1>2, <1>3, <1>4, <1>5, <1>6

LEMMA AnswerTypes ==
    ASSUME given \in [Pairs -> Nat \cup {None}], NEW t, Answer(t),
           "score" \in DOMAIN t.dto => t.dto["score"] \in Nat
    PROVE  given' \in [Pairs -> Nat \cup {None}]
BY DEF Answer

\* The steps of a request that is under way.
LEMMA ProceedTypes ==
    ASSUME CourseworkInv, TypesInv, NEW h \in Handlers, Proceed(h) \/ HandlerFails(h)
    PROVE  TypesInv'
<1> DEFINE t == task[h]
<1>0. /\ Typed /\ HoldsAttempt(h) /\ \A g \in Handlers : HoldsAttempt(g)
      /\ TaskShape
  BY DEF TypesInv, CourseworkInv, RequestsInv
<1>1. ASSUME Typed', Replaced(h), HoldsAttempt(h)' PROVE TypesInv'
  BY <1>0, <1>1, HoldsOthers DEF TypesInv, Replaced
<1>2. ASSUME Finish(h) PROVE Replaced(h) /\ HoldsAttempt(h)'
  <2>1. Replaced(h) /\ Becomes(h, "idle", None, None, None, None, {})
    BY <1>0, <1>2, ReplacedTask DEF Finish, Idle
  <2> QED
    BY <2>1 DEF Becomes, HoldsAttempt, Busy
<1>3. ASSUME NEW step, NEW row, NEW dirty, Busy(h),
             Replaced(h), Becomes(h, step, t.table, t.key, row, t.dto, dirty),
             t.table \in {"attempts", "starts"} => row = t.row \/ row \in Attempt
      PROVE  HoldsAttempt(h)'
  BY <1>0, <1>3 DEF Becomes, HoldsAttempt
<1>4. CASE SaveLoad(h)
  <2>1. At(h, "load") /\ Busy(h) /\ Saves(h)
        /\ UNCHANGED <<questions, attempts, arrived, failures>>
    BY <1>4 DEF SaveLoad, At, Busy, Saves, tables
  <2>2. Finish(h) \/ task' = [task EXCEPT ![h].at = "write",
                                ![h].dirty = Differing(t.row, Stored(t.table, t.key))]
    BY <1>4 DEF SaveLoad
  <2>3. given' = given \/ Answer(t)
    BY <1>4 DEF SaveLoad
  <2>4. Typed'
    BY <1>0, <2>1, <2>3, ScoreGiven, AnswerTypes DEF Typed
  <2>5. ASSUME ~Finish(h)
        PROVE  /\ Replaced(h)
               /\ Becomes(h, "write", t.table, t.key, t.row, t.dto,
                          Differing(t.row, Stored(t.table, t.key)))
    BY <1>0, <2>2, <2>5, NextStatement
  <2>6. Replaced(h) /\ HoldsAttempt(h)'
    BY <1>2, <1>3, <2>1, <2>5
  <2> QED
    BY <1>1, <2>4, <2>6
<1>5. CASE SoftRemoveLoad(h)
  <2>1. Typed' /\ Busy(h)
    BY <1>0, <1>5 DEF SoftRemoveLoad, At, Busy, tables, history, Typed
  <2>2. Finish(h) \/ task' = [task EXCEPT ![h].at = "write", ![h].dirty = {"deleted"}]
    BY <1>5 DEF SoftRemoveLoad
  <2>3. ASSUME ~Finish(h)
        PROVE  Replaced(h) /\ Becomes(h, "write", t.table, t.key, t.row, t.dto, {"deleted"})
    BY <1>0, <2>2, <2>3, NextStatement
  <2>4. Replaced(h) /\ HoldsAttempt(h)'
    BY <1>2, <1>3, <2>1, <2>3
  <2> QED
    BY <1>1, <2>1, <2>4
<1>6. CASE ExamWrite(h) \/ HomeworkWrite(h) \/ SubmissionWrite(h)
  <2>1. /\ Saves(h) /\ Finish(h) /\ Answer(t)
        /\ UNCHANGED <<questions, attempts, arrived, failures>>
    BY <1>6 DEF ExamWrite, HomeworkWrite, SubmissionWrite, At, Saves
  <2>2. Typed'
    BY <1>0, <2>1, ScoreGiven, AnswerTypes DEF Typed
  <2> QED
    BY <1>1, <1>2, <2>1, <2>2
<1>7. CASE SubmissionInsert(h)
  <2>1. /\ At(h, "insert") /\ On(h, "submissions") /\ Finish(h)
        /\ given' = given \/ Answer(t)
        /\ UNCHANGED <<questions, attempts, arrived, failures>>
    BY <1>7 DEF SubmissionInsert
  <2>2. Typed'
    BY <1>0, <2>1, ScoreGiven, AnswerTypes DEF Typed
  <2> QED
    BY <1>1, <1>2, <2>1, <2>2
<1>8. CASE AttemptWrite(h)
  <2>1. /\ At(h, "write") /\ On(h, "attempts") /\ Finish(h)
        /\ attempts' = [attempts EXCEPT ![t.key] = Written(@, t)]
        /\ UNCHANGED <<questions, arrived, failures, given>>
    BY <1>8 DEF AttemptWrite, history
  <2>2. t.row \in Attempt
    BY <1>0, <2>1 DEF HoldsAttempt, Busy, At, On
  <2>3. \A a \in AttemptIds : Written(attempts[a], t) \in Attempt
    BY <1>0, <2>2, WrittenIsAttempt DEF Typed
  <2>4. attempts' \in [AttemptIds -> Attempt]
    BY <1>0, <2>1, <2>3 DEF Typed
  <2>5. Typed'
    BY <1>0, <2>1, <2>4 DEF Typed
  <2> QED
    BY <1>1, <1>2, <2>1, <2>5
<1>9. CASE QuestionsInsert(h)
  <2>1. PICK new \in SUBSET (Questions \ Asked) :
          questions' = [questions EXCEPT ![t.key] = @ \cup new]
    BY <1>9 DEF QuestionsInsert
  <2>2. Finish(h) /\ UNCHANGED <<attempts, arrived, failures, given>>
    BY <1>9 DEF QuestionsInsert, history
  <2>3. questions' \in [Exams -> SUBSET Questions]
    BY <1>0, <2>1 DEF Typed
  <2>4. Typed'
    BY <1>0, <2>2, <2>3 DEF Typed
  <2> QED
    BY <1>1, <1>2, <2>2, <2>4
<1>10. CASE StartCount(h)
  <2> DEFINE n == Cardinality(AttemptsOf(t.row.exam, t.row.student))
  <2>1. Typed' /\ Busy(h) /\ At(h, "count")
    BY <1>0, <1>10 DEF StartCount, At, Busy, tables, history, Typed
  <2>2. Finish(h) \/ task' = [task EXCEPT ![h].at = "insert", ![h].row.number = n + 1]
    BY <1>10 DEF StartCount, NumberAfter
  <2>3. t.table = "starts"
    BY <2>1 DEF CourseworkInv, RequestsInv, StepOfTable, Saves, At
  <2>4. t.row \in Attempt
    BY <1>0, <2>1, <2>3 DEF HoldsAttempt
  <2>5. n + 1 \in Nat
    BY AttemptsAreFinite
  <2> HIDE DEF n
  <2>6. [t.row EXCEPT !.number = n + 1] \in Attempt
    BY <2>4, <2>5, AttemptAssigned
  <2>7. ASSUME ~Finish(h)
        PROVE  /\ Replaced(h)
               /\ Becomes(h, "insert", t.table, t.key, [t.row EXCEPT !.number = n + 1],
                          t.dto, t.dirty)
    BY <1>0, <2>2, <2>7, NextStatement
  <2>8. Replaced(h) /\ HoldsAttempt(h)'
    BY <1>2, <1>3, <2>1, <2>6, <2>7
  <2> QED
    BY <1>1, <2>1, <2>8
<1>11. CASE StartInsert(h)
  <2>1. PICK a \in AttemptIds : attempts' = [attempts EXCEPT ![a] = t.row]
    BY <1>11 DEF StartInsert
  <2>2. /\ At(h, "insert") /\ On(h, "starts") /\ Finish(h)
        /\ UNCHANGED <<questions, arrived, failures, given>>
    BY <1>11 DEF StartInsert, history
  <2>3. t.row \in Attempt
    BY <1>0, <2>2 DEF HoldsAttempt, Busy, At, On
  <2>4. attempts' \in [AttemptIds -> Attempt]
    BY <1>0, <2>1, <2>3 DEF Typed
  <2>5. Typed'
    BY <1>0, <2>2, <2>4 DEF Typed
  <2> QED
    BY <1>1, <1>2, <2>2, <2>5
<1>12. CASE AttemptGrade(h)
  <2>1. Typed' /\ Busy(h) /\ At(h, "gradeSheet")
    BY <1>0, <1>12 DEF AttemptGrade, At, Busy, tables, history, Typed
  <2>2. Finish(h) \/ task' = [task EXCEPT ![h].at = "load", ![h].row = Graded(t.row)]
    BY <1>12 DEF AttemptGrade
  <2>3. t.table = "attempts"
    BY <2>1 DEF CourseworkInv, RequestsInv, StepOfTable, Saves, At
  <2>4. Graded(t.row) \in Attempt
    BY <1>0, <2>1, <2>3, GradedIsAttempt DEF HoldsAttempt
  <2>5. ASSUME ~Finish(h)
        PROVE  Replaced(h) /\ Becomes(h, "load", t.table, t.key, Graded(t.row), t.dto, t.dirty)
    BY <1>0, <2>2, <2>5, NextStatement
  <2>6. Replaced(h) /\ HoldsAttempt(h)'
    BY <1>2, <1>3, <2>1, <2>4, <2>5
  <2> QED
    BY <1>1, <2>1, <2>6
<1>13. CASE SubmitLook(h)
  <2>1. Typed' /\ Busy(h) /\ At(h, "look")
    BY <1>0, <1>13 DEF SubmitLook, At, Busy, tables, history, Typed
  <2>2. task' = [task EXCEPT ![h].at = "insert"]
        \/ task' = [task EXCEPT ![h].at = "load", ![h].row = HandedIn(submissions[t.key], t.dto)]
    BY <1>13 DEF SubmitLook, Goto
  <2>3. t.table = "submissions"
    BY <2>1 DEF CourseworkInv, RequestsInv, StepOfTable, Saves, At
  <2>4. /\ Replaced(h)
        /\ \/ Becomes(h, "insert", t.table, t.key, t.row, t.dto, t.dirty)
           \/ Becomes(h, "load", t.table, t.key, HandedIn(submissions[t.key], t.dto),
                      t.dto, t.dirty)
    BY <1>0, <2>2, NextStatement
  <2>5. HoldsAttempt(h)'
    BY <1>3, <2>1, <2>3, <2>4
  <2> QED
    BY <1>1, <2>1, <2>4, <2>5
<1>14. CASE HandlerFails(h)
  <2>1. Typed' /\ Finish(h)
    BY <1>0, <1>14 DEF HandlerFails, tables, history, Typed
  <2> QED
    BY <1>1, <1>2, <2>1
<1> QED
  BY <1>4, <1>5, <1>6, <1>7, <1>8, <1>9, <1>10, <1>11, <1>12, <1>13, <1>14 DEF Proceed

LEMMA TypesStep == CourseworkInv /\ TypesInv /\ [Next]_vars => TypesInv'
<1> SUFFICES ASSUME CourseworkInv, TypesInv, [Next]_vars PROVE TypesInv'
  OBVIOUS
<1>1. CASE UNCHANGED vars
  BY <1>1 DEF vars, tables, history, TypesInv, Typed, HoldsAttempt, Busy, At
<1> QED
  BY <1>1, RequestTypes, ProceedTypes DEF Next

\* Every attempt, question and score keeps its columns' types, however requests overlap and
\* fail: what is saved from memory is a whole row.
THEOREM TypeCorrect == Spec => []TypeOK
<1>1. CourseworkInv /\ TypesInv => TypeOK
  BY DEF CourseworkInv, ExamsInv, HomeworksInv, SubmissionsInv, TypesInv, Typed, TypeOK
<1> QED
  BY <1>1, InvHolds, InitTypes, TypesStep, PTL DEF Spec
=============================================================================
