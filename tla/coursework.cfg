\* Two requests at a time, one failing statement.
SPECIFICATION Spec
CHECK_DEADLOCK FALSE

CONSTANTS
    e1 = e1  w1 = w1  s1 = s1  s2 = s2  a1 = a1  a2 = a2  a3 = a3
    q1 = q1  q2 = q2  h1 = h1  h2 = h2  c1 = c1  c2 = c2
    None = None
    Exams = {e1}
    Homeworks = {w1}
    Students = {s1}
    AttemptIds = {a1, a2, a3}
    Questions = {q1, q2}
    Marks <- TwoEach
    Sheets <- TwoSheets
    Limits = {1}
    Levels = {0, 3}
    Contents = {c1, c2}
    Scores = {0, 5}
    Handlers = {h1, h2}
    Endpoints <- AllEndpoints
    MaxRequests = 6
    MaxFailures = 1

SYMMETRY IdSymmetry

INVARIANTS
    TypeOK
    AttemptsStand
    ScoreMatchesAnswers
    SubmissionStands
    EditsStand
