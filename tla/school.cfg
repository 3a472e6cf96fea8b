\* Two requests at a time, one failing statement.
SPECIFICATION Spec
CHECK_DEADLOCK FALSE

CONSTANTS
    t1 = t1  s1 = s1  s2 = s2  s3 = s3  s4 = s4  g1 = g1  c1 = c1  d1 = d1
    h1 = h1  h2 = h2
    None = None
    People = {t1, s1, s2, s3, s4}
    Teachers0 = {t1}
    Students0 = {s1, s2}
    Code0 <- Codes0
    Groups = {g1}
    Courses = {c1}
    Days = {d1}
    Statuses = {"present", "absent"}
    Sheets <- ThreeSheets
    Handlers = {h1, h2}
    Endpoints <- AllEndpoints
    MaxRequests = 5
    MaxFailures = 1

SYMMETRY IdSymmetry

INVARIANTS
    TypeOK
    CodesAreShared
    RosterStands
    MarksStand
    EnrolledOnce
