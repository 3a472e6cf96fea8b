\* Two requests at a time, one failing statement.
SPECIFICATION Spec
CHECK_DEADLOCK FALSE

CONSTANTS
    h1 = h1  h2 = h2  i1 = i1  i2 = i2  i3 = i3  u1 = u1  u2 = u2
    e1 = e1  e2 = e2
    None = None
    Parts = {"chat", "messaging", "tenant", "roles", "office", "reports", "views"}
    Handlers = {h1, h2}
    MaxRequests = 5
    MaxFailures = 1
    ChatUsers = {u1, u2}
    Rooms = {i1, i2}
    MaxMessages = 2
    Sockets = {e1}
    Readers = {u1, u2}
    Strangers = {e1}
    Phones = {}
    Channels = {"in_app", "email", "sms", "push"}
    Notices = {i1, i2}
    Columns = {"feature_flags", "settings"}
    Keys = {"a", "b"}
    Defaults <- AllOff
    Patches <- TwoPatches
    Branches = {i1, i2}
    Names = {"hall"}
    SystemRoles = {"owner", "admin"}
    RoleIds = {i1, i2, i3}
    Staff = {u1, u2}
    FileKeys = {i1, i2}
    Certificates = {i1, i2}
    Lessons = {i1, i2}
    Dates = {"monday", "friday"}
    Pupils = {1, 2}
    Employees = {1, 2}
    Bills = {1, 2}
    BranchNames = {"north", "south"}
    BranchLists <- TwoLists
    Salaries = {0}
    Books <- OneBook
    MonitorLimit = 1
    MonthLength = 4
    Months = 2
    Tutors = {e1, e2}
    Learners = {1, 2}
    Classes = {1, 2}
    Subjects = {"maths"}
    Works = {1, 2, 3}
    Tests = {1, 2}
    Texts = {1, 2}
    Days = {0, 1, 2}
    MonthsShown = 2
    TopStudents = 1
    Scores = {5}
    Pages = {1, 2}
    PageSize = 1
    Schools <- FiveSchools

SYMMETRY IdSymmetry

INVARIANTS
    TypeOK
    DirectRoomOnce
    LastMessageStands
    PendingIsAtWork
    ConfigStands
    BranchesStand
    RolesStand
    FilesMatchStorage
    
    ReportAddsUp
    MonthsShareIncome
    

PROPERTIES
    ReadStands
