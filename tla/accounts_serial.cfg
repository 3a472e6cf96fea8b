SPECIFICATION Spec
CHECK_DEADLOCK FALSE

CONSTANTS
    Users = {u1}
    Passwords = {p1, p2}
    Handlers = {h1}
    Endpoints <- AllEndpoints
    Overlapping = FALSE
    MaxRequests = 7
    MaxFailures = 1
    None = None

INVARIANTS
    FiveMissesLock
    BlockedStaysBlocked
    LogoutEndsSession
    ResetsWithinMails
