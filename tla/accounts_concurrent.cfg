\* Two requests at a time: four of any endpoint and one failing statement, or seventeen logins.
SPECIFICATION MCSpec
CHECK_DEADLOCK FALSE

CONSTANTS
    Users = {u1}
    Passwords = {p1, p2}
    Handlers = {h1, h2}
    Endpoints <- AllEndpoints
    Overlapping = TRUE
    MaxRequests = 17
    FewRequests = 4
    MaxFailures = 1
    None = None

INVARIANTS
    TypeOK
    LockedOnlyAfterFive
    LockoutOvershoot

PROPERTIES
    KeepsPassword
