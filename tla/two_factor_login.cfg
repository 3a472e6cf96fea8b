SPECIFICATION Spec
CHECK_DEADLOCK FALSE

CONSTANTS
    Users = {u1}
    Passwords = {p1}
    Handlers = {h1}
    Endpoints = {"login", "2fa/setup", "2fa/enable"}
    Overlapping = FALSE
    MaxRequests = 4
    MaxFailures = 0
    None = None

INVARIANTS
    TwoFaLogsIn
