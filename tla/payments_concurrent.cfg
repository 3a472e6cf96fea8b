\* Two requests at a time, the nightly job beside them, a code for one use, one failing statement.
SPECIFICATION Spec
CONSTANTS
    t1 = t1  t2 = t2  s1 = s1  c1 = c1  p1 = p1  p2 = p2  h1 = h1  h2 = h2
    None = None
    Tenants = {t1}
    Students = {s1}
    PaymentIds = {p1, p2}
    Codes = {c1}
    Handlers = {h1, h2}
    Endpoints = {"create", "pay", "refund", "apply-discount"}
    Amounts = {100}
    Percents = {0}
    Offers <- OneUse
    MaxMoney = 150
    MaxInvoice = 150
    HasIncomeColumn = TRUE
    Overlapping = TRUE
    MaxRequests = 4
    MaxFailures = 1
SYMMETRY IdSymmetry
INVARIANTS
    TypeOK
    InvoiceFollowsLedger
    OverdueNoticeOnce
    UsageOvershootBounded
CHECK_DEADLOCK FALSE
