\* Two tenants, one request at a time.
SPECIFICATION Spec
CONSTANTS
    t1 = t1  t2 = t2  s1 = s1  c1 = c1  p1 = p1  p2 = p2  h1 = h1  h2 = h2
    None = None
    Tenants = {t1, t2}
    Students = {s1}
    PaymentIds = {p1, p2}
    Codes = {}
    Handlers = {h1}
    Endpoints = {"create"}
    Amounts = {100}
    Percents = {0}
    Offers <- NoOffers
    MaxMoney = 10000
    MaxInvoice = 10000
    HasIncomeColumn = TRUE
    Overlapping = FALSE
    MaxRequests = 2
    MaxFailures = 0
INVARIANT TenantIsolation
CHECK_DEADLOCK FALSE
