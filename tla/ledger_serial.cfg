\* One request or one night's job at a time, every statement succeeds.
SPECIFICATION Spec
CONSTANTS
    t1 = t1  s1 = s1  s2 = s2  c1 = c1  p1 = p1  p2 = p2  h1 = h1
    None = None
    Tenants = {t1}
    Students = {s1, s2}
    PaymentIds = {p1, p2}
    Codes = {c1}
    Handlers = {h1}
    Endpoints = {"create", "pay", "refund", "apply-discount", "update"}
    Amounts = {100}
    Percents = {0}
    Offers <- BothOffers
    MaxMoney = 10000
    MaxInvoice = 10000
    HasIncomeColumn = TRUE
    Overlapping = FALSE
    MaxRequests = 5
    MaxFailures = 0
PROPERTY ImplementsLedger
CHECK_DEADLOCK FALSE
