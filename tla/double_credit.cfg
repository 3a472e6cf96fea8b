\* Two confirmations of one payment overlap.
SPECIFICATION Spec
CONSTANTS
    t1 = t1  t2 = t2  s1 = s1  c1 = c1  p1 = p1  p2 = p2  h1 = h1  h2 = h2
    None = None
    Tenants = {t1}
    Students = {s1}
    PaymentIds = {p1}
    Codes = {}
    Handlers = {h1, h2}
    Endpoints = {"create", "pay"}
    Amounts = {100}
    Percents = {0}
    Offers <- NoOffers
    MaxMoney = 10000
    MaxInvoice = 10000
    HasIncomeColumn = TRUE
    Overlapping = TRUE
    MaxRequests = 3
    MaxFailures = 0
INVARIANT SingleCredit
CHECK_DEADLOCK FALSE
