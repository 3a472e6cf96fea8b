\* One request at a time, any two statements fail.
SPECIFICATION Spec
CONSTANTS
    t1 = t1  t2 = t2  s1 = s1  c1 = c1  p1 = p1  p2 = p2  h1 = h1  h2 = h2
    None = None
    Tenants = {t1, t2}
    Students = {s1}
    PaymentIds = {p1, p2}
    Codes = {}
    Handlers = {h1}
    Endpoints = {"create", "pay", "refund"}
    Amounts = {100, 200}
    Percents = {0, 50}
    Offers <- NoOffers
    MaxMoney = 10000
    MaxInvoice = 150
    HasIncomeColumn = TRUE
    Overlapping = FALSE
    MaxRequests = 5
    MaxFailures = 2
INVARIANTS
    SingleCredit
    BooksAreInOrder
CHECK_DEADLOCK FALSE
