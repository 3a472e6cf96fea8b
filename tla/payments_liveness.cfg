\* Every started handler runs on and the job fires every night; two statements may fail.
SPECIFICATION FairSpec
CONSTANTS
    t1 = t1  t2 = t2  s1 = s1  c1 = c1  p1 = p1  p2 = p2  h1 = h1  h2 = h2
    None = None
    Tenants = {t1}
    Students = {s1}
    PaymentIds = {p1}
    Codes = {c1}
    Handlers = {h1, h2}
    Endpoints = {"create", "pay", "refund", "apply-discount", "update"}
    Amounts = {100}
    Percents = {0}
    Offers <- OneUse
    MaxMoney = 10000
    MaxInvoice = 10000
    HasIncomeColumn = TRUE
    Overlapping = TRUE
    MaxRequests = 3
    MaxFailures = 2
PROPERTY RequestsAreAnswered
PROPERTY DueIsFlaggedOrSettled
CHECK_DEADLOCK FALSE
