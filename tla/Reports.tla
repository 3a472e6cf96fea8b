------------------------------ MODULE Reports -------------------------------
(***************************************************************************)
(* The reports of owner and admin about the money and the people of one    *)
(* tenant.  A report asks several queries, some at once with Promise.all   *)
(* and some one after the other, and each sees the tables as they are when *)
(* it runs: no transaction holds them still in between.  What others write *)
(* meanwhile is one statement at a time.                                   *)
(*                                                                         *)
(* Queries that no figure here is compared with are left out: the counts   *)
(* of teachers, courses, groups, enrolments and of attendance have the     *)
(* form of the count of students, and the timeline, the methods and the    *)
(* latest payments are listed as they come.  What the overview and the     *)
(* dashboard of an admin ask is part of the dashboard here.  Amounts are   *)
(* whole numbers, and a window of days is that of the rows that are there. *)
(* Lists leave out searches, roles, debts and sorting by other columns.  A *)
(* report stands alone: it changes nothing another one could see.          *)
(***************************************************************************)
EXTENDS Requests, Summation

CONSTANTS
    Pupils,         \* students, numbered by age
    Employees,      \* users who are teachers or admins, numbered by age
    Bills,          \* payments, and the invoice of each, numbered by age
    BranchNames,    \* names of branches
    BranchLists,    \* the lists of branches that tenants.branches may hold
    Salaries,       \* salaries that are set
    Books,          \* what the tables hold at the start
    MonitorLimit,   \* payments that GET /admin/payments/monitoring lists, 100 in the code
    MonthLength,    \* ticks in a month; the last one is the last second of it
    Months          \* bound: the months a report goes back, six in the code

\* GROUP BY status
BillStatuses == {"pending", "overdue", "paid", "refunded"}

PupilRow == [live : BOOLEAN, branch : BranchNames \cup {None}]
StaffRow == [active : BOOLEAN, branch : BranchNames \cup {None}, salary : Nat \cup {None}]
BillRow  == [pupil : Pupils, status : BillStatuses, amount : Int, total : Int,
             at : Nat \cup {None}, invoice : {"absent", "sent", "paid"}]

\* What is paid was paid in the months that a report goes back.
PaidInTime(rows) ==
    \A p \in Bills : rows[p].status = "paid" => rows[p].at \in 0 .. Months * MonthLength - 1

ASSUME ReportsAssumption ==
    /\ IsFiniteSet(Pupils) /\ IsFiniteSet(Employees) /\ IsFiniteSet(Bills)
    /\ IsFiniteSet(BranchNames) /\ None \notin BranchNames
    /\ Pupils \cup Employees \cup Bills \cup Salaries \subseteq Nat
    /\ MonitorLimit \in Nat \ {0}
    /\ MonthLength \in Nat \ {0, 1} /\ Months \in Nat \ {0, 1}
    /\ BranchLists \subseteq Seq([name : BranchNames, main : BOOLEAN])
    /\ \A b \in Books : /\ b.pupils \in [Pupils -> PupilRow] /\ b.staff \in [Employees -> StaffRow]
                        /\ b.bills \in [Bills -> BillRow] /\ PaidInTime(b.bills)

VARIABLES
    pupils,     \* table students: whether it is deleted, and its branch
    staff,      \* table users: status, branch and the salary in metadata
    bills,      \* tables payments and invoices
    listed      \* tenants.branches, parsed

reportTables == <<pupils, staff, bills, listed>>

\* DATE_TRUNC('month', NOW()), counted back; payments are made in the first second of the
\* month in which reports are.
MonthOf(i) == (Months - 1 - i) * MonthLength
Now        == MonthOf(0)

ReportsInit == \E b \in Books :
    /\ pupils = b.pupils /\ staff = b.staff /\ bills = b.bills
    /\ listed \in BranchLists
-----------------------------------------------------------------------------
(* Mistakes a change of the code could make, each against one property.    *)

ListedOnly(list, rows) ==
    [n \in {list[i].name : i \in DOMAIN list} |-> rows[n]]

UpToNext(i) == [from |-> MonthOf(i), to |-> MonthOf(i) + MonthLength]
-----------------------------------------------------------------------------
(* The queries.                                                            *)

\* The column total_amount.
AmountOf(S) == Total([p \in S |-> bills[p].total])

Paid == {p \in Bills : bills[p].status = "paid"}

PaidFrom(t) == {p \in Paid : bills[p].at >= t}

Income      == AmountOf(Paid)
MonthIncome == AmountOf(PaidFrom(MonthOf(0)))
LastMonth   == AmountOf(PaidFrom(MonthOf(1)) \ PaidFrom(MonthOf(0)))

Overdue == AmountOf({p \in Bills : bills[p].status = "overdue"})

Open == {p \in Bills : bills[p].status \in {"pending", "overdue"}}
Due  == [count |-> Cardinality(Open), total |-> AmountOf(Open)]

\* getDebtSummary of a student, from the column amount.
DebtSummary(u) ==
    LET own == {p \in Open : bills[p].pupil = u} IN
    [count |-> Cardinality(own), total |-> Total([p \in own |-> bills[p].amount])]

ByStatus ==
    [st \in BillStatuses |->
        LET S == {p \in Bills : bills[p].status = st} IN
        [count |-> Cardinality(S), total |-> AmountOf(S)]]

\* GET /payments/report groups by month: no second is between two of them.
Revenue == [i \in 0 .. Months - 1 |->
               AmountOf({p \in Paid : bills[p].at \div MonthLength = Months - 1 - i})]

\* Those in service who have a salary.
Payroll == {e \in Employees : staff[e].active /\ staff[e].salary # None}

SalariesOf(S) == Total([e \in S |-> staff[e].salary])

Expenses == SalariesOf(Payroll)

Enrolled == {u \in Pupils : pupils[u].live}

\* What lists show of a filter, where None asks for all: getUserManagement, which has one
\* condition for its count and its page, findAllInvoices, and findAll of payments and of
\* students.  GET /admin/payments shows one page.
Matches(asked, value) == asked = None \/ value = asked

UsersFound(asked) ==
    {e \in Employees : Matches(asked.active, staff[e].active) /\ Matches(asked.branch, staff[e].branch)}

InvoicesFound(asked) ==
    {p \in Bills : /\ bills[p].invoice # "absent"
                   /\ Matches(asked.status, bills[p].invoice) /\ Matches(asked.pupil, bills[p].pupil)}

PaymentsFound(asked) ==
    {p \in Bills : Matches(asked.status, bills[p].status) /\ Matches(asked.pupil, bills[p].pupil)}

StudentsFound(asked) == {u \in Enrolled : Matches(asked.branch, pupils[u].branch)}

\* getPaymentMonitoring, whose dates are those of the oldest and the newest payment asked
\* for: every payment joins a student, and that one a user, deleted or not.
MonitorMatches(asked) ==
    {p \in Bills : /\ Matches(asked.status, bills[p].status)
                   /\ asked.from = None \/ p >= asked.from
                   /\ asked.to = None \/ p <= asked.to}

Monitored(asked) ==
    LET found == MonitorMatches(asked) IN
    {p \in found : Cardinality({q \in found : Newer(q, p)}) < MonitorLimit}

Found(name, asked) ==
    CASE name = "users"    -> UsersFound(asked)
      [] name = "invoices" -> InvoicesFound(asked)
      [] name = "payments" -> PaymentsFound(asked)
      [] name = "students" -> StudentsFound(asked)

PageCount(total)         == (total + PageSize - 1) \div PageSize
HasNextPage(total, page) == page < PageCount(total)

\* GROUP BY branch, where NULL is a group too; a payment counts for the branch its student
\* is in by now, also when the student was deleted.
Branched == BranchNames \cup {None}

StudentsByBranch == [b \in Branched |-> Cardinality({u \in Enrolled : pupils[u].branch = b})]
SpentByBranch    == [b \in Branched |-> SalariesOf({e \in Payroll : staff[e].branch = b})]

EarnedByBranch(S) == [b \in Branched |-> AmountOf({p \in S : pupils[bills[p].pupil].branch = b})]

\* monthStart and monthEnd = new Date(y, m + 1, 0, 23, 59, 59), both inclusive.
Window(i) == [from |-> MonthOf(i), to |-> MonthOf(i) + MonthLength - 2]

EarnedIn(i) == AmountOf({p \in Paid : bills[p].at \in Window(i).from .. Window(i).to})

\* <<"month", i>> is the query of the loop over months, <<name, 0>> any other.
AnswerTo(d, q) ==
    CASE q[1] = "month"              -> EarnedIn(q[2])
      [] q[1] = "branches"           -> listed
      [] q[1] = "students"           -> Cardinality(Enrolled)
      [] q[1] = "studentsByBranch"   -> StudentsByBranch
      [] q[1] = "income"             -> Income
      [] q[1] = "incomeByBranch"     -> EarnedByBranch(Paid)
      [] q[1] = "monthIncome"        -> MonthIncome
      [] q[1] = "monthByBranch"      -> EarnedByBranch(PaidFrom(MonthOf(0)))
      [] q[1] = "lastMonth"          -> LastMonth
      [] q[1] = "overdue"            -> Overdue
      [] q[1] = "due"                -> Due
      [] q[1] = "expenses"           -> Expenses
      [] q[1] = "expensesByBranch"   -> SpentByBranch
      [] q[1] = "monitored"          -> Monitored(d.asked)
      [] q[1] = "byStatus"           -> ByStatus
      [] q[1] = "revenue"            -> Revenue
      [] q[1] = "total"              -> Cardinality(Found(d.name, d.asked))
      [] q[1] = "page"               -> NewestOn(Found(d.name, d.asked), d.asked.page)
-----------------------------------------------------------------------------
(* The reports: the queries each awaits together, one set after the other. *)

AtOnceAsked(names) == <<{<<name, 0>> : name \in names}>>

MonthLoop == [i \in 1 .. Months |-> {<<"month", Months - i>>}]

\* getManyAndCount
PageThenTotal == AtOnceAsked({"page"}) \o AtOnceAsked({"total"})

Queries ==
    [dashboard |-> AtOnceAsked({"students", "monthIncome", "lastMonth", "branches"}),
     finances  |-> AtOnceAsked({"branches", "due", "overdue", "income", "expenses",
                                "incomeByBranch", "expensesByBranch"}),
     branches  |-> AtOnceAsked({"branches", "studentsByBranch", "monthByBranch"}),
     analytics |-> AtOnceAsked({"students", "branches", "studentsByBranch", "incomeByBranch"})
                   \o MonthLoop,
     months    |-> MonthLoop,
     revenue   |-> AtOnceAsked({"revenue"}),
     monitor   |-> AtOnceAsked({"monitored"}) \o AtOnceAsked({"byStatus"}),
     users     |-> AtOnceAsked({"total"}) \o AtOnceAsked({"page"}),
     invoices  |-> PageThenTotal,
     payments  |-> PageThenTotal,
     students  |-> PageThenTotal]

\* What a client may ask of a list.
Lists == {"users", "invoices", "payments", "students"}

Filters(name) ==
    CASE name = "users"    -> [active : {TRUE, None}, branch : BranchNames \cup {None}, page : Pages]
      [] name = "invoices" -> [status : {"paid", None}, pupil : Pupils \cup {None}, page : Pages]
      [] name = "payments" -> [status : {"paid", None}, pupil : Pupils \cup {None}, page : Pages]
      [] name = "students" -> [branch : BranchNames \cup {None}, page : Pages]
      [] name = "monitor"  -> [status : {"paid", None}, from : Bills \cup {None}, to : Bills \cup {None}]
      [] OTHER             -> {None}

\* `torn` is history: whether anything was written since the report was asked for.
AskReport(h, name, asked) ==
    /\ \A g \in Handlers : ~Busy(g)
    /\ Begin(h, "ask", <<"report">>,
             [name |-> name, asked |-> asked, stage |-> 1, answers |-> <<>>, torn |-> FALSE])
    /\ UNCHANGED reportTables

RunQuery(h) ==
    LET d     == Data(h)
        left  == Queries[d.name][d.stage] \ DOMAIN d.answers
        With(q) == [r \in DOMAIN d.answers \cup {q} |->
                      IF r = q THEN AnswerTo(d, q) ELSE d.answers[r]]
        last  == d.stage = Len(Queries[d.name])
    IN  /\ At(h, "ask")
        /\ \E q \in left :
             Goto(h, IF left = {q} /\ last THEN "compose" ELSE "ask",
                  [d EXCEPT !.answers = With(q),
                            !.stage = IF left = {q} /\ ~last THEN @ + 1 ELSE @])
        /\ UNCHANGED reportTables

\* The figures are computed and sent.
SendReport(h) ==
    /\ At(h, "compose")
    /\ Answer(h)
    /\ UNCHANGED reportTables

ReportsBreak(h) == Breaks(h) /\ UNCHANGED reportTables
-----------------------------------------------------------------------------
(* The figures.                                                            *)

\* buildBranchResolver: NULL is the main branch, or else the first.
MainOf(list) ==
    LET mains == {i \in DOMAIN list : list[i].main} IN
    IF mains # {} THEN list[Min(mains)].name
    ELSE IF list # <<>> THEN list[1].name ELSE "Unassigned"

Resolve(list, branch) == IF branch = None THEN MainOf(list) ELSE branch

\* The map of a breakdown: the branches of the list and those that any row resolves to.
\* `rows` has a row of GROUP BY for each branch; adding one of zero changes no sum.
Breakdown(list, rows) ==
    LET names == {list[i].name : i \in DOMAIN list} \cup {Resolve(list, b) : b \in DOMAIN rows} IN
    [n \in names |-> SumOver(rows, {b \in DOMAIN rows : Resolve(list, b) = n})]

\* getBranches keeps of them what is listed, one card for each entry of the list.
Cards(list, rows) ==
    LET all == Breakdown(list, rows) IN [i \in DOMAIN list |-> all[list[i].name]]

-----------------------------------------------------------------------------
(* What others write meanwhile.                                            *)

Writes ==
    /\ arrived < MaxRequests
    /\ arrived' = arrived + 1
    /\ task' = [h \in Handlers |->
                  IF Busy(h) THEN [task[h] EXCEPT !.data.torn = TRUE] ELSE task[h]]
    /\ UNCHANGED <<failures, overlapped, failed>>

PayBill(p) ==
    /\ bills[p].status \in {"pending", "overdue"}
    /\ bills' = [bills EXCEPT ![p].status = "paid", ![p].at = Now]
    /\ Writes
    /\ UNCHANGED <<pupils, staff, listed>>

\* pay() settles the invoice with a statement of its own.
SettleInvoice(p) ==
    /\ bills[p].status = "paid" /\ bills[p].invoice = "sent"
    /\ bills' = [bills EXCEPT ![p].invoice = "paid"]
    /\ Writes
    /\ UNCHANGED <<pupils, staff, listed>>

RefundBill(p) ==
    /\ bills[p].status = "paid"
    /\ bills' = [bills EXCEPT ![p].status = "refunded"]
    /\ Writes
    /\ UNCHANGED <<pupils, staff, listed>>

MovePupil(u, b) ==
    /\ pupils[u].live /\ pupils[u].branch # b
    /\ pupils' = [pupils EXCEPT ![u].branch = b]
    /\ Writes
    /\ UNCHANGED <<staff, bills, listed>>

RemovePupil(u) ==
    /\ pupils[u].live
    /\ pupils' = [pupils EXCEPT ![u].live = FALSE]
    /\ Writes
    /\ UNCHANGED <<staff, bills, listed>>

\* hrOperations: hire, fire and update_salary.
HireOrFire(e) ==
    /\ staff' = [staff EXCEPT ![e].active = ~@]
    /\ Writes
    /\ UNCHANGED <<pupils, bills, listed>>

UpdateSalary(e, salary) ==
    /\ staff[e].salary # salary
    /\ staff' = [staff EXCEPT ![e].salary = salary]
    /\ Writes
    /\ UNCHANGED <<pupils, bills, listed>>

Relist(list) ==
    /\ listed # list
    /\ listed' = list
    /\ Writes
    /\ UNCHANGED <<pupils, staff, bills>>

ReportsNext ==
    \/ \E h \in Handlers : \/ \E name \in DOMAIN Queries : \E asked \in Filters(name) :
                                AskReport(h, name, asked)
                           \/ RunQuery(h) \/ SendReport(h) \/ ReportsBreak(h)
    \/ \E p \in Bills : PayBill(p) \/ SettleInvoice(p) \/ RefundBill(p)
    \/ \E u \in Pupils : RemovePupil(u) \/ \E b \in BranchNames : MovePupil(u, b)
    \/ \E e \in Employees : HireOrFire(e) \/ \E s \in Salaries : UpdateSalary(e, s)
    \/ \E list \in BranchLists : Relist(list)
-----------------------------------------------------------------------------
(* Properties.                                                             *)

\* The reports that are about to be sent and during which nothing was written.
Settled(name) == {Data(h) : h \in {g \in Handlers : At(g, "compose") /\ Data(g).name = name
                                                     /\ ~Data(g).torn}}
Whole(name)   == {d.answers : d \in Settled(name)}

Figure(answers, name) == answers[<<name, 0>>]

\* The first entry of each name.
OncePerName(list) ==
    {i \in DOMAIN list : \A j \in DOMAIN list : j < i => list[j].name # list[i].name}

\* A report during which nothing was written adds up, although every figure is a query of
\* its own: the branches share out the whole income, all expenses, and every student,
\* whoever has no branch and whichever list of branches the tenant has; the students' own
\* summaries share out what is due.  The cards of GET /owner/branches show the listed
\* branches only, and a name that two entries have shows its figure twice: counted once for
\* each name, the cards never show more than there is.
BranchesAddUp ==
    /\ \A a \in Whole("finances") :
         LET list == Figure(a, "branches") IN
         /\ Total(Breakdown(list, Figure(a, "incomeByBranch"))) = Figure(a, "income")
         /\ Total(Breakdown(list, Figure(a, "expensesByBranch"))) = Figure(a, "expenses")
         /\ Figure(a, "overdue") <= Figure(a, "due").total
         /\ Total([u \in Pupils |-> DebtSummary(u).count]) = Figure(a, "due").count
    /\ \A a \in Whole("analytics") :
         LET list == Figure(a, "branches") IN
         /\ Total(Breakdown(list, Figure(a, "studentsByBranch"))) = Figure(a, "students")
         /\ Total(Breakdown(list, Figure(a, "incomeByBranch"))) >=
              Total([i \in 0 .. Months - 1 |-> a[<<"month", i>>]])
    /\ \A a \in Whole("branches") :
         LET list  == Figure(a, "branches")
             first == OncePerName(list)
         IN  /\ SumOver(Cards(list, Figure(a, "monthByBranch")), first) <= MonthIncome
             /\ SumOver(Cards(list, Figure(a, "studentsByBranch")), first) <= Cardinality(Enrolled)

\* A list shows the rows its total counts, page by page, and there is a next page exactly
\* when it has rows; a list of one branch or one status is as long as the reports say of it;
\* and the summary by status counts every payment that the monitor lists, and no other when
\* it asks for no dates and there are no more than it lists.
ListsAddUp ==
    /\ \A name \in Lists : \A d \in Settled(name) :
         LET total == Figure(d.answers, "total") IN
         /\ Cardinality(Figure(d.answers, "page")) = OnPage(total, d.asked.page)
         /\ HasNextPage(total, d.asked.page)
              <=> NewestOn(Found(name, d.asked), d.asked.page + 1) # {}
    /\ \A d \in Settled("students") :
         d.asked.branch # None => Figure(d.answers, "total") = StudentsByBranch[d.asked.branch]
    /\ \A d \in Settled("payments") :
         d.asked.pupil = None /\ d.asked.status # None
             => Figure(d.answers, "total") = ByStatus[d.asked.status].count
    /\ \A d \in Settled("monitor") : \A st \in BillStatuses :
         LET rows    == {p \in Figure(d.answers, "monitored") : bills[p].status = st}
             summary == Figure(d.answers, "byStatus")[st]
         IN  /\ Cardinality(rows) <= summary.count
             /\ /\ Matches(d.asked.status, st) /\ d.asked.from = None /\ d.asked.to = None
                /\ Cardinality(MonitorMatches(d.asked)) <= MonitorLimit
                => Cardinality(rows) = summary.count /\ AmountOf(rows) = summary.total

ReportAddsUp == BranchesAddUp /\ ListsAddUp

\* The months of a report during which nothing was written have every payment of these
\* months once, but those of the last second of a month; the months that GET /payments/report
\* groups have those too.
MonthsShareIncome ==
    /\ \A name \in {"months", "analytics"} : \A a \in Whole(name) :
         Total([i \in 0 .. Months - 1 |-> a[<<"month", i>>]]) =
             AmountOf({p \in Paid : bills[p].at % MonthLength # MonthLength - 1})
    /\ \A a \in Whole("revenue") :
         /\ Total(Figure(a, "revenue")) = Income
         /\ \A i \in 0 .. Months - 1 : EarnedIn(i) <= Figure(a, "revenue")[i]

=============================================================================
