------------------------------ MODULE Payments ------------------------------
(***************************************************************************)
(* The billing core of the CRM: payments, their invoices, discount codes,  *)
(* the debt and income columns of a student, and the nightly overdue job.  *)
(*                                                                         *)
(* No handler of PaymentsService opens a transaction.  Every `await` of a  *)
(* repository call is its own committed statement, and between two of them *)
(* any other handler or the cron job may run.  A handler is therefore one  *)
(* action per awaited statement; `task[h]` says which statement handler h  *)
(* awaits next and holds the entity it has in memory.  A request that the  *)
(* code rejects before its first write changes nothing and has no action.  *)
(***************************************************************************)
EXTENDS Integers, FiniteSets, FiniteSetsExt

CONSTANTS
    Tenants,        \* the training centres
    Students,       \* rows of table students
    PaymentIds,     \* the uuids payments may get
    Codes,          \* rows of table discounts
    Handlers,       \* HTTP requests that can be in flight at the same time
    Endpoints,      \* the endpoints of PaymentsController that clients call
    Amounts,        \* dto.amount: @IsNumber() @Min(0)
    Percents,       \* dto.discountPercent and dto.taxPercent
    Offers,         \* what a discount row may grant
    MaxMoney,       \* the largest value of a decimal(12,2) column
    MaxInvoice,     \* the largest value of the decimal(10,2) columns of an invoice
    HasIncomeColumn,\* is there a column students.total_paid in the database?
    Overlapping,    \* may a request or the job start while another is in flight?
    MaxRequests,    \* bound: requests that arrive
    MaxFailures,    \* bound: statements that fail, or crashes of a handler
    None            \* SQL NULL, and "no payment", "no code"

Offer == [tenant : Tenants, type : {"percentage", "fixed"}, value : Nat,
          maxUses : Nat \cup {None}]

ASSUME PaymentsAssumption ==
    /\ IsFiniteSet(Handlers) /\ Handlers # {}
    /\ IsFiniteSet(PaymentIds)
    /\ Endpoints \subseteq {"create", "pay", "refund", "apply-discount", "update"}
    /\ Amounts \subseteq Nat /\ Percents \subseteq Nat
    /\ Offers \subseteq Offer
    /\ MaxMoney \in Nat /\ MaxInvoice \in 0 .. MaxMoney /\ MaxRequests \in Nat /\ MaxFailures \in Nat
    /\ HasIncomeColumn \in BOOLEAN /\ Overlapping \in BOOLEAN
    /\ None \notin Nat \cup PaymentIds \cup Codes \cup Tenants \cup Students

VARIABLES
    payments,   \* table payments; status "absent" is "no such row"
    invoices,   \* table invoices, by payment: createInvoice is called once for each
    discounts,  \* table discounts
    debt,       \* students.debt_amount
    income,     \* students.total_paid
    task,       \* the request each handler is executing
    job,        \* SchedulerService.processOverduePayments
    arrived,    \* how many requests have arrived
    failures,   \* how many statements have failed
    credits,    \* history: times a payment was credited to its student
    refunds,    \* history: times a payment was marked refunded
    notices     \* history: payment.overdue events emitted for a payment

tables  == <<payments, invoices, discounts, debt, income>>
history == <<credits, refunds, notices>>
vars    == <<tables, task, job, arrived, failures, history>>

Money == -MaxMoney .. MaxMoney

Statuses == {"pending", "paid", "refunded", "overdue"}
Owed     == {"pending", "overdue"}

Row == [tenant : Tenants \cup {None}, student : Students \cup {None},
        number : Nat, amount : Nat, total : Int,
        status : Statuses \cup {"absent"}, due : BOOLEAN]

NoRow == [tenant |-> None, student |-> None, number |-> 0, amount |-> 0,
          total |-> 0, status |-> "absent", due |-> FALSE]

Steps == {"idle", "save", "invoice", "markPaid", "credit", "settleInvoice",
          "markRefunded", "loadPayment", "setTotal", "countUse", "writeUpdate"}

\* The steps of a handler that has found its payment, and its discount code.
WithPayment == {"invoice", "markPaid", "credit", "settleInvoice", "markRefunded",
                "setTotal", "countUse", "writeUpdate"}
WithCode    == {"loadPayment", "setTotal", "countUse"}

Task == {t \in [at : Steps, p : PaymentIds \cup {None}, code : Codes \cup {None}, row : Row] :
           /\ t.at \in WithPayment <=> t.p \in PaymentIds
           /\ t.at \in WithCode <=> t.code \in Codes}

Idle == [at |-> "idle", p |-> None, code |-> None, row |-> NoRow]

Target == [p : PaymentIds, tenant : Tenants \cup {None}, student : Students \cup {None}]

JobIdle == [at |-> "idle", todo |-> {}, cur |-> {}, seen |-> {}]

Rows          == {p \in PaymentIds : payments[p].status # "absent"}
RowsOf(t)     == {p \in Rows : payments[p].tenant = t}
OwedBy(s, t)  == {p \in RowsOf(t) : payments[p].student = s /\ payments[p].status \in Owed}
SumOf(pairs)  == MapThenSumSet(LAMBDA x : x[2], pairs)
Unfloored(x)   == x                   \* a mistake, see below
FloorAtZero(x) == IF x < 0 THEN 0 ELSE x

\* The amount and the total fit the decimal columns that take them.
Fits(row, max) == row.amount <= max /\ row.total \in -max .. max

\* An invoice carries the number of its payment, INV-<year>-<count>, behind a
\* prefix; the column is unique over the whole table, whatever the tenant.
NumberTaken(n) == \E q \in PaymentIds : invoices[q].status # "absent" /\ invoices[q].number = n

Busy(h) == task[h].at # "idle"
Quiet   == (\A h \in Handlers : ~Busy(h)) /\ job.at = "idle"

\* A handler that is about to run its first statement for endpoint e.
Arrives(h, e) ==
    /\ ~Busy(h)
    /\ e \in Endpoints
    /\ Overlapping \/ Quiet
    /\ arrived < MaxRequests
    /\ arrived' = arrived + 1

At(h, step)  == task[h].at = step
Goto(h, step) == task' = [task EXCEPT ![h].at = step]
Finish(h)    == task' = [task EXCEPT ![h] = Idle]

Init ==
    /\ payments = [p \in PaymentIds |-> NoRow]
    /\ invoices = [p \in PaymentIds |-> [status |-> "absent", number |-> 0]]
    /\ \E offer \in [Codes -> Offers] :
         discounts = [c \in Codes |-> [offer |-> offer[c], usedCount |-> 0, open |-> TRUE]]
    /\ debt = [s \in Students |-> 0]
    /\ income = [s \in Students |-> 0]
    /\ task = [h \in Handlers |-> Idle]
    /\ job = JobIdle
    /\ arrived = 0
    /\ failures = 0
    /\ credits = [p \in PaymentIds |-> 0]
    /\ refunds = [p \in PaymentIds |-> 0]
    /\ notices = [p \in PaymentIds |-> 0]

-----------------------------------------------------------------------------
(* Mistakes a change of the code could make, each against one property: the *)
(* guard or the step left out, the order turned round, the filter widened. *)

DueAgain(p)  == p \in Rows /\ payments[p].status \in Owed /\ payments[p].due
NotYetDue(p) == p \in Rows /\ payments[p].status = "pending" /\ ~payments[p].due

PayFindUnchecked(h) ==
    /\ Arrives(h, "pay")
    /\ \E p \in Rows : task' = [task EXCEPT ![h] =
                         [at |-> "markPaid", p |-> p, code |-> None, row |-> payments[p]]]
    /\ UNCHANGED <<tables, job, failures, history>>

PayMarkThenInvoice(h) ==
    /\ At(h, "markPaid")
    /\ payments' = [payments EXCEPT ![task[h].p].status = "paid"]
    /\ Goto(h, "settleInvoice")
    /\ UNCHANGED <<invoices, discounts, debt, income, job, arrived, failures, history>>

PayCreditKeepsDebt(h) ==
    LET row     == task[h].row
        newPaid == income[row.student] + row.total
    IN  /\ At(h, "credit")
        /\ income' = [income EXCEPT ![row.student] = newPaid]
        /\ credits' = [credits EXCEPT ![task[h].p] = @ + 1]
        /\ Goto(h, "settleInvoice")
        /\ UNCHANGED <<payments, invoices, discounts, debt, job, arrived, failures,
                       refunds, notices>>

UsesLeftOrEqual(c) == LET d == discounts[c] IN
    d.offer.maxUses # None => d.usedCount <= d.offer.maxUses

DiscountLoadHangs(h) ==
    LET own == RowsOf(discounts[task[h].code].offer.tenant) IN
    /\ At(h, "loadPayment")
    /\ \E p \in own :
            task' = [task EXCEPT ![h].at = "setTotal", ![h].p = p, ![h].row = payments[p]]
    /\ UNCHANGED <<tables, job, arrived, failures, history>>

JobDebtUnchecked ==
    /\ job.at = "debt"
    /\ \E target \in job.cur :
         /\ debt' = [debt EXCEPT ![target.student] = SumOf(job.seen)]
         /\ notices' = [notices EXCEPT ![target.p] = @ + 1]
         /\ job' = IF job.todo = {} THEN JobIdle
                   ELSE [job EXCEPT !.at = "mark", !.cur = {}, !.seen = {}]
    /\ UNCHANGED <<payments, invoices, discounts, income, task, arrived, failures, credits, refunds>>

-----------------------------------------------------------------------------
(* POST /payments                                                          *)

\* The payment the dto asks for, as create() computes it.
NewRow(t, s, n, a, d, x, due) ==
    [tenant |-> t, student |-> s, number |-> n, amount |-> a,
     total |-> a - (a * d) \div 100 + (a * x) \div 100, status |-> "pending", due |-> due]

\* SELECT COUNT(*) of the tenant's payments, plus one, becomes the number.
NextNumber(t) == Cardinality(RowsOf(t)) + 1

\* The second guard is the bound PaymentIds: an id is left for every request under way.
CreateCount(h) ==
    /\ Arrives(h, "create")
    /\ Cardinality({g \in Handlers : At(g, "save")}) < Cardinality(PaymentIds \ Rows)
    /\ \E t \in Tenants, s \in Students, a \in Amounts, d, x \in Percents, due \in BOOLEAN :
         LET row == NewRow(t, s, NextNumber(t), a, d, x, due) IN
         /\ Fits(row, MaxMoney)
         /\ task' = [task EXCEPT ![h] = [at |-> "save", p |-> None, code |-> None, row |-> row]]
    /\ UNCHANGED <<tables, job, failures, history>>

CreateSave(h) ==
    /\ At(h, "save")
    /\ \E p \in PaymentIds \ Rows :
         /\ payments' = [payments EXCEPT ![p] = task[h].row]
         /\ task' = [task EXCEPT ![h].at = "invoice", ![h].p = p]
    /\ UNCHANGED <<invoices, discounts, debt, income, job, arrived, failures, history>>

\* A duplicate number is rejected by the unique index, and an amount that fits the
\* payment but not the invoice by its type: the payment stays, without invoice.
CreateInvoice(h) ==
    /\ At(h, "invoice")
    /\ invoices' = IF NumberTaken(task[h].row.number) \/ ~Fits(task[h].row, MaxInvoice)
                   THEN invoices
                   ELSE [invoices EXCEPT ![task[h].p] =
                           [status |-> "sent", number |-> task[h].row.number]]
    /\ Finish(h)
    /\ UNCHANGED <<payments, discounts, debt, income, job, arrived, failures, history>>

-----------------------------------------------------------------------------
(* POST /payments/:id/pay                                                  *)

PayFind(h) ==
    /\ Arrives(h, "pay")
    /\ \E p \in Rows :
         /\ payments[p].status # "paid"
         /\ task' = [task EXCEPT ![h] =
                       [at |-> "markPaid", p |-> p, code |-> None, row |-> payments[p]]]
    /\ UNCHANGED <<tables, job, failures, history>>

PayMark(h) ==
    /\ At(h, "markPaid")
    /\ payments' = [payments EXCEPT ![task[h].p].status = "paid"]
    /\ Goto(h, "credit")
    /\ UNCHANGED <<invoices, discounts, debt, income, job, arrived, failures, history>>

\* One UPDATE of students, with the total and the student read by PayFind.  It
\* fails when total_paid does not exist or a value leaves decimal(12,2).
PayCredit(h) ==
    LET row     == task[h].row
        newDebt == FloorAtZero(debt[row.student] - row.total)
        newPaid == income[row.student] + row.total
    IN  /\ At(h, "credit")
        /\ IF HasIncomeColumn /\ newDebt \in Money /\ newPaid \in Money
           THEN /\ debt' = [debt EXCEPT ![row.student] = newDebt]
                /\ income' = [income EXCEPT ![row.student] = newPaid]
                /\ credits' = [credits EXCEPT ![task[h].p] = @ + 1]
                /\ Goto(h, "settleInvoice")
           ELSE /\ Finish(h)
                /\ UNCHANGED <<debt, income, credits>>
        /\ UNCHANGED <<payments, invoices, discounts, job, arrived, failures, refunds, notices>>

PayInvoice(h) ==
    /\ At(h, "settleInvoice")
    /\ invoices' = [invoices EXCEPT ![task[h].p].status = IF @ = "absent" THEN @ ELSE "paid"]
    /\ Finish(h)
    /\ UNCHANGED <<payments, discounts, debt, income, job, arrived, failures, history>>

-----------------------------------------------------------------------------
(* POST /payments/:id/refund                                               *)

RefundFind(h) ==
    /\ Arrives(h, "refund")
    /\ \E p \in Rows :
         /\ payments[p].status = "paid"
         /\ task' = [task EXCEPT ![h] =
                       [at |-> "markRefunded", p |-> p, code |-> None, row |-> payments[p]]]
    /\ UNCHANGED <<tables, job, failures, history>>

RefundMark(h) ==
    /\ At(h, "markRefunded")
    /\ payments' = [payments EXCEPT ![task[h].p].status = "refunded"]
    /\ refunds' = [refunds EXCEPT ![task[h].p] = @ + 1]
    /\ Finish(h)
    /\ UNCHANGED <<invoices, discounts, debt, income, job, arrived, failures, credits, notices>>

-----------------------------------------------------------------------------
(* POST /payments/apply-discount                                           *)

UsesLeft(c) == LET d == discounts[c] IN
    d.offer.maxUses # None => d.usedCount < d.offer.maxUses

DiscountFind(h) ==
    /\ Arrives(h, "apply-discount")
    /\ \E c \in Codes :
         /\ discounts[c].open
         /\ UsesLeft(c)
         /\ task' = [task EXCEPT ![h] =
                       [at |-> "loadPayment", p |-> None, code |-> c, row |-> NoRow]]
    /\ UNCHANGED <<tables, job, failures, history>>

\* The payment of the dto, whatever its status; none in this tenant is a 404.
DiscountLoad(h) ==
    LET own == RowsOf(discounts[task[h].code].offer.tenant) IN
    /\ At(h, "loadPayment")
    /\ \/ \E p \in own :
            task' = [task EXCEPT ![h].at = "setTotal", ![h].p = p, ![h].row = payments[p]]
       \/ Finish(h)
    /\ UNCHANGED <<tables, job, arrived, failures, history>>

Reduction(offer, row) ==
    IF offer.type = "percentage" THEN (row.amount * offer.value) \div 100 ELSE offer.value

DiscountTotal(h) ==
    LET row == task[h].row IN
    /\ At(h, "setTotal")
    /\ payments' = [payments EXCEPT ![task[h].p].total =
          FloorAtZero(row.total - Reduction(discounts[task[h].code].offer, row))]
    /\ Goto(h, "countUse")
    /\ UNCHANGED <<invoices, discounts, debt, income, job, arrived, failures, history>>

DiscountCount(h) ==
    /\ At(h, "countUse")
    /\ discounts' = [discounts EXCEPT ![task[h].code].usedCount = @ + 1]
    /\ Finish(h)
    /\ UNCHANGED <<payments, invoices, debt, income, job, arrived, failures, history>>

-----------------------------------------------------------------------------
(* PATCH /payments/:id                                                     *)

UpdateFind(h) ==
    /\ Arrives(h, "update")
    /\ \E p \in Rows : task' = [task EXCEPT ![h] =
                         [at |-> "writeUpdate", p |-> p, code |-> None, row |-> NoRow]]
    /\ UNCHANGED <<tables, job, failures, history>>

\* The dto's columns are written as they are; the total is not computed again.  An
\* amount that does not fit makes the UPDATE fail, as does a dto without columns.
UpdateWrite(h) ==
    LET p == task[h].p IN
    /\ At(h, "writeUpdate")
    /\ \E s \in Students \cup {payments[p].student},
          a \in (Amounts \cap 0 .. MaxMoney) \cup {payments[p].amount}, due \in BOOLEAN :
         payments' = [payments EXCEPT ![p].student = s, ![p].amount = a, ![p].due = due]
    /\ Finish(h)
    /\ UNCHANGED <<invoices, discounts, debt, income, job, arrived, failures, history>>

-----------------------------------------------------------------------------
(* The cron job of every midnight: processOverduePayments                  *)

\* The rows the job's SELECT finds.
Overdue(p) == p \in Rows /\ payments[p].status = "pending" /\ payments[p].due

JobFind ==
    LET due == {p \in PaymentIds : Overdue(p)} IN
    /\ job.at = "idle"
    /\ Overlapping \/ Quiet
    /\ due # {}
    /\ job' = [JobIdle EXCEPT !.at = "mark", !.todo =
         {[p |-> p, tenant |-> payments[p].tenant, student |-> payments[p].student] : p \in due}]
    /\ UNCHANGED <<tables, task, arrived, failures, history>>

JobMark ==
    /\ job.at = "mark"
    /\ \E target \in job.todo :
         /\ payments' = [payments EXCEPT ![target.p].status = "overdue"]
         /\ job' = [job EXCEPT !.at = "sum", !.todo = @ \ {target}, !.cur = {target}]
    /\ UNCHANGED <<invoices, discounts, debt, income, task, arrived, failures, history>>

JobSum ==
    /\ job.at = "sum"
    /\ \E target \in job.cur :
         job' = [job EXCEPT !.at = "debt", !.seen =
            {<<p, payments[p].total>> : p \in OwedBy(target.student, target.tenant)}]
    /\ UNCHANGED <<tables, task, arrived, failures, history>>

\* A sum outside decimal(12,2) makes the UPDATE fail, and the job end there.
JobDebt ==
    /\ job.at = "debt"
    /\ \E target \in job.cur :
         IF SumOf(job.seen) \in Money
         THEN /\ debt' = [debt EXCEPT ![target.student] = SumOf(job.seen)]
              /\ notices' = [notices EXCEPT ![target.p] = @ + 1]
              /\ job' = IF job.todo = {} THEN JobIdle
                        ELSE [job EXCEPT !.at = "mark", !.cur = {}, !.seen = {}]
         ELSE job' = JobIdle /\ UNCHANGED <<debt, notices>>
    /\ UNCHANGED <<payments, invoices, discounts, income, task, arrived, failures, credits, refunds>>

-----------------------------------------------------------------------------
(* What happens around the handlers                                        *)

DueDatePasses(p) ==
    /\ p \in Rows /\ ~payments[p].due
    /\ payments' = [payments EXCEPT ![p].due = TRUE]
    /\ UNCHANGED <<invoices, discounts, debt, income, task, job, arrived, failures, history>>

CodeExpires(c) ==
    /\ discounts[c].open
    /\ discounts' = [discounts EXCEPT ![c].open = FALSE]
    /\ UNCHANGED <<payments, invoices, debt, income, task, job, arrived, failures, history>>

\* The awaited statement fails, or the process dies: what is committed stays.
HandlerFails(h) ==
    /\ Busy(h)
    /\ failures < MaxFailures
    /\ failures' = failures + 1
    /\ Finish(h)
    /\ UNCHANGED <<tables, job, arrived, history>>

JobFails ==
    /\ job.at # "idle"
    /\ failures < MaxFailures
    /\ failures' = failures + 1
    /\ job' = JobIdle
    /\ UNCHANGED <<tables, task, arrived, history>>

Request(h) ==
    \/ CreateCount(h) \/ PayFind(h) \/ RefundFind(h) \/ DiscountFind(h) \/ UpdateFind(h)

Proceed(h) ==
    \/ CreateSave(h) \/ CreateInvoice(h)
    \/ PayMark(h) \/ PayCredit(h) \/ PayInvoice(h)
    \/ RefundMark(h)
    \/ DiscountLoad(h) \/ DiscountTotal(h) \/ DiscountCount(h)
    \/ UpdateWrite(h)

Job == JobFind \/ JobMark \/ JobSum \/ JobDebt

Next ==
    \/ \E h \in Handlers : Request(h) \/ Proceed(h) \/ HandlerFails(h)
    \/ Job \/ JobFails
    \/ \E p \in PaymentIds : DueDatePasses(p)
    \/ \E c \in Codes : CodeExpires(c)

Spec == Init /\ [][Next]_vars

\* The event loop runs every started handler on, and @Cron fires every night.
\* Nobody has to send a request, and nothing has to fail.
FairSpec == Spec /\ WF_vars(Job) /\ \A h \in Handlers : WF_vars(Proceed(h))

-----------------------------------------------------------------------------
(* Properties                                                              *)

TypeOK ==
    /\ payments \in [PaymentIds -> Row]
    /\ invoices \in [PaymentIds -> [status : {"absent", "sent", "paid"}, number : Nat]]
    /\ discounts \in [Codes -> [offer : Offer, usedCount : Nat, open : BOOLEAN]]
    /\ debt \in [Students -> Money]
    /\ income \in [Students -> Money]
    /\ task \in [Handlers -> Task]
    /\ job \in [at : {"idle", "mark", "sum", "debt"}, todo : SUBSET Target,
               cur : SUBSET Target, seen : SUBSET (PaymentIds \X Int)]
    /\ arrived \in Nat /\ failures \in Nat
    /\ credits \in [PaymentIds -> Nat]
    /\ refunds \in [PaymentIds -> Nat]
    /\ notices \in [PaymentIds -> Nat]

\* An invoice is never shown as paid before the money was booked on the student:
\* pay() settles the invoice last, and no failure or overlap turns that round.
InvoiceFollowsLedger ==
    \A p \in PaymentIds : invoices[p].status = "paid" => credits[p] >= 1

\* A payment that is still pending has never been credited, refunded or reported
\* overdue, and its invoice is not paid: nothing leads back to PENDING.
PendingIsUntouched ==
    \A p \in PaymentIds : payments[p].status = "pending" =>
        /\ credits[p] = 0 /\ refunds[p] = 0 /\ notices[p] = 0
        /\ invoices[p].status # "paid"

\* However requests, failures and nights interleave, the job emits payment.overdue
\* at most once for a payment: the notification is not repeated every midnight.
OverdueNoticeOnce == \A p \in PaymentIds : notices[p] <= 1

\* A code with maxUses is used at most maxUses times, plus one for every other
\* handler that can stand between the check and the increment of applyDiscount.
InFlight(c) == {h \in Handlers : task[h].code = c}

UsageOvershootBounded ==
    \A c \in Codes : discounts[c].offer.maxUses # None =>
        discounts[c].usedCount <= discounts[c].offer.maxUses + Cardinality(Handlers) - 1

\* 'Payment already paid': a payment is credited to its student once, and once
\* more only after a refund.
SingleCredit == \A p \in PaymentIds : credits[p] <= 1 + refunds[p]

\* Tenant isolation: createInvoice never fails because of another tenant's invoice.
TenantIsolation ==
    \A h \in Handlers : At(h, "invoice") /\ NumberTaken(task[h].row.number) =>
        \E q \in RowsOf(task[h].row.tenant) : invoices[q].number = task[h].row.number

\* The debt shown for a student is covered by what the student still owes.
DebtWithinOwed ==
    \A s \in Students :
        debt[s] <= SumOf({<<p, payments[p].total>> :
                            p \in UNION {OwedBy(s, t) : t \in Tenants}})

\* Confirming a payment books it: a paid payment was credited to its student.
PaidIsCredited == \A p \in PaymentIds : payments[p].status = "paid" => credits[p] >= 1

\* With nothing in flight, a tenant's payments are numbered 1, 2, 3 ... with no number
\* missing and none given twice, whatever failed; and where no statement failed, no debt is
\* shown that is not owed and no payment is paid that was not booked.
BooksAreInOrder ==
    Quiet =>
        /\ \A t \in Tenants :
             {payments[p].number : p \in RowsOf(t)} = 1 .. Cardinality(RowsOf(t))
        /\ failures = 0 => DebtWithinOwed /\ PaidIsCredited

\* Every request that starts is answered, whatever its statements do.
RequestsAreAnswered == \A h \in Handlers : Busy(h) ~> ~Busy(h)

\* A pending payment past its due date does not stay so: it is settled, or an
\* update moves its date, or one of the next nights flags it, also after nights
\* on which the job failed.
DueIsFlaggedOrSettled ==
    \A p \in PaymentIds :
        (payments[p].status = "pending" /\ payments[p].due) ~>
            (payments[p].status # "pending" \/ ~payments[p].due)

=============================================================================
