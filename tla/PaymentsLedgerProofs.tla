---------------------- MODULE PaymentsLedgerProofs ----------------------
(* Proofs that the payment service implements the billing ledger.  Between *)
(* two statements of a handler the tables are not a ledger; shown with     *)
(* what the handler under way has yet to write they are, and each of its   *)
(* statements is one operation of the ledger or none of it.  LedgerInv is  *)
(* what must hold for that: the request's check still holds when it        *)
(* writes, what it wrote is what it read, invoices go with payments, and   *)
(* the totals stay within their columns.                                   *)
EXTENDS PaymentsLedger, PaymentsProofs

\* Requests come one at a time, no statement fails, there is one tenant, and every amount
\* fits the columns that take it.
Orderly(T) ==
    /\ ~Overlapping /\ MaxFailures = 0 /\ HasIncomeColumn
    /\ \A s, t \in Tenants : s = t
    /\ T \in Nat /\ T * MaxRequests <= MaxMoney /\ T <= MaxInvoice
    /\ \A a \in Amounts, d \in Percents, x \in Percents :
         a <= MaxInvoice /\ a - (a * d) \div 100 + (a * x) \div 100 \in 0 .. T

\* What a request holds is what is stored, and its check still holds when it writes.
HandlerHolds(h, T) ==
    LET t   == task[h]
        row == payments[t.p]
    IN  /\ At(h, "save") => Complete(t.row, T) /\ t.row.amount <= MaxInvoice
        /\ At(h, "invoice") => /\ Complete(t.row, T) /\ t.row.amount <= MaxInvoice
                               /\ t.row.number = row.number /\ row.status = "pending"
        /\ Pays(h) => t.row.student = row.student /\ t.row.total = row.total
        /\ At(h, "markPaid") => t.row.status = row.status /\ row.status # "paid"
        /\ At(h, "credit") => /\ t.row.status \in {"pending", "overdue", "refunded"}
                              /\ row.status = "paid"
        /\ At(h, "markRefunded") => row.status = "paid"
        /\ At(h, "loadPayment") \/ At(h, "setTotal") => UsesLeft(t.code)
        /\ At(h, "setTotal") => t.row.total = row.total

\* Every payment has its invoice, but the one whose invoice is about to be inserted.
InvoicesStand ==
    \A p \in PaymentIds :
        /\ invoices[p].status # "absent" <=> p \in Rows /\ Doing(p, "invoice") = {}
        /\ invoices[p].status # "absent" => invoices[p].number = payments[p].number

\* No two payments have a number in common.
Distinct == \A p, q \in Rows : payments[p].number = payments[q].number => p = q

\* The list of the job is what is stored, but for the payment that it is at.
JobHolds ==
    /\ job.at = "idle" => job = JobIdle
    /\ \A target \in job.todo \cup job.cur :
         target.tenant = payments[target.p].tenant /\ target.student = payments[target.p].student
    /\ \A target \in job.todo : payments[target.p].status = "pending"
    /\ \A target \in job.cur : payments[target.p].status = "overdue"
    /\ \A target, other \in job.cur : target = other
    /\ job.at = "debt" => \A target \in job.cur :
         job.seen = {<<p, payments[p].total>> : p \in OwedBy(target.student, target.tenant)}

\* Each payment is one request's.
RowsRoom ==
    /\ Cardinality(Rows) <= arrived
    /\ \A h \in Handlers : At(h, "save") => Cardinality(Rows) < arrived

\* Between any two statements.
LedgerInv(T) ==
    /\ NumbersInv
    /\ \A p \in Rows : Complete(payments[p], T)
    /\ \A h \in Handlers : HandlerHolds(h, T)
    /\ InvoicesStand /\ Distinct /\ JobHolds /\ IncomeInv(T) /\ RowsRoom

-----------------------------------------------------------------------------
(* The ledger as the tables, one request and the job show it.              *)

NoBill == [tenant |-> None, student |-> None, total |-> 0, status |-> "absent"]

BillAs(row, status) ==
    [tenant |-> row.tenant, student |-> row.student, total |-> row.total, status |-> status]

\* While request t is under way, and nothing else.
BillOf(rows, t, p) ==
    IF rows[p].status = "absent" \/ (t.at = "invoice" /\ t.p = p) THEN NoBill
    ELSE BillAs(rows[p], IF t.at = "credit" /\ t.p = p THEN t.row.status ELSE rows[p].status)

InvoiceOf(invs, t, p) ==
    IF t.at = "settleInvoice" /\ t.p = p THEN "paid"
    ELSE IF invs[p].status = "absent" THEN "none" ELSE invs[p].status

UsesOf(codes, t, c) ==
    [count |-> codes[c].usedCount + (IF t.at = "countUse" /\ t.code = c THEN 1 ELSE 0),
     limit |-> codes[c].offer.maxUses]

\* While the job is at j, and no request is under way.
BillAtNight(rows, j, p) ==
    IF rows[p].status = "absent" THEN NoBill
    ELSE BillAs(rows[p], IF j.at \in {"sum", "debt"} /\ \E target \in j.cur : target.p = p
                         THEN "pending" ELSE rows[p].status)

\* What PaymentsLedger shows, by the variables it reads.
Shown(rows, tasks, j, p) ==
    LET doing(step) == {h \in Handlers : tasks[h].p = p /\ tasks[h].at = step} IN
    IF p \notin {q \in PaymentIds : rows[q].status # "absent"} \/ doing("invoice") # {} THEN NoBill
    ELSE BillAs(rows[p],
           IF doing("credit") # {} THEN tasks[CHOOSE h \in doing("credit") : TRUE].row.status
           ELSE IF j.at \in {"sum", "debt"} /\ \E target \in j.cur : target.p = p THEN "pending"
           ELSE rows[p].status)

\* LedgerInvoice.
ShownInvoice(invs, tasks, p) ==
    IF {h \in Handlers : tasks[h].p = p /\ tasks[h].at = "settleInvoice"} # {} THEN "paid"
    ELSE IF invs[p].status = "absent" THEN "none" ELSE invs[p].status

\* LedgerUses.
ShownUses(codes, tasks, c) ==
    [count |-> codes[c].usedCount
                 + Cardinality({h \in Handlers : tasks[h].at = "countUse" /\ tasks[h].code = c}),
     limit |-> codes[c].offer.maxUses]

\* The refinement mapping is Shown, ShownInvoice and ShownUses of the tables, in both states.
LEMMA ShownIs ==
    /\ LedgerBill = [p \in PaymentIds |-> Shown(payments, task, job, p)]
    /\ LedgerBill' = [p \in PaymentIds |-> Shown(payments', task', job', p)]
    /\ LedgerInvoice = [p \in PaymentIds |-> ShownInvoice(invoices, task, p)]
    /\ LedgerInvoice' = [p \in PaymentIds |-> ShownInvoice(invoices', task', p)]
    /\ LedgerUses = [c \in Codes |-> ShownUses(discounts, task, c)]
    /\ LedgerUses' = [c \in Codes |-> ShownUses(discounts', task', c)]
<1>1. /\ LedgerBill = [p \in PaymentIds |-> Shown(payments, task, job, p)]
      /\ LedgerBill' = [p \in PaymentIds |-> Shown(payments', task', job', p)]
  BY DEF LedgerBill, Shown, Rows, Doing, StatusOf, At, NoBill, BillAs
<1>2. /\ LedgerInvoice = [p \in PaymentIds |-> ShownInvoice(invoices, task, p)]
      /\ LedgerInvoice' = [p \in PaymentIds |-> ShownInvoice(invoices', task', p)]
  BY DEF LedgerInvoice, ShownInvoice, Doing, At
<1>3. /\ LedgerUses = [c \in Codes |-> ShownUses(discounts, task, c)]
      /\ LedgerUses' = [c \in Codes |-> ShownUses(discounts', task', c)]
  BY DEF LedgerUses, ShownUses, At
<1> QED
  BY <1>1, <1>2, <1>3

\* At most request h is under way.
Solo(tasks, h) == \A g \in Handlers : g # h => tasks[g].at = "idle"

\* With one request under way, a bill shows that request and no other.
LEMMA ShownSolo ==
    ASSUME NEW rows, NEW tasks, NEW j, NEW h \in Handlers, Solo(tasks, h),
           j.at \notin {"sum", "debt"}, NEW p
    PROVE  p \in PaymentIds => Shown(rows, tasks, j, p) = BillOf(rows, tasks[h], p)
<1> DEFINE doing(step) == {g \in Handlers : tasks[g].p = p /\ tasks[g].at = step}
<1>1. ASSUME NEW step, step # "idle"
      PROVE  doing(step) = IF tasks[h].at = step /\ tasks[h].p = p THEN {h} ELSE {}
  BY <1>1 DEF Solo
<1>2. doing("invoice") = IF tasks[h].at = "invoice" /\ tasks[h].p = p THEN {h} ELSE {}
  BY <1>1
<1>3. doing("credit") = IF tasks[h].at = "credit" /\ tasks[h].p = p THEN {h} ELSE {}
  BY <1>1
<1>4. (CHOOSE g \in {h} : TRUE) = h
  OBVIOUS
<1> QED
  BY <1>2, <1>3, <1>4 DEF Shown, BillOf

\* With one request under way, an invoice shows that request and no other.
LEMMA ShownInvoiceSolo ==
    ASSUME NEW invs, NEW tasks, NEW h \in Handlers, Solo(tasks, h), NEW p
    PROVE  ShownInvoice(invs, tasks, p) = InvoiceOf(invs, tasks[h], p)
<1>1. {g \in Handlers : tasks[g].p = p /\ tasks[g].at = "settleInvoice"}
        = IF tasks[h].at = "settleInvoice" /\ tasks[h].p = p THEN {h} ELSE {}
  BY DEF Solo
<1> QED
  BY <1>1 DEF ShownInvoice, InvoiceOf

\* With one request under way, the uses of a code are those counted and its own.
LEMMA ShownUsesSolo ==
    ASSUME NEW codes, NEW tasks, NEW h \in Handlers, Solo(tasks, h), NEW c
    PROVE  ShownUses(codes, tasks, c) = UsesOf(codes, tasks[h], c)
<1> DEFINE counting == {g \in Handlers : tasks[g].at = "countUse" /\ tasks[g].code = c}
<1>1. counting = IF tasks[h].at = "countUse" /\ tasks[h].code = c THEN {h} ELSE {}
  BY DEF Solo
<1>2. Cardinality({h}) = 1 /\ Cardinality({}) = 0
  BY FS_Singleton, FS_EmptySet
<1> QED
  BY <1>1, <1>2 DEF ShownUses, UsesOf

\* No request is under way.
LEMMA ShownAtNight ==
    ASSUME NEW rows, NEW tasks, NEW j, \A h \in Handlers : tasks[h].at = "idle", NEW p
    PROVE  p \in PaymentIds => Shown(rows, tasks, j, p) = BillAtNight(rows, j, p)
<1>1. \A step : step # "idle" => {g \in Handlers : tasks[g].p = p /\ tasks[g].at = step} = {}
  OBVIOUS
<1>2. /\ {g \in Handlers : tasks[g].p = p /\ tasks[g].at = "invoice"} = {}
      /\ {g \in Handlers : tasks[g].p = p /\ tasks[g].at = "credit"} = {}
  BY <1>1
<1> QED
  BY <1>2 DEF Shown, BillAtNight

\* The ledger before and after a step of request h.
Shows(h) ==
    /\ LedgerBill = [p \in PaymentIds |-> BillOf(payments, task[h], p)]
    /\ LedgerBill' = [p \in PaymentIds |-> BillOf(payments', task'[h], p)]
    /\ LedgerInvoice = [p \in PaymentIds |-> InvoiceOf(invoices, task[h], p)]
    /\ LedgerInvoice' = [p \in PaymentIds |-> InvoiceOf(invoices', task'[h], p)]
    /\ LedgerUses = [c \in Codes |-> UsesOf(discounts, task[h], c)]
    /\ LedgerUses' = [c \in Codes |-> UsesOf(discounts', task'[h], c)]

\* A step of a request: nobody else is under way, before it or after it.
LEMMA Scene ==
    ASSUME NEW T, Orderly(T), LedgerInv(T), NEW h \in Handlers, Request(h) \/ Proceed(h)
    PROVE  /\ job = JobIdle /\ job' = job
           /\ Solo(task, h) /\ Solo(task', h) /\ \A g \in Handlers : g # h => task'[g] = task[g]
           /\ Shows(h)
<1>1. TypeOK /\ Exclusive /\ (job.at = "idle" => job = JobIdle)
  BY DEF LedgerInv, NumbersInv, Serial, JobHolds
<1>2. job' = job /\ \A g \in Handlers : g # h => task'[g] = task[g]
  BY <1>1, Others
<1>3. Quiet \/ Busy(h)
  BY DEF Orderly, Request, CreateCount, PayFind, RefundFind, DiscountFind, UpdateFind, Arrives,
     Proceed, CreateSave, CreateInvoice, PayMark, PayCredit, PayInvoice, RefundMark,
     DiscountLoad, DiscountTotal, DiscountCount, UpdateWrite, Busy, At
<1>4. job.at = "idle" /\ Solo(task, h)
  BY <1>1, <1>3 DEF Exclusive, Quiet, Busy, Solo
<1>5. Solo(task', h)
  BY <1>2, <1>4 DEF Solo
<1>6. /\ \A p \in PaymentIds : Shown(payments, task, job, p) = BillOf(payments, task[h], p)
      /\ \A p \in PaymentIds : Shown(payments', task', job', p) = BillOf(payments', task'[h], p)
  BY <1>2, <1>4, <1>5, ShownSolo
<1>7. /\ \A p : ShownInvoice(invoices, task, p) = InvoiceOf(invoices, task[h], p)
      /\ \A p : ShownInvoice(invoices', task', p) = InvoiceOf(invoices', task'[h], p)
  BY <1>4, <1>5, ShownInvoiceSolo
<1>8. /\ \A c : ShownUses(discounts, task, c) = UsesOf(discounts, task[h], c)
      /\ \A c : ShownUses(discounts', task', c) = UsesOf(discounts', task'[h], c)
  BY <1>4, <1>5, ShownUsesSolo
<1>9. Shows(h)
  BY <1>6, <1>7, <1>8, ShownIs DEF Shows
<1> QED
  BY <1>1, <1>2, <1>4, <1>5, <1>9

-----------------------------------------------------------------------------
(* What every step of a request has to keep.                               *)

\* A step of the ledger, or none.
LedgerStep == [Ledger!Next]_(Ledger!vars)

\* The parts of the invariant, where request h is the one under way.
LEMMA KeptBy ==
    ASSUME NEW T, NumbersInv', NEW h \in Handlers, Solo(task', h), job' = JobIdle,
           HandlerHolds(h, T)', InvoicesStand', Distinct', IncomeInv(T)', RowsRoom',
           (\A p \in Rows : Complete(payments[p], T))'
    PROVE  LedgerInv(T)'
<1>1. ASSUME NEW g \in Handlers PROVE HandlerHolds(g, T)'
  <2>1. CASE g # h
    <3>1. task'[g].at = "idle"
      BY <2>1 DEF Solo
    <3> QED
      BY <3>1 DEF HandlerHolds, At, Pays
  <2> QED
    BY <2>1
<1>2. JobHolds'
  BY DEF JobHolds, JobIdle
<1> QED
  BY <1>1, <1>2 DEF LedgerInv

\* The invoice of p, while request t is the one under way.
Invoiced(rows, invs, t, p) ==
    /\ invs[p].status # "absent" <=> rows[p].status # "absent" /\ ~(t.at = "invoice" /\ t.p = p)
    /\ invs[p].status # "absent" => invs[p].number = rows[p].number

\* With one request under way, InvoicesStand is about that request alone.
LEMMA InvoicedSolo ==
    ASSUME NEW h \in Handlers, Solo(task, h), Solo(task', h)
    PROVE  /\ InvoicesStand <=> \A p \in PaymentIds : Invoiced(payments, invoices, task[h], p)
           /\ InvoicesStand' <=> \A p \in PaymentIds : Invoiced(payments', invoices', task'[h], p)
<1>1. \A p : Doing(p, "invoice") = {} <=> ~(task[h].at = "invoice" /\ task[h].p = p)
  BY DEF Doing, Solo, At
<1>2. \A p : Doing(p, "invoice")' = {} <=> ~(task'[h].at = "invoice" /\ task'[h].p = p)
  BY DEF Doing, Solo, At
<1> QED
  BY <1>1, <1>2 DEF InvoicesStand, Invoiced, Rows

\* A step that neither adds a payment nor begins a request.
LEMMA RoomStays ==
    ASSUME NEW T, LedgerInv(T), NEW h \in Handlers, Solo(task', h),
           Pays(h)' => Pays(h), income' = income, ~At(h, "save")', arrived' = arrived, Rows' = Rows
    PROVE  IncomeInv(T)' /\ RowsRoom'
<1>1. ASSUME NEW g \in Handlers PROVE (Pays(g)' => Pays(g)) /\ ~At(g, "save")'
  BY DEF Solo, Pays, At
<1>2. IncomeInv(T)'
  BY <1>1 DEF LedgerInv, IncomeInv
<1>3. RowsRoom'
  BY <1>1 DEF LedgerInv, RowsRoom
<1> QED
  BY <1>2, <1>3

\* A request that arrives.
LEMMA Arrival ==
    ASSUME NEW T, Orderly(T), LedgerInv(T), NumbersInv', NEW h \in Handlers, Request(h),
           HandlerHolds(h, T)',
           task'[h].at \notin {"invoice", "credit", "settleInvoice", "countUse"}
    PROVE  LedgerInv(T)' /\ LedgerStep
<1>1. /\ UNCHANGED tables /\ arrived' = arrived + 1 /\ arrived < MaxRequests
      /\ task[h].at = "idle"
  BY DEF Request, CreateCount, PayFind, RefundFind, DiscountFind, UpdateFind, Arrives, Busy
<1>2. job' = JobIdle /\ Solo(task, h) /\ Solo(task', h) /\ Shows(h)
  BY Scene
<1>3. /\ T \in Nat /\ MaxRequests \in Nat /\ arrived \in Nat /\ income \in [Students -> Money]
      /\ Money \subseteq Int
  BY PaymentsAssumption DEF Orderly, LedgerInv, NumbersInv, Serial, TypeOK, Money
<1>4. Rows' = Rows
  BY <1>1 DEF Rows, tables
<1>5. IncomeInv(T)'
  <2>1. Room(T, arrived + 1) = Room(T, arrived) + T /\ Room(T, arrived) \in Nat
    BY <1>3, RoomIs
  <2>2. \A s \in Students : income[s] + T <= Room(T, arrived + 1) /\ income[s] <= Room(T, arrived + 1)
    <3> SUFFICES ASSUME NEW s \in Students
                 PROVE  income[s] + T <= Room(T, arrived + 1) /\ income[s] <= Room(T, arrived + 1)
      OBVIOUS
    <3>1. income[s] \in Int /\ income[s] <= Room(T, arrived)
      BY <1>3 DEF LedgerInv, IncomeInv
    <3> QED
      BY <1>3, <2>1, <3>1
  <2> QED
    BY <1>1, <1>3, <2>2 DEF IncomeInv, tables
<1>6. RowsRoom'
  <2>1. Cardinality(Rows) \in Nat
    BY PaymentsAssumption, FS_Subset, FS_CardinalityType DEF Rows
  <2> QED
    BY <1>1, <1>3, <1>4, <2>1 DEF LedgerInv, RowsRoom
<1>7. InvoicesStand'
  BY <1>1, <1>2, InvoicedSolo DEF LedgerInv, Invoiced, tables
<1>8. Distinct' /\ (\A p \in Rows : Complete(payments[p], T))'
  BY <1>1, <1>4 DEF LedgerInv, Distinct, Complete, tables
<1>9. LedgerInv(T)'
  BY <1>2, <1>5, <1>6, <1>7, <1>8, KeptBy
<1>10. UNCHANGED <<LedgerBill, LedgerInvoice, LedgerUses, debt, income>>
  BY <1>1, <1>2 DEF Shows, BillOf, InvoiceOf, UsesOf, tables
<1> QED
  BY <1>9, <1>10 DEF LedgerStep, Ledger!vars

\* A request that is accepted, or refused at its look-up, shows nothing.
LEMMA ArrivalStep ==
    ASSUME NEW T, Orderly(T), LedgerInv(T), NumbersInv', NEW h \in Handlers, Request(h)
    PROVE  LedgerInv(T)' /\ LedgerStep
<1>0. /\ task \in [Handlers -> Task] /\ payments \in [PaymentIds -> Row]
      /\ payments' = payments /\ discounts' = discounts /\ Rows \subseteq PaymentIds
  BY DEF LedgerInv, NumbersInv, Serial, TypeOK, Request, CreateCount, PayFind, RefundFind,
     DiscountFind, UpdateFind, tables, Rows
<1>1. CASE CreateCount(h)
  <2>1. PICK t \in Tenants, s \in Students, a \in Amounts, d \in Percents, x \in Percents,
             due \in BOOLEAN :
          task' = [task EXCEPT ![h] = [at |-> "save", p |-> None, code |-> None,
                                       row |-> NewRow(t, s, NextNumber(t), a, d, x, due)]]
    BY <1>1 DEF CreateCount
  <2> DEFINE row == NewRow(t, s, NextNumber(t), a, d, x, due)
  <2>2. task'[h].at = "save" /\ task'[h].row = row
    BY <1>0, <2>1
  <2>3. Complete(row, T) /\ row.amount <= MaxInvoice
    BY DEF NewRow, Complete, Orderly
  <2>4. HandlerHolds(h, T)'
    BY <2>2, <2>3 DEF HandlerHolds, Pays, At, Complete
  <2> QED
    BY <2>2, <2>4, Arrival
<1>2. CASE PayFind(h)
  <2>1. PICK p \in Rows :
          /\ payments[p].status # "paid"
          /\ task' = [task EXCEPT ![h] =
                        [at |-> "markPaid", p |-> p, code |-> None, row |-> payments[p]]]
    BY <1>2 DEF PayFind
  <2>2. task'[h] = [at |-> "markPaid", p |-> p, code |-> None, row |-> payments[p]]
    BY <1>0, <2>1
  <2>3. HandlerHolds(h, T)'
    BY <1>0, <2>1, <2>2 DEF HandlerHolds, Pays, At
  <2> QED
    BY <2>2, <2>3, Arrival
<1>3. CASE RefundFind(h)
  <2>1. PICK p \in Rows :
          /\ payments[p].status = "paid"
          /\ task' = [task EXCEPT ![h] =
                        [at |-> "markRefunded", p |-> p, code |-> None, row |-> payments[p]]]
    BY <1>3 DEF RefundFind
  <2>2. task'[h] = [at |-> "markRefunded", p |-> p, code |-> None, row |-> payments[p]]
    BY <1>0, <2>1
  <2>3. HandlerHolds(h, T)'
    BY <1>0, <2>1, <2>2 DEF HandlerHolds, Pays, At
  <2> QED
    BY <2>2, <2>3, Arrival
<1>4. CASE DiscountFind(h)
  <2>1. PICK c \in Codes :
          /\ UsesLeft(c)
          /\ task' = [task EXCEPT ![h] =
                        [at |-> "loadPayment", p |-> None, code |-> c, row |-> NoRow]]
    BY <1>4 DEF DiscountFind
  <2>2. task'[h] = [at |-> "loadPayment", p |-> None, code |-> c, row |-> NoRow]
    BY <1>0, <2>1
  <2>3. HandlerHolds(h, T)'
    BY <1>0, <2>1, <2>2 DEF HandlerHolds, Pays, At, UsesLeft
  <2> QED
    BY <2>2, <2>3, Arrival
<1>5. CASE UpdateFind(h)
  <2>1. PICK p \in Rows : task' = [task EXCEPT ![h] =
                        [at |-> "writeUpdate", p |-> p, code |-> None, row |-> NoRow]]
    BY <1>5 DEF UpdateFind
  <2>2. task'[h] = [at |-> "writeUpdate", p |-> p, code |-> None, row |-> NoRow]
    BY <1>0, <2>1
  <2>3. HandlerHolds(h, T)'
    BY <2>2 DEF HandlerHolds, Pays, At
  <2> QED
    BY <2>2, <2>3, Arrival
<1> QED
  BY <1>1, <1>2, <1>3, <1>4, <1>5 DEF Request

-----------------------------------------------------------------------------
(* Steps of a request that change no table but one.                        *)

\* The facts about types that the steps need.
Typed == /\ payments \in [PaymentIds -> Row] /\ task \in [Handlers -> Task]
         /\ invoices \in [PaymentIds -> [status : {"absent", "sent", "paid"}, number : Nat]]
         /\ discounts \in [Codes -> [offer : Offer, usedCount : Nat, open : BOOLEAN]]
         /\ debt \in [Students -> Money] /\ income \in [Students -> Money]
         /\ Rows \subseteq PaymentIds

\* The columns and the requests have their types.
LEMMA Types == ASSUME NEW T, LedgerInv(T) PROVE Typed
BY DEF LedgerInv, NumbersInv, Serial, TypeOK, Typed, Rows

\* A payment that a request under way has found is there.
LEMMA Found ==
    ASSUME NEW T, LedgerInv(T), NEW h \in Handlers, task[h].at \in WithPayment
    PROVE  task[h].p \in PaymentIds /\ task[h].p \in Rows /\ payments[task[h].p].status # "absent"
BY DEF LedgerInv, NumbersInv, PresentAtWork, Rows

\* Only the status of payment p changes.
LEMMA StatusChange ==
    ASSUME Typed, NEW p \in Rows, NEW new \in Statuses,
           payments' = [payments EXCEPT ![p].status = new]
    PROVE  /\ Rows' = Rows
           /\ \A q \in PaymentIds : /\ payments'[q].tenant = payments[q].tenant
                                     /\ payments'[q].student = payments[q].student
                                     /\ payments'[q].number = payments[q].number
                                     /\ payments'[q].total = payments[q].total
                                     /\ payments'[q].status = IF q = p THEN new ELSE payments[q].status
<1>1. \A q \in PaymentIds : payments'[q] = IF q = p THEN [payments[q] EXCEPT !.status = new]
                                                    ELSE payments[q]
  BY DEF Typed
<1>2. \A q \in PaymentIds : /\ payments'[q].tenant = payments[q].tenant
                            /\ payments'[q].student = payments[q].student
                            /\ payments'[q].number = payments[q].number
                            /\ payments'[q].total = payments[q].total
                            /\ payments'[q].status = IF q = p THEN new ELSE payments[q].status
  BY <1>1 DEF Typed, Row
<1>3. Rows' = Rows
  BY <1>2 DEF Rows, Statuses
<1> QED
  BY <1>2, <1>3

\* The columns that the invariant and the ledger read, where only a status changed.
LEMMA RowsStand ==
    ASSUME NEW T, LedgerInv(T), Rows' = Rows,
           \A q \in PaymentIds : /\ payments'[q].tenant = payments[q].tenant
                                 /\ payments'[q].student = payments[q].student
                                 /\ payments'[q].number = payments[q].number
                                 /\ payments'[q].total = payments[q].total
    PROVE  Distinct' /\ (\A p \in Rows : Complete(payments[p], T))'
<1>1. Rows \subseteq PaymentIds
  BY DEF Rows
<1>2. Distinct'
  BY <1>1 DEF LedgerInv, Distinct
<1>3. (\A p \in Rows : Complete(payments[p], T))'
  BY <1>1 DEF LedgerInv, Complete
<1> QED
  BY <1>2, <1>3

\* create, the payment is inserted: not shown before it has its invoice.
LEMMA CreateSaveStep ==
    ASSUME NEW T, Orderly(T), LedgerInv(T), NumbersInv', NEW h \in Handlers, CreateSave(h)
    PROVE  LedgerInv(T)' /\ LedgerStep
<1> DEFINE row == task[h].row
<1>0. /\ Typed /\ job = JobIdle /\ job' = job /\ Solo(task, h) /\ Solo(task', h) /\ Shows(h)
      /\ At(h, "save") /\ UNCHANGED <<invoices, discounts, debt, income, arrived>>
  BY Types, Scene DEF CreateSave, Proceed
<1>1. PICK p \in PaymentIds \ Rows : /\ payments' = [payments EXCEPT ![p] = row]
                                     /\ task' = [task EXCEPT ![h].at = "invoice", ![h].p = p]
  BY DEF CreateSave
<1>2. /\ row.status = "pending" /\ row.number = NextNumber(row.tenant)
      /\ Complete(row, T) /\ row.amount <= MaxInvoice
  BY <1>0 DEF LedgerInv, NumbersInv, SaveNumbered, SavesNext, HandlerHolds
<1>3. /\ task'[h].at = "invoice" /\ task'[h].p = p /\ task'[h].row = row
  <2>1. task'[h] = [task[h] EXCEPT !.at = "invoice", !.p = p]
    BY <1>0, <1>1 DEF Typed
  <2> QED
    BY <1>0, <2>1 DEF Typed, Task
<1> HIDE DEF row
<1>4. /\ \A q \in PaymentIds : payments'[q] = IF q = p THEN row ELSE payments[q]
      /\ payments[p].status = "absent" /\ p \notin Rows /\ Rows' = Rows \cup {p}
  BY <1>0, <1>1, <1>2 DEF Typed, Rows
<1>5. Distinct'
  <2>1. ASSUME NEW q \in Rows PROVE payments[q].number # row.number
    <3>1. payments[q].tenant = row.tenant /\ row.tenant \in Tenants
      BY <1>2 DEF LedgerInv, Complete, Orderly
    <3>2. payments[q].number \in 1 .. Cardinality(RowsOf(row.tenant))
      BY <3>1 DEF LedgerInv, NumbersInv, Numbered, Numbers, RowsOf
    <3>3. Cardinality(RowsOf(row.tenant)) \in Nat
      BY RowsAreFinite
    <3> QED
      BY <1>2, <3>2, <3>3 DEF NextNumber
  <2> QED
    BY <1>0, <1>4, <2>1 DEF LedgerInv, Distinct, Typed
<1>6. (\A q \in Rows : Complete(payments[q], T))'
  BY <1>0, <1>2, <1>4 DEF LedgerInv, Complete, Typed
<1>7. InvoicesStand'
  <2>1. \A q \in PaymentIds : Invoiced(payments, invoices, task[h], q)
    BY <1>0, InvoicedSolo DEF LedgerInv
  <2>2. \A q \in PaymentIds : Invoiced(payments', invoices', task'[h], q)
    BY <1>0, <1>2, <1>3, <1>4, <2>1 DEF Invoiced, At
  <2> QED
    BY <1>0, <2>2, InvoicedSolo
<1>8. HandlerHolds(h, T)'
  BY <1>2, <1>3, <1>4 DEF HandlerHolds, Complete, Pays, At
<1>9. IncomeInv(T)'
  <2>1. \A g \in Handlers : ~Pays(g)'
    BY <1>0, <1>3 DEF Solo, Pays, At
  <2> QED
    BY <1>0, <2>1 DEF LedgerInv, IncomeInv
<1>10. RowsRoom'
  <2>1. IsFiniteSet(Rows) /\ Cardinality(Rows) \in Nat
    BY PaymentsAssumption, FS_Subset, FS_CardinalityType DEF Rows
  <2>2. Cardinality(Rows') = Cardinality(Rows) + 1
    BY <1>4, <2>1, FS_AddElement
  <2>3. Cardinality(Rows) < arrived /\ arrived \in Nat
    BY <1>0 DEF LedgerInv, RowsRoom, NumbersInv, Serial, TypeOK
  <2>4. \A g \in Handlers : ~At(g, "save")'
    BY <1>0, <1>3 DEF Solo, At
  <2> QED
    BY <1>0, <2>1, <2>2, <2>3, <2>4 DEF RowsRoom
<1>11. LedgerInv(T)'
  BY <1>0, <1>5, <1>6, <1>7, <1>8, <1>9, <1>10, KeptBy
<1>12. UNCHANGED <<LedgerBill, LedgerInvoice, LedgerUses>>
  <2>1. \A q \in PaymentIds : BillOf(payments', task'[h], q) = BillOf(payments, task[h], q)
    BY <1>0, <1>3, <1>4 DEF BillOf, At
  <2>2. \A q \in PaymentIds : InvoiceOf(invoices', task'[h], q) = InvoiceOf(invoices, task[h], q)
    BY <1>0, <1>3 DEF InvoiceOf, At
  <2>3. \A c \in Codes : UsesOf(discounts', task'[h], c) = UsesOf(discounts, task[h], c)
    BY <1>0, <1>3 DEF UsesOf, At
  <2> QED
    BY <1>0, <2>1, <2>2, <2>3 DEF Shows
<1> QED
  BY <1>0, <1>11, <1>12 DEF LedgerStep, Ledger!vars

\* The invoice is inserted: no other has its number, and its amounts fit.
LEMMA InvoiceInserted ==
    ASSUME NEW T, Orderly(T), LedgerInv(T), NEW h \in Handlers, CreateInvoice(h)
    PROVE  invoices' = [invoices EXCEPT ![task[h].p] = [status |-> "sent", number |-> task[h].row.number]]
<1> DEFINE row == task[h].row
           p == task[h].p
<1>0. At(h, "invoice") /\ Typed
  BY Types DEF CreateInvoice
<1>1. p \in Rows /\ p \in PaymentIds
  BY <1>0, Found DEF At, WithPayment
<1>2. /\ Complete(row, T) /\ row.amount <= MaxInvoice /\ row.number = payments[p].number
  BY <1>0 DEF LedgerInv, HandlerHolds
<1>3. Fits(row, MaxInvoice)
  BY <1>2, PaymentsAssumption DEF Orderly, Complete, Fits
<1>4. ~NumberTaken(row.number)
  <2> SUFFICES ASSUME NEW q \in PaymentIds, invoices[q].status # "absent", invoices[q].number = row.number
               PROVE  FALSE
    BY DEF NumberTaken
  <2>1. q \in Rows /\ Doing(q, "invoice") = {} /\ payments[q].number = payments[p].number
    BY <1>2 DEF LedgerInv, InvoicesStand
  <2>2. q = p
    BY <1>1, <2>1 DEF LedgerInv, Distinct
  <2> QED
    BY <1>0, <2>1, <2>2 DEF Doing
<1> QED
  BY <1>3, <1>4 DEF CreateInvoice

\* create, the invoice is inserted: Charge.
LEMMA CreateInvoiceStep ==
    ASSUME NEW T, Orderly(T), LedgerInv(T), NumbersInv', NEW h \in Handlers, CreateInvoice(h)
    PROVE  LedgerInv(T)' /\ LedgerStep
<1> DEFINE p == task[h].p
           number == task[h].row.number
<1>0. /\ Typed /\ job = JobIdle /\ job' = job /\ Solo(task, h) /\ Solo(task', h) /\ Shows(h)
      /\ At(h, "invoice") /\ UNCHANGED <<payments, discounts, debt, income, arrived>>
      /\ invoices' = [invoices EXCEPT ![p] = [status |-> "sent", number |-> number]]
  BY Types, Scene, InvoiceInserted DEF CreateInvoice, Proceed
<1>1. p \in Rows /\ p \in PaymentIds /\ payments[p].status # "absent"
  BY <1>0, Found DEF At, WithPayment
<1>2. task'[h] = Idle
  BY <1>0 DEF CreateInvoice, Finish, Typed
<1>3. number = payments[p].number /\ payments[p].status = "pending"
  BY <1>0 DEF LedgerInv, HandlerHolds
<1> HIDE DEF number
<1>4. \A q \in PaymentIds : invoices'[q] = IF q = p THEN [status |-> "sent", number |-> number]
                                         ELSE invoices[q]
  BY <1>0, <1>1 DEF Typed
<1>5. /\ Rows' = Rows /\ HandlerHolds(h, T)' /\ ~At(h, "save")' /\ ~Pays(h)'
  BY <1>0, <1>2 DEF HandlerHolds, At, Pays, Idle, Rows
<1>6. Distinct' /\ (\A q \in Rows : Complete(payments[q], T))'
  BY <1>0, <1>5, RowsStand
<1>7. \A q \in PaymentIds : Invoiced(payments, invoices, task[h], q)
  BY <1>0, InvoicedSolo DEF LedgerInv
<1>8. InvoicesStand'
  <2>1. \A q \in PaymentIds : Invoiced(payments', invoices', task'[h], q)
    BY <1>0, <1>1, <1>2, <1>3, <1>4, <1>7 DEF Invoiced, Idle, At
  <2> QED
    BY <1>0, <2>1, InvoicedSolo
<1>9. LedgerInv(T)'
  BY <1>0, <1>5, <1>6, <1>8, RoomStays, KeptBy
<1>10. Ledger!Charge(p)
  <2>1. LedgerBill[p].status = "absent"
    BY <1>0, <1>1 DEF Shows, BillOf, NoBill, At
  <2>2. LedgerBill'[p].status = "pending"
    BY <1>0, <1>1, <1>2, <1>3 DEF Shows, BillOf, BillAs, Idle
  <2>3. LedgerBill' = [LedgerBill EXCEPT ![p] = LedgerBill'[p]]
    <3>1. \A q \in PaymentIds : q # p => BillOf(payments', task'[h], q) = BillOf(payments, task[h], q)
      BY <1>0, <1>2 DEF BillOf, Idle, At
    <3> QED
      BY <1>0, <1>1, <3>1 DEF Shows
  <2>4. LedgerInvoice' = [LedgerInvoice EXCEPT ![p] = "sent"]
    <3>1. \A q \in PaymentIds : InvoiceOf(invoices', task'[h], q)
                              = IF q = p THEN "sent" ELSE InvoiceOf(invoices, task[h], q)
      BY <1>0, <1>2, <1>4 DEF InvoiceOf, Idle, At
    <3> QED
      BY <1>0, <1>1, <3>1 DEF Shows
  <2>5. LedgerUses' = LedgerUses
    <3>1. \A c \in Codes : UsesOf(discounts', task'[h], c) = UsesOf(discounts, task[h], c)
      BY <1>0, <1>2 DEF UsesOf, Idle, At
    <3> QED
      BY <1>0, <3>1 DEF Shows
  <2> QED
    BY <1>0, <2>1, <2>2, <2>3, <2>4, <2>5 DEF Ledger!Charge
<1> QED
  BY <1>1, <1>9, <1>10 DEF LedgerStep, Ledger!Next

\* pay, the payment is marked paid: not shown before the student is credited.
LEMMA PayMarkStep ==
    ASSUME NEW T, Orderly(T), LedgerInv(T), NumbersInv', NEW h \in Handlers, PayMark(h)
    PROVE  LedgerInv(T)' /\ LedgerStep
<1> DEFINE p == task[h].p
           row == task[h].row
<1>0. /\ Typed /\ job = JobIdle /\ job' = job /\ Solo(task, h) /\ Solo(task', h) /\ Shows(h)
      /\ At(h, "markPaid") /\ UNCHANGED <<invoices, discounts, debt, income, arrived>>
      /\ payments' = [payments EXCEPT ![p].status = "paid"]
  BY Types, Scene DEF PayMark, Proceed
<1>1. p \in Rows /\ p \in PaymentIds /\ payments[p].status # "absent"
  BY <1>0, Found DEF At, WithPayment
<1>2. task'[h].at = "credit" /\ task'[h].p = p /\ task'[h].row = row
  <2>1. task'[h] = [task[h] EXCEPT !.at = "credit"]
    BY <1>0 DEF PayMark, Goto, Typed
  <2> QED
    BY <1>0, <2>1 DEF Typed, Task
<1>3. /\ row.student = payments[p].student /\ row.total = payments[p].total
      /\ row.status = payments[p].status /\ payments[p].status # "paid" /\ Pays(h)
  BY <1>0 DEF LedgerInv, HandlerHolds, Pays
<1>4. payments[p].status \in {"pending", "overdue", "refunded"}
  BY <1>0, <1>1, <1>3 DEF Typed, Row, Statuses
<1> HIDE DEF p, row
<1>5. /\ Rows' = Rows
      /\ \A q \in PaymentIds : /\ payments'[q].tenant = payments[q].tenant
                               /\ payments'[q].student = payments[q].student
                               /\ payments'[q].number = payments[q].number
                               /\ payments'[q].total = payments[q].total
                               /\ payments'[q].status = IF q = p THEN "paid" ELSE payments[q].status
  <2>1. Typed /\ "paid" \in Statuses /\ payments' = [payments EXCEPT ![p].status = "paid"]
    BY <1>0 DEF Statuses
  <2> QED
    BY <1>1, <2>1, StatusChange
<1>6. Distinct' /\ (\A q \in Rows : Complete(payments[q], T))'
  BY <1>5, RowsStand
<1>7. HandlerHolds(h, T)' /\ ~At(h, "save")' /\ (Pays(h)' => Pays(h))
  BY <1>1, <1>2, <1>3, <1>4, <1>5 DEF HandlerHolds, At, Pays
<1>8. InvoicesStand'
  <2>1. \A q \in PaymentIds : Invoiced(payments, invoices, task[h], q)
    BY <1>0, InvoicedSolo DEF LedgerInv
  <2>2. \A q \in PaymentIds : Invoiced(payments', invoices', task'[h], q)
    BY <1>0, <1>1, <1>2, <1>5, <2>1 DEF Invoiced, At
  <2> QED
    BY <1>0, <2>2, InvoicedSolo
<1>9. LedgerInv(T)'
  BY <1>0, <1>5, <1>6, <1>7, <1>8, RoomStays, KeptBy
<1>10. UNCHANGED <<LedgerBill, LedgerInvoice, LedgerUses>>
  <2>1. \A q \in PaymentIds : BillOf(payments', task'[h], q) = BillOf(payments, task[h], q)
    BY <1>0, <1>1, <1>2, <1>3, <1>4, <1>5 DEF BillOf, BillAs, At
  <2>2. \A q \in PaymentIds : InvoiceOf(invoices', task'[h], q) = InvoiceOf(invoices, task[h], q)
    BY <1>0, <1>2 DEF InvoiceOf, At
  <2>3. \A c \in Codes : UsesOf(discounts', task'[h], c) = UsesOf(discounts, task[h], c)
    BY <1>0, <1>2 DEF UsesOf, At
  <2> QED
    BY <1>0, <2>1, <2>2, <2>3 DEF Shows
<1> QED
  BY <1>0, <1>9, <1>10 DEF LedgerStep, Ledger!vars

\* The column is there and both values fit it.
LEMMA Credited ==
    ASSUME NEW T, Orderly(T), LedgerInv(T), NEW h \in Handlers, PayCredit(h)
    PROVE  LET row == task[h].row IN
           /\ row.student \in Students /\ row.total \in 0 .. T
           /\ debt' = [debt EXCEPT ![row.student] = FloorAtZero(debt[row.student] - row.total)]
           /\ income' = [income EXCEPT ![row.student] = income[row.student] + row.total]
           /\ Goto(h, "settleInvoice")
<1> DEFINE row == task[h].row
           s == row.student
<1>0. At(h, "credit") /\ Pays(h) /\ Typed
  BY Types DEF PayCredit, Pays
<1>1. s \in Students /\ row.total \in 0 .. T
  <2>1. payments[task[h].p].student = s /\ payments[task[h].p].total = row.total
    BY <1>0 DEF LedgerInv, HandlerHolds
  <2>2. task[h].p \in Rows
    BY <1>0, Found DEF At, WithPayment
  <2> QED
    BY <2>1, <2>2 DEF LedgerInv, Complete
<1>2. /\ T \in Nat /\ MaxMoney \in Nat /\ MaxRequests \in Nat /\ arrived \in Nat
      /\ arrived <= MaxRequests /\ Room(T, MaxRequests) <= MaxMoney
  BY PaymentsAssumption DEF Orderly, LedgerInv, NumbersInv, Serial, TypeOK, IncomeInv, Room
<1>3. debt[s] \in Money /\ income[s] \in Money
  BY <1>0, <1>1 DEF Typed
<1>4. income[s] + T <= Room(T, arrived)
  BY <1>0, <1>1 DEF LedgerInv, IncomeInv
<1>5. Room(T, arrived) <= Room(T, MaxRequests) /\ Room(T, arrived) \in Nat
      /\ Room(T, MaxRequests) \in Nat
  BY <1>2, RoomIs
<1> HIDE DEF s, row
<1>6. income[s] + row.total \in Money
  BY <1>1, <1>2, <1>3, <1>4, <1>5 DEF Money
<1>7. FloorAtZero(debt[s] - row.total) \in Money
  BY <1>1, <1>2, <1>3 DEF Money, FloorAtZero
<1> QED
  BY <1>1, <1>6, <1>7 DEF PayCredit, Orderly, s, row

\* pay, the student is credited: Settle, with the invoice that is settled next.
LEMMA PayCreditStep ==
    ASSUME NEW T, Orderly(T), LedgerInv(T), NumbersInv', NEW h \in Handlers, PayCredit(h)
    PROVE  LedgerInv(T)' /\ LedgerStep
<1> DEFINE p == task[h].p
           row == task[h].row
<1>0. /\ Typed /\ job = JobIdle /\ job' = job /\ Solo(task, h) /\ Solo(task', h) /\ Shows(h)
      /\ At(h, "credit") /\ UNCHANGED <<payments, invoices, discounts, arrived>>
  BY Types, Scene DEF PayCredit, Proceed
<1>1. /\ row.student \in Students /\ row.total \in 0 .. T
      /\ debt' = [debt EXCEPT ![row.student] = FloorAtZero(debt[row.student] - row.total)]
      /\ income' = [income EXCEPT ![row.student] = income[row.student] + row.total]
      /\ Goto(h, "settleInvoice")
  BY Credited
<1>2. p \in Rows /\ p \in PaymentIds /\ payments[p].status # "absent"
  BY <1>0, Found DEF At, WithPayment
<1>3. task'[h].at = "settleInvoice" /\ task'[h].p = p
  <2>1. task'[h] = [task[h] EXCEPT !.at = "settleInvoice"]
    BY <1>0, <1>1 DEF Goto, Typed
  <2> QED
    BY <1>0, <2>1 DEF Typed, Task
<1>4. /\ row.student = payments[p].student /\ row.total = payments[p].total /\ Pays(h)
      /\ row.status \in {"pending", "overdue", "refunded"} /\ payments[p].status = "paid"
  BY <1>0 DEF LedgerInv, HandlerHolds, Pays
<1> HIDE DEF p, row
<1>5. Rows' = Rows /\ HandlerHolds(h, T)' /\ ~At(h, "save")' /\ ~Pays(h)'
  BY <1>0, <1>3 DEF HandlerHolds, At, Pays, Rows
<1>6. Distinct' /\ (\A q \in Rows : Complete(payments[q], T))'
  BY <1>0, <1>5, RowsStand
<1>7. InvoicesStand'
  <2>1. \A q \in PaymentIds : Invoiced(payments, invoices, task[h], q)
    BY <1>0, InvoicedSolo DEF LedgerInv
  <2>2. \A q \in PaymentIds : Invoiced(payments', invoices', task'[h], q)
    BY <1>0, <1>3, <2>1 DEF Invoiced, At
  <2> QED
    BY <1>0, <2>2, InvoicedSolo
<1>8. IncomeInv(T)' /\ RowsRoom'
  <2>1. \A g \in Handlers : ~Pays(g)' /\ ~At(g, "save")'
    BY <1>0, <1>3 DEF Solo, Pays, At
  <2>0. T \in Nat /\ arrived \in Nat /\ Money \subseteq Int
    BY PaymentsAssumption DEF Orderly, LedgerInv, NumbersInv, Serial, TypeOK, Money
  <2>2. T \in Nat /\ arrived \in Nat /\ Room(T, arrived) \in Nat /\ Money \subseteq Int
    BY <2>0, RoomIs
  <2>3. ASSUME NEW s \in Students PROVE income'[s] <= Room(T, arrived)
    <3>1. /\ income[s] \in Int /\ income[s] <= Room(T, arrived) /\ income[s] + T <= Room(T, arrived)
      BY <1>0, <1>4, <2>2 DEF LedgerInv, IncomeInv, Typed
    <3>2. income'[s] = income[s] \/ income'[s] = income[s] + row.total
      BY <1>0, <1>1 DEF Typed
    <3> QED
      BY <1>1, <2>2, <3>1, <3>2
  <2> QED
    BY <1>0, <1>5, <2>1, <2>3 DEF LedgerInv, IncomeInv, RowsRoom
<1>9. LedgerInv(T)'
  BY <1>0, <1>5, <1>6, <1>7, <1>8, KeptBy
<1>10. Ledger!Settle(p)
  <2>1. LedgerBill[p] = BillAs(payments[p], row.status)
    BY <1>0, <1>2 DEF Shows, BillOf, At, p, row
  <2>2. LedgerBill[p].status = row.status /\ LedgerBill[p].student = row.student
        /\ LedgerBill[p].total = row.total
    BY <1>4, <2>1 DEF BillAs
  <2>3. LedgerBill' = [LedgerBill EXCEPT ![p].status = "paid"]
    <3>1. \A q \in PaymentIds : q # p => BillOf(payments', task'[h], q) = BillOf(payments, task[h], q)
      BY <1>0, <1>3 DEF BillOf, At, p
    <3>2. BillOf(payments', task'[h], p) = BillAs(payments[p], "paid")
      BY <1>0, <1>2, <1>3, <1>4 DEF BillOf
    <3>3. BillAs(payments[p], "paid") = [BillAs(payments[p], row.status) EXCEPT !.status = "paid"]
      BY DEF BillAs
    <3> QED
      BY <1>0, <1>2, <2>1, <3>1, <3>2, <3>3 DEF Shows
  <2>4. LedgerInvoice' = [LedgerInvoice EXCEPT ![p] = "paid"]
    <3>1. \A q \in PaymentIds : InvoiceOf(invoices', task'[h], q)
                              = IF q = p THEN "paid" ELSE InvoiceOf(invoices, task[h], q)
      BY <1>0, <1>3 DEF InvoiceOf, At
    <3> QED
      BY <1>0, <1>2, <3>1 DEF Shows
  <2>5. LedgerUses' = LedgerUses
    <3>1. \A c \in Codes : UsesOf(discounts', task'[h], c) = UsesOf(discounts, task[h], c)
      BY <1>0, <1>3 DEF UsesOf, At
    <3> QED
      BY <1>0, <3>1 DEF Shows
  <2>6. /\ debt' = [debt EXCEPT ![row.student] = Ledger!Positive(debt[row.student] - row.total)]
        /\ income' = [income EXCEPT ![row.student] = income[row.student] + row.total]
    BY <1>1 DEF FloorAtZero, Ledger!Positive
  <2> QED
    BY <1>4, <2>2, <2>3, <2>4, <2>5, <2>6 DEF Ledger!Settle
<1> QED
  BY <1>2, <1>9, <1>10 DEF LedgerStep, Ledger!Next

\* pay, the invoice is settled: shown so already.
LEMMA PayInvoiceStep ==
    ASSUME NEW T, Orderly(T), LedgerInv(T), NumbersInv', NEW h \in Handlers, PayInvoice(h)
    PROVE  LedgerInv(T)' /\ LedgerStep
<1> DEFINE p == task[h].p
<1>0. /\ Typed /\ job = JobIdle /\ job' = job /\ Solo(task, h) /\ Solo(task', h) /\ Shows(h)
      /\ At(h, "settleInvoice") /\ UNCHANGED <<payments, discounts, debt, income, arrived>>
      /\ invoices' = [invoices EXCEPT ![p].status = IF @ = "absent" THEN @ ELSE "paid"]
  BY Types, Scene DEF PayInvoice, Proceed
<1>1. p \in Rows /\ p \in PaymentIds /\ payments[p].status # "absent"
  BY <1>0, Found DEF At, WithPayment
<1>2. task'[h] = Idle
  BY <1>0 DEF PayInvoice, Finish, Typed
<1>3. \A q \in PaymentIds : Invoiced(payments, invoices, task[h], q)
  BY <1>0, InvoicedSolo DEF LedgerInv
<1>4. invoices[p].status # "absent"
  BY <1>0, <1>1, <1>3 DEF Invoiced, At
<1>5. \A q \in PaymentIds : /\ invoices'[q].number = invoices[q].number
                            /\ invoices'[q].status = IF q = p THEN "paid" ELSE invoices[q].status
  <2>1. invoices'[p] = [invoices[p] EXCEPT !.status = "paid"]
    BY <1>0, <1>1, <1>4 DEF Typed
  <2>2. \A q \in PaymentIds : q # p => invoices'[q] = invoices[q]
    BY <1>0, <1>1 DEF Typed
  <2>3. invoices[p] \in [status : {"absent", "sent", "paid"}, number : Nat]
    BY <1>0, <1>1 DEF Typed
  <2> HIDE DEF p
  <2>4. invoices'[p].status = "paid" /\ invoices'[p].number = invoices[p].number
    BY <2>1, <2>3
  <2> QED
    BY <2>2, <2>4
<1> HIDE DEF p
<1>6. Rows' = Rows /\ HandlerHolds(h, T)' /\ ~At(h, "save")' /\ ~Pays(h)'
  BY <1>0, <1>2 DEF HandlerHolds, At, Pays, Idle, Rows
<1>7. Distinct' /\ (\A q \in Rows : Complete(payments[q], T))'
  BY <1>0, <1>6, RowsStand
<1>8. InvoicesStand'
  <2>1. \A q \in PaymentIds : Invoiced(payments', invoices', task'[h], q)
    BY <1>0, <1>2, <1>3, <1>4, <1>5 DEF Invoiced, Idle, At
  <2> QED
    BY <1>0, <2>1, InvoicedSolo
<1>9. LedgerInv(T)'
  BY <1>0, <1>6, <1>7, <1>8, RoomStays, KeptBy
<1>10. UNCHANGED <<LedgerBill, LedgerInvoice, LedgerUses>>
  <2>1. \A q \in PaymentIds : BillOf(payments', task'[h], q) = BillOf(payments, task[h], q)
    BY <1>0, <1>2 DEF BillOf, Idle, At
  <2>2. \A q \in PaymentIds : InvoiceOf(invoices', task'[h], q) = InvoiceOf(invoices, task[h], q)
    BY <1>0, <1>2, <1>5 DEF InvoiceOf, Idle, At, p
  <2>3. \A c \in Codes : UsesOf(discounts', task'[h], c) = UsesOf(discounts, task[h], c)
    BY <1>0, <1>2 DEF UsesOf, Idle, At
  <2> QED
    BY <1>0, <2>1, <2>2, <2>3 DEF Shows
<1> QED
  BY <1>0, <1>9, <1>10 DEF LedgerStep, Ledger!vars

\* refund, the payment is marked refunded: Refund.
LEMMA RefundMarkStep ==
    ASSUME NEW T, Orderly(T), LedgerInv(T), NumbersInv', NEW h \in Handlers, RefundMark(h)
    PROVE  LedgerInv(T)' /\ LedgerStep
<1> DEFINE p == task[h].p
<1>0. /\ Typed /\ job = JobIdle /\ job' = job /\ Solo(task, h) /\ Solo(task', h) /\ Shows(h)
      /\ At(h, "markRefunded") /\ UNCHANGED <<invoices, discounts, debt, income, arrived>>
      /\ payments' = [payments EXCEPT ![p].status = "refunded"]
  BY Types, Scene DEF RefundMark, Proceed
<1>1. p \in Rows /\ p \in PaymentIds /\ payments[p].status # "absent"
  BY <1>0, Found DEF At, WithPayment
<1>2. task'[h] = Idle
  BY <1>0 DEF RefundMark, Finish, Typed
<1>3. payments[p].status = "paid"
  BY <1>0 DEF LedgerInv, HandlerHolds
<1> HIDE DEF p
<1>4. /\ Rows' = Rows
      /\ \A q \in PaymentIds : /\ payments'[q].tenant = payments[q].tenant
                               /\ payments'[q].student = payments[q].student
                               /\ payments'[q].number = payments[q].number
                               /\ payments'[q].total = payments[q].total
                               /\ payments'[q].status = IF q = p THEN "refunded" ELSE payments[q].status
  BY <1>0, <1>1, StatusChange DEF Statuses
<1>5. Distinct' /\ (\A q \in Rows : Complete(payments[q], T))'
  BY <1>4, RowsStand
<1>6. HandlerHolds(h, T)' /\ ~At(h, "save")' /\ ~Pays(h)'
  BY <1>2 DEF HandlerHolds, At, Pays, Idle
<1>7. InvoicesStand'
  <2>1. \A q \in PaymentIds : Invoiced(payments, invoices, task[h], q)
    BY <1>0, InvoicedSolo DEF LedgerInv
  <2>2. \A q \in PaymentIds : Invoiced(payments', invoices', task'[h], q)
    BY <1>0, <1>1, <1>2, <1>4, <2>1 DEF Invoiced, Idle, At
  <2> QED
    BY <1>0, <2>2, InvoicedSolo
<1>8. LedgerInv(T)'
  BY <1>0, <1>4, <1>5, <1>6, <1>7, RoomStays, KeptBy
<1>9. Ledger!Refund(p)
  <2>1. LedgerBill[p] = BillAs(payments[p], "paid")
    BY <1>0, <1>1, <1>3 DEF Shows, BillOf, At
  <2>2. LedgerBill' = [LedgerBill EXCEPT ![p].status = "refunded"]
    <3>1. \A q \in PaymentIds : q # p => BillOf(payments', task'[h], q) = BillOf(payments, task[h], q)
      BY <1>0, <1>2, <1>4 DEF BillOf, BillAs, Idle, At
    <3>2. BillOf(payments', task'[h], p) = BillAs(payments[p], "refunded")
      BY <1>1, <1>2, <1>4 DEF BillOf, BillAs, Idle
    <3>3. BillAs(payments[p], "refunded") = [BillAs(payments[p], "paid") EXCEPT !.status = "refunded"]
      BY DEF BillAs
    <3> QED
      BY <1>0, <1>1, <2>1, <3>1, <3>2, <3>3 DEF Shows
  <2>3. LedgerInvoice' = LedgerInvoice
    <3>1. \A q \in PaymentIds : InvoiceOf(invoices', task'[h], q) = InvoiceOf(invoices, task[h], q)
      BY <1>0, <1>2 DEF InvoiceOf, Idle, At
    <3> QED
      BY <1>0, <3>1 DEF Shows
  <2>4. LedgerUses' = LedgerUses
    <3>1. \A c \in Codes : UsesOf(discounts', task'[h], c) = UsesOf(discounts, task[h], c)
      BY <1>0, <1>2 DEF UsesOf, Idle, At
    <3> QED
      BY <1>0, <3>1 DEF Shows
  <2> QED
    BY <1>0, <2>1, <2>2, <2>3, <2>4 DEF Ledger!Refund, BillAs
<1> QED
  BY <1>1, <1>8, <1>9 DEF LedgerStep, Ledger!Next

\* apply-discount, the payment is read: shows nothing.
LEMMA DiscountLoadStep ==
    ASSUME NEW T, Orderly(T), LedgerInv(T), NumbersInv', NEW h \in Handlers, DiscountLoad(h)
    PROVE  LedgerInv(T)' /\ LedgerStep
<1>0. /\ Typed /\ job = JobIdle /\ job' = job /\ Solo(task, h) /\ Solo(task', h) /\ Shows(h)
      /\ At(h, "loadPayment") /\ UNCHANGED <<payments, invoices, discounts, debt, income, arrived>>
  BY Types, Scene DEF DiscountLoad, Proceed, tables
<1>1. UsesLeft(task[h].code)
  BY <1>0 DEF LedgerInv, HandlerHolds
<1>2. task'[h].at \in {"idle", "setTotal"} /\ HandlerHolds(h, T)'
  <2>1. CASE Finish(h)
    <3>1. task'[h] = Idle
      BY <1>0, <2>1 DEF Finish, Typed
    <3> QED
      BY <3>1 DEF Idle, HandlerHolds, At, Pays
  <2>2. CASE ~Finish(h)
    <3>1. PICK p \in PaymentIds :
            task' = [task EXCEPT ![h].at = "setTotal", ![h].p = p, ![h].row = payments[p]]
      BY <2>2 DEF DiscountLoad, RowsOf, Rows
    <3>2. task'[h] = [task[h] EXCEPT !.at = "setTotal", !.p = p, !.row = payments[p]]
      BY <1>0, <3>1 DEF Typed
    <3>3. /\ task'[h].at = "setTotal" /\ task'[h].p = p /\ task'[h].row = payments[p]
          /\ task'[h].code = task[h].code
      BY <1>0, <3>2 DEF Typed, Task
    <3> QED
      BY <1>0, <1>1, <3>3 DEF HandlerHolds, At, Pays, UsesLeft
  <2> QED
    BY <2>1, <2>2
<1>3. Rows' = Rows /\ ~At(h, "save")' /\ ~Pays(h)'
  BY <1>0, <1>2 DEF At, Pays, Rows
<1>4. Distinct' /\ (\A q \in Rows : Complete(payments[q], T))'
  BY <1>0, <1>3, RowsStand
<1>5. InvoicesStand'
  <2>1. \A q \in PaymentIds : Invoiced(payments, invoices, task[h], q)
    BY <1>0, InvoicedSolo DEF LedgerInv
  <2>2. \A q \in PaymentIds : Invoiced(payments', invoices', task'[h], q)
    BY <1>0, <1>2, <2>1 DEF Invoiced, At
  <2> QED
    BY <1>0, <2>2, InvoicedSolo
<1>6. LedgerInv(T)'
  BY <1>0, <1>2, <1>3, <1>4, <1>5, RoomStays, KeptBy
<1>7. UNCHANGED <<LedgerBill, LedgerInvoice, LedgerUses>>
  <2>1. \A q \in PaymentIds : BillOf(payments', task'[h], q) = BillOf(payments, task[h], q)
    BY <1>0, <1>2 DEF BillOf, At
  <2>2. \A q \in PaymentIds : InvoiceOf(invoices', task'[h], q) = InvoiceOf(invoices, task[h], q)
    BY <1>0, <1>2 DEF InvoiceOf, At
  <2>3. \A c \in Codes : UsesOf(discounts', task'[h], c) = UsesOf(discounts, task[h], c)
    BY <1>0, <1>2 DEF UsesOf, At
  <2> QED
    BY <1>0, <2>1, <2>2, <2>3 DEF Shows
<1> QED
  BY <1>0, <1>6, <1>7 DEF LedgerStep, Ledger!vars

\* A discount never raises a total, nor takes it below zero.
LEMMA Reduced ==
    ASSUME NEW row \in Row, row.total >= 0, NEW offer \in Offer
    PROVE  FloorAtZero(row.total - Reduction(offer, row)) \in 0 .. row.total
<1>1. row.total \in Nat /\ row.amount \in Nat /\ offer.value \in Nat
  BY DEF Row, Offer
<1>2. row.amount * offer.value \in Nat
  BY <1>1
<1>3. (row.amount * offer.value) \div 100 \in Nat
  <2> DEFINE z == row.amount * offer.value
  <2>1. z \in Nat
    BY <1>2
  <2> HIDE DEF z
  <2>2. z \div 100 \in Nat
    BY <2>1
  <2> QED
    BY <2>2 DEF z
<1>4. Reduction(offer, row) \in Nat
  BY <1>1, <1>3 DEF Reduction
<1> QED
  BY <1>1, <1>4 DEF FloorAtZero

\* apply-discount, the total is written: Reduce, with the use that is counted next.
LEMMA DiscountTotalStep ==
    ASSUME NEW T, Orderly(T), LedgerInv(T), NumbersInv', NEW h \in Handlers, DiscountTotal(h)
    PROVE  LedgerInv(T)' /\ LedgerStep
<1> DEFINE p == task[h].p
           c == task[h].code
           row == task[h].row
           n == FloorAtZero(row.total - Reduction(discounts[c].offer, row))
<1>0. /\ Typed /\ job = JobIdle /\ job' = job /\ Solo(task, h) /\ Solo(task', h) /\ Shows(h)
      /\ At(h, "setTotal") /\ UNCHANGED <<invoices, discounts, debt, income, arrived>>
      /\ payments' = [payments EXCEPT ![p].total = n]
  BY Types, Scene DEF DiscountTotal, Proceed
<1>1. p \in Rows /\ p \in PaymentIds /\ payments[p].status # "absent"
  BY <1>0, Found DEF At, WithPayment
<1>2. /\ task'[h].at = "countUse" /\ task'[h].p = p /\ task'[h].code = c
      /\ c \in Codes /\ row \in Row
  <2>1. task'[h] = [task[h] EXCEPT !.at = "countUse"]
    BY <1>0 DEF DiscountTotal, Goto, Typed
  <2> QED
    BY <1>0, <2>1 DEF Typed, Task, WithCode, At
<1>3. UsesLeft(c) /\ row.total = payments[p].total
  BY <1>0 DEF LedgerInv, HandlerHolds
<1>4. n \in 0 .. payments[p].total /\ payments[p].total \in 0 .. T /\ T \in Nat
  <2>1. payments[p].total \in 0 .. T /\ T \in Nat
    BY <1>1 DEF LedgerInv, Complete, Orderly
  <2>2. discounts[c].offer \in Offer
    BY <1>0, <1>2 DEF Typed
  <2> HIDE DEF c, row, p
  <2> QED
    BY <1>2, <1>3, <2>1, <2>2, Reduced
<1>5. /\ Rows' = Rows
      /\ \A q \in PaymentIds : /\ payments'[q].tenant = payments[q].tenant
                               /\ payments'[q].student = payments[q].student
                               /\ payments'[q].number = payments[q].number
                               /\ payments'[q].status = payments[q].status
                               /\ payments'[q].total = IF q = p THEN n ELSE payments[q].total
  <2> HIDE DEF n
  <2>1. \A q \in PaymentIds : payments'[q] = IF q = p THEN [payments[q] EXCEPT !.total = n]
                                             ELSE payments[q]
    BY <1>0, <1>1 DEF Typed
  <2>2. \A q \in PaymentIds : payments[q] \in Row
    BY <1>0 DEF Typed
  <2>3. \A q \in PaymentIds : /\ payments'[q].tenant = payments[q].tenant
                              /\ payments'[q].student = payments[q].student
                              /\ payments'[q].number = payments[q].number
                              /\ payments'[q].status = payments[q].status
                              /\ payments'[q].total = IF q = p THEN n ELSE payments[q].total
    BY <2>1, <2>2 DEF Row
  <2> QED
    BY <2>3 DEF Rows
<1> HIDE DEF p, c, row, n
<1>6. Distinct'
  BY <1>0, <1>5 DEF LedgerInv, Distinct, Typed
<1>7. (\A q \in Rows : Complete(payments[q], T))'
  BY <1>0, <1>4, <1>5 DEF LedgerInv, Complete, Typed
<1>8. HandlerHolds(h, T)' /\ ~At(h, "save")' /\ ~Pays(h)'
  BY <1>2 DEF HandlerHolds, At, Pays
<1>9. InvoicesStand'
  <2>1. \A q \in PaymentIds : Invoiced(payments, invoices, task[h], q)
    BY <1>0, InvoicedSolo DEF LedgerInv
  <2>2. \A q \in PaymentIds : Invoiced(payments', invoices', task'[h], q)
    BY <1>0, <1>2, <1>5, <2>1 DEF Invoiced, At
  <2> QED
    BY <1>0, <2>2, InvoicedSolo
<1>10. LedgerInv(T)'
  BY <1>0, <1>5, <1>6, <1>7, <1>8, <1>9, RoomStays, KeptBy
<1>11. Ledger!Reduce(p, c)
  <2>1. LedgerBill[p] = BillAs(payments[p], payments[p].status)
    BY <1>0, <1>1 DEF Shows, BillOf, At
  <2>2. LedgerBill' = [LedgerBill EXCEPT ![p].total = n]
    <3>1. \A q \in PaymentIds : q # p => BillOf(payments', task'[h], q) = BillOf(payments, task[h], q)
      BY <1>0, <1>2, <1>5 DEF BillOf, BillAs, At
    <3>2. BillOf(payments', task'[h], p) = [BillAs(payments[p], payments[p].status) EXCEPT !.total = n]
      BY <1>1, <1>2, <1>5 DEF BillOf, BillAs
    <3> QED
      BY <1>0, <1>1, <2>1, <3>1, <3>2 DEF Shows
  <2>3. LedgerInvoice' = LedgerInvoice
    <3>1. \A q \in PaymentIds : InvoiceOf(invoices', task'[h], q) = InvoiceOf(invoices, task[h], q)
      BY <1>0, <1>2 DEF InvoiceOf, At
    <3> QED
      BY <1>0, <3>1 DEF Shows
  <2>4. LedgerUses[c] = [count |-> discounts[c].usedCount, limit |-> discounts[c].offer.maxUses]
    <3>1. discounts[c].usedCount \in Nat
      BY <1>0, <1>2 DEF Typed
    <3> QED
      BY <1>0, <1>2, <3>1 DEF Shows, UsesOf, At
  <2>5. LedgerUses' = [LedgerUses EXCEPT ![c].count = @ + 1]
    <3>1. ASSUME NEW d \in Codes, d # c PROVE UsesOf(discounts', task'[h], d) = UsesOf(discounts, task[h], d)
      BY <1>0, <1>2, <3>1 DEF UsesOf, At, c
    <3>2. UsesOf(discounts', task'[h], c) = [count |-> discounts[c].usedCount + 1,
                                              limit |-> discounts[c].offer.maxUses]
      BY <1>0, <1>2 DEF UsesOf
    <3> QED
      BY <1>0, <1>2, <2>4, <3>1, <3>2 DEF Shows
  <2>6. LedgerUses[c].limit # None => LedgerUses[c].count < LedgerUses[c].limit
    BY <1>3, <2>4 DEF UsesLeft
  <2>7. LedgerBill[p].status # "absent" /\ n \in 0 .. Ledger!Positive(LedgerBill[p].total)
    BY <1>1, <1>4, <2>1 DEF BillAs, Ledger!Positive
  <2> QED
    BY <1>0, <2>2, <2>3, <2>5, <2>6, <2>7 DEF Ledger!Reduce
<1> QED
  BY <1>1, <1>2, <1>10, <1>11 DEF LedgerStep, Ledger!Next

\* apply-discount, the use is counted: shown so already.
LEMMA DiscountCountStep ==
    ASSUME NEW T, Orderly(T), LedgerInv(T), NumbersInv', NEW h \in Handlers, DiscountCount(h)
    PROVE  LedgerInv(T)' /\ LedgerStep
<1> DEFINE c == task[h].code
<1>0. /\ Typed /\ job = JobIdle /\ job' = job /\ Solo(task, h) /\ Solo(task', h) /\ Shows(h)
      /\ At(h, "countUse") /\ UNCHANGED <<payments, invoices, debt, income, arrived>>
      /\ discounts' = [discounts EXCEPT ![c].usedCount = @ + 1]
  BY Types, Scene DEF DiscountCount, Proceed
<1>1. task'[h] = Idle /\ c \in Codes
  BY <1>0 DEF DiscountCount, Finish, Typed, Task, WithCode, At
<1>2. Rows' = Rows /\ HandlerHolds(h, T)' /\ ~At(h, "save")' /\ ~Pays(h)'
  BY <1>0, <1>1 DEF HandlerHolds, Idle, At, Pays, Rows
<1>3. Distinct' /\ (\A q \in Rows : Complete(payments[q], T))'
  BY <1>0, <1>2, RowsStand
<1>4. InvoicesStand'
  <2>1. \A q \in PaymentIds : Invoiced(payments, invoices, task[h], q)
    BY <1>0, InvoicedSolo DEF LedgerInv
  <2>2. \A q \in PaymentIds : Invoiced(payments', invoices', task'[h], q)
    BY <1>0, <1>1, <2>1 DEF Invoiced, Idle, At
  <2> QED
    BY <1>0, <2>2, InvoicedSolo
<1>5. LedgerInv(T)'
  BY <1>0, <1>2, <1>3, <1>4, RoomStays, KeptBy
<1>6. UNCHANGED <<LedgerBill, LedgerInvoice, LedgerUses>>
  <2>1. \A q \in PaymentIds : BillOf(payments', task'[h], q) = BillOf(payments, task[h], q)
    BY <1>0, <1>1 DEF BillOf, Idle, At
  <2>2. \A q \in PaymentIds : InvoiceOf(invoices', task'[h], q) = InvoiceOf(invoices, task[h], q)
    BY <1>0, <1>1 DEF InvoiceOf, Idle, At
  <2>3. ASSUME NEW d \in Codes PROVE UsesOf(discounts', task'[h], d) = UsesOf(discounts, task[h], d)
    <3>1. /\ discounts'[d].offer = discounts[d].offer
          /\ discounts'[d].usedCount = IF d = c THEN discounts[d].usedCount + 1 ELSE discounts[d].usedCount
          /\ discounts[d].usedCount \in Nat
      <4> HIDE DEF c
      <4> QED
        BY <1>0, <1>1 DEF Typed
    <3> QED
      BY <1>0, <1>1, <3>1 DEF UsesOf, Idle, At
  <2> QED
    BY <1>0, <2>1, <2>2, <2>3 DEF Shows
<1> QED
  BY <1>0, <1>5, <1>6 DEF LedgerStep, Ledger!vars

\* update, the row is written: Reassign.
LEMMA UpdateWriteStep ==
    ASSUME NEW T, Orderly(T), LedgerInv(T), NumbersInv', NEW h \in Handlers, UpdateWrite(h)
    PROVE  LedgerInv(T)' /\ LedgerStep
<1> DEFINE p == task[h].p
<1>0. /\ Typed /\ job = JobIdle /\ job' = job /\ Solo(task, h) /\ Solo(task', h) /\ Shows(h)
      /\ At(h, "writeUpdate") /\ UNCHANGED <<invoices, discounts, debt, income, arrived>>
  BY Types, Scene DEF UpdateWrite, Proceed
<1>1. p \in Rows /\ p \in PaymentIds /\ payments[p].status # "absent"
  BY <1>0, Found DEF At, WithPayment
<1>2. task'[h] = Idle
  BY <1>0 DEF UpdateWrite, Finish, Typed
<1>3. PICK s \in Students \cup {payments[p].student},
           a \in (Amounts \cap 0 .. MaxMoney) \cup {payments[p].amount}, due \in BOOLEAN :
        payments' = [payments EXCEPT ![p].student = s, ![p].amount = a, ![p].due = due]
  BY DEF UpdateWrite
<1>4. s \in Students
  BY <1>1 DEF LedgerInv, Complete
<1> HIDE DEF p
<1>5. /\ Rows' = Rows
      /\ \A q \in PaymentIds : /\ payments'[q].tenant = payments[q].tenant
                               /\ payments'[q].number = payments[q].number
                               /\ payments'[q].status = payments[q].status
                               /\ payments'[q].total = payments[q].total
                               /\ payments'[q].student = IF q = p THEN s ELSE payments[q].student
  <2>1. payments'[p] = [payments[p] EXCEPT !.student = s, !.amount = a, !.due = due]
    BY <1>0, <1>1, <1>3 DEF Typed
  <2>2. \A q \in PaymentIds : q # p => payments'[q] = payments[q]
    BY <1>0, <1>3 DEF Typed
  <2>3. payments[p] \in Row
    BY <1>0, <1>1 DEF Typed
  <2>4. /\ payments'[p].tenant = payments[p].tenant /\ payments'[p].number = payments[p].number
        /\ payments'[p].status = payments[p].status /\ payments'[p].total = payments[p].total
        /\ payments'[p].student = s
    BY <2>1, <2>3 DEF Row
  <2> QED
    BY <2>2, <2>4 DEF Rows
<1>6. Distinct'
  BY <1>0, <1>5 DEF LedgerInv, Distinct, Typed
<1>7. (\A q \in Rows : Complete(payments[q], T))'
  BY <1>0, <1>4, <1>5 DEF LedgerInv, Complete, Typed
<1>8. HandlerHolds(h, T)' /\ ~At(h, "save")' /\ ~Pays(h)'
  BY <1>2 DEF HandlerHolds, At, Pays, Idle
<1>9. InvoicesStand'
  <2>1. \A q \in PaymentIds : Invoiced(payments, invoices, task[h], q)
    BY <1>0, InvoicedSolo DEF LedgerInv
  <2>2. \A q \in PaymentIds : Invoiced(payments', invoices', task'[h], q)
    BY <1>0, <1>2, <1>5, <2>1 DEF Invoiced, Idle, At
  <2> QED
    BY <1>0, <2>2, InvoicedSolo
<1>10. LedgerInv(T)'
  BY <1>0, <1>5, <1>6, <1>7, <1>8, <1>9, RoomStays, KeptBy
<1>11. Ledger!Reassign(p)
  <2>1. LedgerBill[p] = BillAs(payments[p], payments[p].status)
    BY <1>0, <1>1 DEF Shows, BillOf, At
  <2>2. LedgerBill' = [LedgerBill EXCEPT ![p].student = s]
    <3>1. \A q \in PaymentIds : q # p => BillOf(payments', task'[h], q) = BillOf(payments, task[h], q)
      BY <1>0, <1>2, <1>5 DEF BillOf, BillAs, At, Idle
    <3>2. BillOf(payments', task'[h], p) = [BillAs(payments[p], payments[p].status) EXCEPT !.student = s]
      BY <1>1, <1>2, <1>5 DEF BillOf, BillAs, Idle
    <3> QED
      BY <1>0, <1>1, <2>1, <3>1, <3>2 DEF Shows
  <2>3. LedgerInvoice' = LedgerInvoice
    <3>1. \A q \in PaymentIds : InvoiceOf(invoices', task'[h], q) = InvoiceOf(invoices, task[h], q)
      BY <1>0, <1>2 DEF InvoiceOf, Idle, At
    <3> QED
      BY <1>0, <3>1 DEF Shows
  <2>4. LedgerUses' = LedgerUses
    <3>1. \A d \in Codes : UsesOf(discounts', task'[h], d) = UsesOf(discounts, task[h], d)
      BY <1>0, <1>2 DEF UsesOf, Idle, At
    <3> QED
      BY <1>0, <3>1 DEF Shows
  <2>5. LedgerBill[p].status # "absent"
    BY <1>1, <2>1 DEF BillAs
  <2> QED
    BY <1>0, <1>4, <2>2, <2>3, <2>4, <2>5 DEF Ledger!Reassign
<1> QED
  BY <1>1, <1>10, <1>11 DEF LedgerStep, Ledger!Next

-----------------------------------------------------------------------------
(* Steps of nobody's, in the midst of requests and nights.                 *)

\* What the invariant and the ledger read of the tables is as it was.
Undisturbed ==
    /\ UNCHANGED <<invoices, debt, income, task, job, arrived>>
    /\ \A q \in PaymentIds : /\ payments'[q].tenant = payments[q].tenant
                             /\ payments'[q].student = payments[q].student
                             /\ payments'[q].number = payments[q].number
                             /\ payments'[q].total = payments[q].total
                             /\ payments'[q].status = payments[q].status
    /\ \A c \in Codes : discounts'[c].offer = discounts[c].offer
                        /\ discounts'[c].usedCount = discounts[c].usedCount

\* A step that changes no column of the ledger shows nothing.
LEMMA UndisturbedStep ==
    ASSUME NEW T, LedgerInv(T), NumbersInv', Undisturbed
    PROVE  LedgerInv(T)' /\ LedgerStep
<1>0. /\ Typed /\ PresentAtWork
      /\ job \in [at : {"idle", "mark", "sum", "debt"}, todo : SUBSET Target,
                  cur : SUBSET Target, seen : SUBSET (PaymentIds \X Int)]
  BY Types DEF LedgerInv, NumbersInv, Serial, TypeOK
<1>1. Rows' = Rows
  BY DEF Undisturbed, Rows
<1>2. Distinct' /\ (\A q \in Rows : Complete(payments[q], T))'
  BY <1>1, RowsStand DEF Undisturbed
<1>3. ASSUME NEW h \in Handlers PROVE HandlerHolds(h, T)'
  <2>1. HandlerHolds(h, T) /\ task'[h] = task[h] /\ task[h] \in Task
    BY <1>0 DEF LedgerInv, Undisturbed, Typed
  <2>2. task[h].at \in WithPayment => task[h].p \in PaymentIds
    BY <2>1 DEF Task
  <2>3. task[h].at \in WithCode => task[h].code \in Codes
    BY <2>1 DEF Task
  <2>4. task[h].at \in WithCode /\ UsesLeft(task[h].code) => UsesLeft(task[h].code)'
    BY <2>1, <2>3 DEF UsesLeft, Undisturbed
  <2>5. task[h].at \in WithPayment =>
          /\ payments'[task[h].p].student = payments[task[h].p].student
          /\ payments'[task[h].p].number = payments[task[h].p].number
          /\ payments'[task[h].p].total = payments[task[h].p].total
          /\ payments'[task[h].p].status = payments[task[h].p].status
    BY <2>2 DEF Undisturbed
  <2> QED
    BY <2>1, <2>4, <2>5 DEF HandlerHolds, At, Pays, Complete, WithPayment, WithCode
<1>4. InvoicesStand'
  BY <1>1 DEF LedgerInv, InvoicesStand, Doing, At, Undisturbed
<1>5. JobHolds'
  <2>1. \A s, t : OwedBy(s, t)' = OwedBy(s, t)
    BY <1>0, <1>1 DEF OwedBy, RowsOf, Undisturbed, Typed
  <2>2. \A s, t : {<<p, payments'[p].total>> : p \in OwedBy(s, t)'}
                = {<<p, payments[p].total>> : p \in OwedBy(s, t)}
    <3> SUFFICES ASSUME NEW s, NEW t
                 PROVE  {<<p, payments'[p].total>> : p \in OwedBy(s, t)'}
                          = {<<p, payments[p].total>> : p \in OwedBy(s, t)}
      OBVIOUS
    <3> DEFINE A == OwedBy(s, t)
    <3>1. OwedBy(s, t)' = A
      BY <2>1
    <3>2. \A p \in A : payments'[p].total = payments[p].total
      BY DEF OwedBy, RowsOf, Rows, Undisturbed
    <3> HIDE DEF A
    <3>3. {<<p, payments'[p].total>> : p \in A} = {<<p, payments[p].total>> : p \in A}
      BY <3>2
    <3> QED
      BY <3>1, <3>3 DEF A
  <2>3. \A target \in job.todo \cup job.cur : target.p \in PaymentIds
    BY <1>0 DEF PresentAtWork, Typed
  <2> QED
    BY <1>0, <2>2, <2>3 DEF LedgerInv, JobHolds, Undisturbed
<1>6. IncomeInv(T)' /\ RowsRoom'
  BY <1>1 DEF LedgerInv, IncomeInv, RowsRoom, Undisturbed, Pays, At
<1>7. LedgerInv(T)'
  BY <1>2, <1>3, <1>4, <1>5, <1>6 DEF LedgerInv
<1>8. LedgerBill' = LedgerBill
  <2>1. ASSUME NEW p \in PaymentIds PROVE Shown(payments', task', job', p) = Shown(payments, task, job, p)
    BY DEF Shown, BillAs, Undisturbed
  <2> QED
    BY <2>1, ShownIs
<1>9. LedgerInvoice' = LedgerInvoice /\ LedgerUses' = LedgerUses
  <2>1. \A c \in Codes : ShownUses(discounts', task', c) = ShownUses(discounts, task, c)
    BY DEF ShownUses, Undisturbed
  <2>2. \A p : ShownInvoice(invoices', task', p) = ShownInvoice(invoices, task, p)
    BY DEF Undisturbed
  <2> QED
    BY <2>1, <2>2, ShownIs
<1> QED
  BY <1>7, <1>8, <1>9 DEF LedgerStep, Ledger!vars, Undisturbed

\* A due date that passes and a code that expires show nothing.
LEMMA AroundStep ==
    ASSUME NEW T, LedgerInv(T), NumbersInv',
           \/ \E p \in PaymentIds : DueDatePasses(p)
           \/ \E c \in Codes : CodeExpires(c)
           \/ UNCHANGED vars
    PROVE  LedgerInv(T)' /\ LedgerStep
<1>0. Typed
  BY Types
<1>1. ASSUME NEW p \in PaymentIds, DueDatePasses(p) PROVE Undisturbed
  <2>1. \A q \in PaymentIds : payments'[q] = IF q = p THEN [payments[q] EXCEPT !.due = TRUE] ELSE payments[q]
    BY <1>0, <1>1 DEF DueDatePasses, Typed
  <2>2. \A q \in PaymentIds : payments[q] \in Row
    BY <1>0 DEF Typed
  <2>3. \A q \in PaymentIds : /\ payments'[q].tenant = payments[q].tenant
                              /\ payments'[q].student = payments[q].student
                              /\ payments'[q].number = payments[q].number
                              /\ payments'[q].total = payments[q].total
                              /\ payments'[q].status = payments[q].status
    BY <2>1, <2>2 DEF Row
  <2> QED
    BY <1>1, <2>3 DEF DueDatePasses, Undisturbed
<1>2. ASSUME NEW c \in Codes, CodeExpires(c) PROVE Undisturbed
  <2>1. \A d \in Codes : discounts'[d] = IF d = c THEN [discounts[d] EXCEPT !.open = FALSE] ELSE discounts[d]
    BY <1>0, <1>2 DEF CodeExpires, Typed
  <2>2. \A d \in Codes : discounts[d] \in [offer : Offer, usedCount : Nat, open : BOOLEAN]
    BY <1>0 DEF Typed
  <2>3. \A d \in Codes : discounts'[d].offer = discounts[d].offer
                         /\ discounts'[d].usedCount = discounts[d].usedCount
    BY <2>1, <2>2
  <2> QED
    BY <1>2, <2>3 DEF CodeExpires, Undisturbed
<1>3. UNCHANGED vars => Undisturbed
  BY DEF vars, tables, Undisturbed
<1> QED
  BY <1>1, <1>2, <1>3, UndisturbedStep

-----------------------------------------------------------------------------
(* The nightly job.                                                        *)

\* A step of the nightly job: no request is under way.
LEMMA NightScene ==
    ASSUME NEW T, Orderly(T), LedgerInv(T), Job
    PROVE  /\ \A h \in Handlers : task[h].at = "idle"
           /\ UNCHANGED <<invoices, discounts, income, task, arrived>>
           /\ LedgerBill = [p \in PaymentIds |-> BillAtNight(payments, job, p)]
           /\ LedgerBill' = [p \in PaymentIds |-> BillAtNight(payments', job', p)]
           /\ LedgerInvoice' = LedgerInvoice /\ LedgerUses' = LedgerUses
<1>1. UNCHANGED <<invoices, discounts, income, task, arrived>>
  BY DEF Job, JobFind, JobMark, JobSum, JobDebt, tables
<1>2. \A h \in Handlers : task[h].at = "idle"
  BY DEF Orderly, LedgerInv, NumbersInv, Serial, Exclusive, Quiet, Busy, Job, JobFind, JobMark,
         JobSum, JobDebt
<1>3. /\ \A p \in PaymentIds : Shown(payments, task, job, p) = BillAtNight(payments, job, p)
      /\ \A p \in PaymentIds : Shown(payments', task', job', p) = BillAtNight(payments', job', p)
  BY <1>1, <1>2, ShownAtNight
<1>4. /\ LedgerBill = [p \in PaymentIds |-> BillAtNight(payments, job, p)]
      /\ LedgerBill' = [p \in PaymentIds |-> BillAtNight(payments', job', p)]
  BY <1>3, ShownIs
<1>5. LedgerInvoice' = LedgerInvoice /\ LedgerUses' = LedgerUses
  BY <1>1, ShownIs
<1> QED
  BY <1>1, <1>2, <1>4, <1>5

\* The job changes statuses and debts, and neither rows nor totals.
LEMMA NightKeeps ==
    ASSUME NEW T, Orderly(T), LedgerInv(T), NumbersInv', Job, Rows' = Rows, JobHolds',
           \A q \in PaymentIds : /\ payments'[q].tenant = payments[q].tenant
                                 /\ payments'[q].student = payments[q].student
                                 /\ payments'[q].number = payments[q].number
                                 /\ payments'[q].total = payments[q].total
    PROVE  LedgerInv(T)'
<1>1. /\ \A h \in Handlers : task[h].at = "idle"
      /\ UNCHANGED <<invoices, income, task, arrived>>
  BY NightScene
<1>2. Distinct' /\ (\A q \in Rows : Complete(payments[q], T))'
  BY RowsStand
<1>3. \A h \in Handlers : HandlerHolds(h, T)'
  BY <1>1 DEF HandlerHolds, At, Pays
<1>4. InvoicesStand'
  BY <1>1 DEF LedgerInv, InvoicesStand, Doing, At
<1>5. IncomeInv(T)' /\ RowsRoom'
  BY <1>1 DEF LedgerInv, IncomeInv, RowsRoom, Pays, At
<1> QED
  BY <1>2, <1>3, <1>4, <1>5 DEF LedgerInv

\* The job finds what is due: shows nothing.
LEMMA JobFindStep ==
    ASSUME NEW T, Orderly(T), LedgerInv(T), NumbersInv', JobFind
    PROVE  LedgerInv(T)' /\ LedgerStep
<1> DEFINE due == {p \in PaymentIds : Overdue(p)}
           found == {[p |-> p, tenant |-> payments[p].tenant, student |-> payments[p].student] : p \in due}
<1>0. /\ Job /\ payments' = payments /\ debt' = debt /\ job.at = "idle" /\ job = JobIdle
  BY DEF Job, JobFind, tables, LedgerInv, JobHolds
<1>1. /\ job' = [JobIdle EXCEPT !.at = "mark", !.todo = found]
      /\ job'.at = "mark" /\ job'.todo = found /\ job'.cur = {}
  BY DEF JobFind, JobIdle
<1>2. JobHolds'
  BY <1>0, <1>1 DEF JobHolds, Overdue
<1>3. Rows' = Rows
  BY <1>0 DEF Rows
<1>4. LedgerInv(T)'
  BY <1>0, <1>2, <1>3, NightKeeps
<1>5. \A p \in PaymentIds : BillAtNight(payments', job', p) = BillAtNight(payments, job, p)
  BY <1>0, <1>1 DEF BillAtNight, JobIdle
<1> QED
  BY <1>0, <1>4, <1>5, NightScene DEF LedgerStep, Ledger!vars

\* The job marks a payment overdue: not shown before the debt is written.
LEMMA JobMarkStep ==
    ASSUME NEW T, Orderly(T), LedgerInv(T), NumbersInv', JobMark
    PROVE  LedgerInv(T)' /\ LedgerStep
<1>0. /\ Job /\ debt' = debt /\ job.at = "mark" /\ Typed /\ PresentAtWork
      /\ job \in [at : {"idle", "mark", "sum", "debt"}, todo : SUBSET Target,
                  cur : SUBSET Target, seen : SUBSET (PaymentIds \X Int)]
  BY Types DEF Job, JobMark, LedgerInv, NumbersInv, Serial, TypeOK
<1>1. PICK target \in job.todo :
        /\ payments' = [payments EXCEPT ![target.p].status = "overdue"]
        /\ job' = [job EXCEPT !.at = "sum", !.todo = @ \ {target}, !.cur = {target}]
  BY DEF JobMark
<1>2. /\ target.p \in Rows /\ target.p \in PaymentIds /\ payments[target.p].status = "pending"
      /\ target.tenant = payments[target.p].tenant /\ target.student = payments[target.p].student
  BY <1>0 DEF PresentAtWork, LedgerInv, JobHolds, Rows
<1>3. job'.at = "sum" /\ job'.todo = job.todo \ {target} /\ job'.cur = {target}
  BY <1>0, <1>1
<1>4. /\ Rows' = Rows
      /\ \A q \in PaymentIds : /\ payments'[q].tenant = payments[q].tenant
                               /\ payments'[q].student = payments[q].student
                               /\ payments'[q].number = payments[q].number
                               /\ payments'[q].total = payments[q].total
                               /\ payments'[q].status = IF q = target.p THEN "overdue"
                                                        ELSE payments[q].status
  <2>1. Typed /\ "overdue" \in Statuses /\ payments' = [payments EXCEPT ![target.p].status = "overdue"]
    BY <1>0, <1>1 DEF Statuses
  <2> QED
    BY <1>2, <2>1, StatusChange
<1>5. ASSUME NEW other \in job.todo, other.p = target.p PROVE other = target
  <2>1. other \in Target /\ target \in Target
    BY <1>0
  <2>2. other.tenant = target.tenant /\ other.student = target.student
    BY <1>2, <1>5 DEF LedgerInv, JobHolds
  <2> QED
    BY <1>5, <2>1, <2>2 DEF Target
<1>6. JobHolds'
  <2>1. \A other \in job.todo : /\ other.p \in PaymentIds /\ payments[other.p].status = "pending"
                                /\ other.tenant = payments[other.p].tenant
                                /\ other.student = payments[other.p].student
    BY <1>0 DEF PresentAtWork, LedgerInv, JobHolds, Rows
  <2> QED
    BY <1>2, <1>3, <1>4, <1>5, <2>1 DEF JobHolds
<1>7. LedgerInv(T)'
  BY <1>0, <1>4, <1>6, NightKeeps
<1>8. \A p \in PaymentIds : BillAtNight(payments', job', p) = BillAtNight(payments, job, p)
  BY <1>0, <1>2, <1>3, <1>4 DEF BillAtNight, BillAs
<1> QED
  BY <1>0, <1>7, <1>8, NightScene DEF LedgerStep, Ledger!vars

\* The job reads what a student owes: shows nothing.
LEMMA JobSumStep ==
    ASSUME NEW T, Orderly(T), LedgerInv(T), NumbersInv', JobSum
    PROVE  LedgerInv(T)' /\ LedgerStep
<1>0. /\ Job /\ debt' = debt /\ payments' = payments /\ job.at = "sum"
      /\ job \in [at : {"idle", "mark", "sum", "debt"}, todo : SUBSET Target,
                  cur : SUBSET Target, seen : SUBSET (PaymentIds \X Int)]
  BY DEF Job, JobSum, LedgerInv, NumbersInv, Serial, TypeOK, tables
<1>1. PICK target \in job.cur : job' = [job EXCEPT !.at = "debt", !.seen =
         {<<p, payments[p].total>> : p \in OwedBy(target.student, target.tenant)}]
  BY DEF JobSum
<1>2. /\ job'.at = "debt" /\ job'.todo = job.todo /\ job'.cur = job.cur
      /\ job'.seen = {<<p, payments[p].total>> : p \in OwedBy(target.student, target.tenant)}
  BY <1>0, <1>1
<1>3. Rows' = Rows /\ \A s, t : OwedBy(s, t)' = OwedBy(s, t)
  BY <1>0 DEF Rows, OwedBy, RowsOf
<1>4. JobHolds'
  BY <1>0, <1>2, <1>3 DEF LedgerInv, JobHolds
<1>5. LedgerInv(T)'
  BY <1>0, <1>3, <1>4, NightKeeps
<1>6. \A p \in PaymentIds : BillAtNight(payments', job', p) = BillAtNight(payments, job, p)
  BY <1>0, <1>2 DEF BillAtNight
<1> QED
  BY <1>0, <1>5, <1>6, NightScene DEF LedgerStep, Ledger!vars

\* A sum of totals is at most the largest total times how many there are.
LEMMA SumIsBounded ==
    ASSUME NEW T \in Nat, NEW S, IsFiniteSet(S), NEW w, \A x \in S : w[x] \in 0 .. T
    PROVE  SumOver(w, S) <= Room(T, Cardinality(S))
<1> DEFINE Bad == {s \in SUBSET S : ~(SumOver(w, s) <= Room(T, Cardinality(s)))}
<1>1. ASSUME Bad # {} PROVE FALSE
  <2>1. PICK s \in Bad : \A t \in SUBSET s : t # s => t \notin Bad
    <3> HIDE DEF Bad
    <3>1. Bad \subseteq SUBSET S
      BY DEF Bad
    <3> QED
      BY <1>1, <3>1, LeastSubset
  <2>2. s \subseteq S /\ IsFiniteSet(s) /\ ~(SumOver(w, s) <= Room(T, Cardinality(s)))
    BY <2>1, FS_Subset
  <2>3. s # {}
    <3>1. SumOver(w, {}) = 0 /\ Cardinality({}) = 0
      BY SumOverEmpty, FS_EmptySet
    <3>2. Room(T, 0) = 0
      BY DEF Room
    <3> QED
      BY <2>2, <3>1, <3>2
  <2>4. PICK x : x \in s
    BY <2>3
  <2> DEFINE r == s \ {x}
  <2>5. r \in SUBSET s /\ r # s /\ IsFiniteSet(r) /\ x \notin r /\ s = r \cup {x} /\ r \subseteq S
    BY <2>2, <2>4, FS_Subset
  <2>6. SumOver(w, r) <= Room(T, Cardinality(r))
    BY <2>1, <2>5
  <2> HIDE DEF r, Bad
  <2>7. \A y \in r \cup {x} : w[y] \in Int
    BY <2>2, <2>4, <2>5
  <2>8. SumOver(w, r \cup {x}) = SumOver(w, r) + w[x]
    BY <2>5, <2>7, SumOverAdd
  <2>9. SumOver(w, r) \in Int
    BY <2>5, <2>7, SumOverInt
  <2>10. Cardinality(r) \in Nat /\ Cardinality(r \cup {x}) = Cardinality(r) + 1
    BY <2>5, FS_CardinalityType, FS_AddElement
  <2>11. Room(T, Cardinality(r) + 1) = Room(T, Cardinality(r)) + T /\ Room(T, Cardinality(r)) \in Nat
    BY <2>10, RoomIs
  <2>12. w[x] \in 0 .. T
    BY <2>2, <2>4
  <2>13. SumOver(w, s) <= Room(T, Cardinality(s))
    BY <2>5, <2>6, <2>8, <2>9, <2>10, <2>11, <2>12
  <2> QED
    BY <2>2, <2>13
<1>2. S \notin Bad
  BY <1>1
<1> QED
  BY <1>2

\* The sum that the ledger takes is that of its bills.
LEMMA LedgerSum ==
    ASSUME NEW A, IsFiniteSet(A), NEW w, \A q \in A : w[q] = LedgerBill[q].total
    PROVE  Ledger!MapThenSumSet(LAMBDA q : LedgerBill[q].total, A) = SumOver(w, A)
<1> DEFINE f == [q \in A |-> LedgerBill[q].total]
           Is(sum) == sum = [s \in SUBSET A |->
                        IF s = {} THEN 0
                        ELSE LedgerBill[CHOOSE y \in s : TRUE].total + sum[s \ {CHOOSE y \in s : TRUE}]]
           iter == CHOOSE sum : Is(sum)
<1>1. Ledger!MapThenSumSet(LAMBDA q : LedgerBill[q].total, A) = iter[A]
  BY DEF Ledger!MapThenSumSet, Ledger!MapThenFoldSet
<1>2. ASSUME NEW sum PROVE Is(sum) <=> Sums(f, A, sum)
  <2>1. ASSUME NEW s \in SUBSET A, s # {}
        PROVE  f[Picked(s)] = LedgerBill[CHOOSE y \in s : TRUE].total
    BY <2>1, PickedIn DEF Picked
  <2>2. \A s \in SUBSET A :
          NextSum(f, sum, s) =
            IF s = {} THEN 0
            ELSE LedgerBill[CHOOSE y \in s : TRUE].total + sum[s \ {CHOOSE y \in s : TRUE}]
    BY <2>1 DEF NextSum, Picked
  <2> QED
    BY <2>2 DEF Sums
<1>3. PICK sum : Sums(f, A, sum) /\ SumOver(f, A) = sum[A]
  BY SumOverSums
<1>4. Is(iter)
  <2>1. Is(sum)
    BY <1>2, <1>3
  <2> HIDE DEF Is
  <2> QED
    BY <2>1
<1>5. Sums(f, A, iter)
  BY <1>2, <1>4
<1>6. iter[A] = sum[A]
  <2> HIDE DEF iter, f
  <2>1. A \in SUBSET A /\ A \subseteq A /\ \A x \in A : f[x] = f[x]
    OBVIOUS
  <2>2. \A s \in SUBSET A : iter[s] = sum[s]
    BY <1>3, <1>5, <2>1, SumsAgree
  <2> QED
    BY <2>1, <2>2
<1>7. SumOver(f, A) = SumOver(w, A)
  <2>1. \A q \in A : f[q] = w[q]
    OBVIOUS
  <2> HIDE DEF f
  <2> QED
    BY <2>1, SumOverAgree
<1> QED
  BY <1>1, <1>3, <1>6, <1>7

\* The job writes the debt: Flag.
LEMMA JobDebtStep ==
    ASSUME NEW T, Orderly(T), LedgerInv(T), NumbersInv', JobDebt
    PROVE  LedgerInv(T)' /\ LedgerStep
<1>0. /\ Job /\ payments' = payments /\ job.at = "debt" /\ Typed /\ PresentAtWork
      /\ job \in [at : {"idle", "mark", "sum", "debt"}, todo : SUBSET Target,
                  cur : SUBSET Target, seen : SUBSET (PaymentIds \X Int)]
  BY Types DEF Job, JobDebt, LedgerInv, NumbersInv, Serial, TypeOK
<1>1. PICK target \in job.cur :
         IF SumOf(job.seen) \in Money
         THEN /\ debt' = [debt EXCEPT ![target.student] = SumOf(job.seen)]
              /\ job' = IF job.todo = {} THEN JobIdle
                        ELSE [job EXCEPT !.at = "mark", !.cur = {}, !.seen = {}]
         ELSE job' = JobIdle /\ UNCHANGED debt
  BY DEF JobDebt
<1> DEFINE p == target.p
           s == target.student
           t == target.tenant
           A == OwedBy(s, t)
<1>2. /\ p \in Rows /\ p \in PaymentIds /\ payments[p].status = "overdue"
      /\ t = payments[p].tenant /\ s = payments[p].student /\ job.cur = {target}
      /\ job.seen = {<<q, payments[q].total>> : q \in A}
  BY <1>0, <1>1 DEF PresentAtWork, LedgerInv, JobHolds, Rows
<1>3. /\ IsFiniteSet(A) /\ IsFiniteSet(Rows) /\ A \subseteq Rows /\ A \subseteq PaymentIds
      /\ Cardinality(A) \in Nat /\ Cardinality(Rows) \in Nat /\ Cardinality(A) <= Cardinality(Rows)
  <2>1. IsFiniteSet(Rows) /\ A \subseteq Rows /\ A \subseteq PaymentIds
    BY PaymentsAssumption, FS_Subset DEF Rows, OwedBy, RowsOf
  <2> HIDE DEF A
  <2> QED
    BY <2>1, FS_Subset, FS_CardinalityType
<1>4. \A q \in A : Totals[q] \in 0 .. T /\ Totals[q] = payments[q].total /\ Totals[q] \in Int
  <2>1. \A q \in Rows : payments[q].total \in 0 .. T
    BY DEF LedgerInv, Complete
  <2>2. T \in Nat
    BY DEF Orderly
  <2> QED
    BY <1>3, <2>1, <2>2 DEF Totals
<1>5. SumOf(job.seen) = SumOver(Totals, A)
  <2>1. job.seen = PairsOf(Totals, A)
    BY <1>2, <1>4 DEF PairsOf
  <2> HIDE DEF A
  <2>2. PairSum(PairsOf(Totals, A)) = SumOver(Totals, A)
    BY <1>3, <1>4, PairSumOver
  <2> QED
    BY <2>1, <2>2 DEF SumOf, PairSum
<1>6. SumOf(job.seen) \in Money
  <2>1. /\ T \in Nat /\ arrived \in Nat /\ arrived <= MaxRequests /\ MaxRequests \in Nat
        /\ MaxMoney \in Nat /\ Room(T, MaxRequests) <= MaxMoney /\ Cardinality(Rows) <= arrived
    BY PaymentsAssumption DEF Orderly, LedgerInv, NumbersInv, Serial, TypeOK, IncomeInv, RowsRoom, Room
  <2> DEFINE n == Cardinality(A)
  <2>2. n \in Nat /\ n <= MaxRequests
    BY <1>3, <2>1
  <2> HIDE DEF A, n
  <2>3. SumOver(Totals, A) <= Room(T, n) /\ SumOver(Totals, A) \in Nat
    <3>1. \A q \in A : Totals[q] \in Nat
      BY <1>4, <2>1
    <3> QED
      BY <1>3, <1>4, <2>1, <3>1, SumIsBounded, SumOverNat DEF n
  <2>4. Room(T, n) <= Room(T, MaxRequests) /\ Room(T, n) \in Nat /\ Room(T, MaxRequests) \in Nat
    BY <2>1, <2>2, RoomIs
  <2> QED
    BY <1>5, <2>1, <2>3, <2>4 DEF Money
<1>7. /\ debt' = [debt EXCEPT ![s] = SumOver(Totals, A)]
      /\ job' = IF job.todo = {} THEN JobIdle
                ELSE [job EXCEPT !.at = "mark", !.cur = {}, !.seen = {}]
  BY <1>1, <1>5, <1>6
<1>8. JobHolds' /\ job'.at \in {"idle", "mark"}
  <2>1. CASE job.todo = {}
    BY <1>7, <2>1 DEF JobHolds, JobIdle
  <2>2. CASE job.todo # {}
    <3>1. job'.at = "mark" /\ job'.todo = job.todo /\ job'.cur = {}
      BY <1>0, <1>7, <2>2
    <3> QED
      BY <1>0, <3>1 DEF LedgerInv, JobHolds
  <2> QED
    BY <2>1, <2>2
<1>9. Rows' = Rows
  BY <1>0 DEF Rows
<1>10. LedgerInv(T)'
  BY <1>0, <1>8, <1>9, NightKeeps
<1>11. Ledger!Flag(p)
  <2>1. /\ LedgerBill = [q \in PaymentIds |-> BillAtNight(payments, job, q)]
        /\ LedgerBill' = [q \in PaymentIds |-> BillAtNight(payments', job', q)]
        /\ LedgerInvoice' = LedgerInvoice /\ LedgerUses' = LedgerUses /\ income' = income
    BY <1>0, NightScene
  <2>2. \A q \in PaymentIds : LedgerBill[q] =
          IF payments[q].status = "absent" THEN NoBill
          ELSE BillAs(payments[q], IF q = p THEN "pending" ELSE payments[q].status)
    BY <1>0, <1>2, <2>1 DEF BillAtNight
  <2>3. \A q \in PaymentIds : LedgerBill'[q] =
          IF payments[q].status = "absent" THEN NoBill ELSE BillAs(payments[q], payments[q].status)
    BY <1>0, <1>8, <2>1 DEF BillAtNight
  <2> DEFINE seenAs(q) == IF q = p THEN "pending" ELSE payments[q].status
  <2>4. \A q \in Rows : LedgerBill[q] = BillAs(payments[q], seenAs(q))
                        /\ LedgerBill'[q] = BillAs(payments[q], payments[q].status)
    BY <2>2, <2>3 DEF Rows
  <2>5. \A q \in PaymentIds : q \notin Rows => LedgerBill[q] = NoBill /\ LedgerBill'[q] = NoBill
    BY <2>2, <2>3 DEF Rows
  <2>6. \A q \in Rows : /\ LedgerBill[q].tenant = payments[q].tenant
                        /\ LedgerBill[q].student = payments[q].student
                        /\ LedgerBill[q].total = payments[q].total
                        /\ LedgerBill[q].status = seenAs(q)
    <3> SUFFICES ASSUME NEW q \in Rows
                 PROVE  /\ LedgerBill[q].tenant = payments[q].tenant
                        /\ LedgerBill[q].student = payments[q].student
                        /\ LedgerBill[q].total = payments[q].total
                        /\ LedgerBill[q].status = seenAs(q)
      OBVIOUS
    <3>1. LedgerBill[q] = BillAs(payments[q], seenAs(q))
      BY <2>4
    <3> HIDE DEF seenAs
    <3> QED
      BY <3>1 DEF BillAs
  <2>7. /\ p \in Rows /\ p \in PaymentIds /\ s = payments[p].student /\ t = payments[p].tenant
        /\ payments[p].status = "overdue"
    BY <1>2
  <2> HIDE DEF p, s, t
  <2>8. LedgerBill[p].status = "pending" /\ LedgerBill[p].student = s /\ LedgerBill[p].tenant = t
    BY <2>6, <2>7
  <2>9. LedgerBill' = [LedgerBill EXCEPT ![p].status = "overdue"]
    <3>1. LedgerBill'[p] = [LedgerBill[p] EXCEPT !.status = "overdue"]
      <4>1. LedgerBill[p] = BillAs(payments[p], "pending")
        BY <2>4, <2>7
      <4>2. LedgerBill'[p] = BillAs(payments[p], "overdue")
        BY <2>4, <2>7
      <4> DEFINE row == payments[p]
      <4>3. BillAs(row, "overdue") = [BillAs(row, "pending") EXCEPT !.status = "overdue"]
        <5> HIDE DEF row
        <5> QED
          BY DEF BillAs
      <4> QED
        BY <4>1, <4>2, <4>3
    <3>2. \A q \in PaymentIds : q # p => LedgerBill'[q] = LedgerBill[q]
      BY <2>4, <2>5
    <3> QED
      BY <2>7, <2>1, <3>1, <3>2
  <2>10. Ledger!OwedTo(t, s) = A
    <3>1. ASSUME NEW q \in PaymentIds
          PROVE  (LedgerBill[q].tenant = t /\ LedgerBill[q].student = s
                    /\ LedgerBill[q].status \in {"pending", "overdue"}) <=> q \in A
      <4>1. CASE q \notin Rows
        <5>1. LedgerBill[q].status = "absent"
          BY <2>5, <4>1 DEF NoBill
        <5> QED
          BY <4>1, <5>1 DEF OwedBy, RowsOf
      <4>2. CASE q \in Rows
        <5>1. q \in A <=> payments[q].tenant = t /\ payments[q].student = s
                            /\ payments[q].status \in {"pending", "overdue"}
          BY <4>2 DEF OwedBy, RowsOf, Owed
        <5> QED
          BY <2>6, <2>7, <4>2, <5>1
      <4> QED
        BY <4>1, <4>2
    <3> QED
      BY <1>3, <3>1 DEF Ledger!OwedTo
  <2>11. \A q \in A : Totals[q] = LedgerBill[q].total
    BY <1>3, <1>4, <2>6
  <2> HIDE DEF A
  <2>12. Ledger!MapThenSumSet(LAMBDA q : LedgerBill[q].total, A) = SumOver(Totals, A)
    BY <1>3, <2>11, LedgerSum
  <2>13. debt' = [debt EXCEPT ![s] = Ledger!MapThenSumSet(LAMBDA q : LedgerBill[q].total, A)]
    BY <1>7, <2>12
  <2> QED
    BY <2>1, <2>7, <2>8, <2>9, <2>10, <2>13 DEF Ledger!Flag
<1> QED
  BY <1>2, <1>10, <1>11 DEF LedgerStep, Ledger!Next

-----------------------------------------------------------------------------
(* The refinement.                                                         *)

\* Nothing is charged at the start.
LEMMA InitLedger == ASSUME NEW T, Orderly(T) PROVE Init => LedgerInv(T) /\ Ledger!Init
<1> SUFFICES ASSUME Init PROVE LedgerInv(T) /\ Ledger!Init
  OBVIOUS
<1>1. /\ Rows = {} /\ arrived = 0 /\ job = JobIdle
      /\ \A h \in Handlers : task[h] = Idle
      /\ \A p \in PaymentIds : payments[p] = NoRow /\ invoices[p].status = "absent"
      /\ \A s \in Students : income[s] = 0
      /\ invoices = [p \in PaymentIds |-> [status |-> "absent", number |-> 0]]
  BY DEF Init, Rows, NoRow
<1>2. NumbersInv
  BY InitNumbers
<1>3. \A h \in Handlers : HandlerHolds(h, T)
  BY <1>1 DEF HandlerHolds, At, Pays, Idle
<1>4. InvoicesStand /\ Distinct /\ (\A p \in Rows : Complete(payments[p], T))
  BY <1>1 DEF InvoicesStand, Distinct
<1>5. JobHolds
  BY <1>1 DEF JobHolds, JobIdle
<1>6. IncomeInv(T)
  <2>1. Room(T, 0) = 0 /\ MaxRequests \in Nat
    BY PaymentsAssumption DEF Orderly, Room
  <2> QED
    BY <1>1, <2>1 DEF IncomeInv, Pays, At, Idle
<1>7. RowsRoom
  <2>1. Cardinality(Rows) = 0
    BY <1>1, FS_EmptySet
  <2> QED
    BY <1>1, <2>1 DEF RowsRoom, At, Idle
<1>8. LedgerInv(T)
  BY <1>2, <1>3, <1>4, <1>5, <1>6, <1>7 DEF LedgerInv
<1>9. Ledger!Init
  <2>1. \A h \in Handlers : task[h].at = "idle"
    BY <1>1 DEF Idle
  <2>2. LedgerBill = [p \in PaymentIds |-> NoBill]
    BY <1>1 DEF LedgerBill, NoBill
  <2>3. LedgerInvoice = [p \in PaymentIds |-> "none"]
    <3>1. \A p \in PaymentIds : ShownInvoice(invoices, task, p) = "none"
      BY <1>1, <2>1 DEF ShownInvoice
    <3> QED
      BY <3>1, ShownIs
  <2>4. DOMAIN LedgerUses = Codes /\ \A c \in Codes : LedgerUses[c].count = 0
    <3>1. ASSUME NEW c \in Codes PROVE ShownUses(discounts, task, c).count = 0
      <4>1. {h \in Handlers : task[h].at = "countUse" /\ task[h].code = c} = {}
        BY <2>1
      <4>2. discounts[c].usedCount = 0
        BY DEF Init
      <4> QED
        BY <4>1, <4>2, FS_EmptySet DEF ShownUses
    <3> QED
      BY <3>1, ShownIs
  <2> QED
    BY <2>2, <2>3, <2>4 DEF Ledger!Init, Ledger!NoBill, NoBill, Init
<1> QED
  BY <1>8, <1>9

\* Every step keeps the invariant and is a step of the ledger, or shows nothing.
LEMMA LedgerNext ==
    ASSUME NEW T, Orderly(T) PROVE LedgerInv(T) /\ [Next]_vars => LedgerInv(T)' /\ LedgerStep
<1> SUFFICES ASSUME LedgerInv(T), [Next]_vars PROVE LedgerInv(T)' /\ LedgerStep
  OBVIOUS
<1>1. NumbersInv'
  BY NumbersStep DEF LedgerInv, Orderly
<1>2. ASSUME NEW h \in Handlers, Request(h) PROVE LedgerInv(T)' /\ LedgerStep
  BY <1>1, <1>2, ArrivalStep
<1>3. ASSUME NEW h \in Handlers, Proceed(h) PROVE LedgerInv(T)' /\ LedgerStep
  BY <1>1, <1>3, CreateSaveStep, CreateInvoiceStep, PayMarkStep, PayCreditStep, PayInvoiceStep,
     RefundMarkStep, DiscountLoadStep, DiscountTotalStep, DiscountCountStep, UpdateWriteStep
     DEF Proceed
<1>4. CASE Job
  BY <1>1, <1>4, JobFindStep, JobMarkStep, JobSumStep, JobDebtStep DEF Job
<1>5. ~JobFails /\ \A h \in Handlers : ~HandlerFails(h)
  BY DEF JobFails, HandlerFails, Orderly, LedgerInv, NumbersInv, Serial, TypeOK
<1>6. CASE (\E p \in PaymentIds : DueDatePasses(p)) \/ (\E c \in Codes : CodeExpires(c)) \/ UNCHANGED vars
  BY <1>1, <1>6, AroundStep
<1> QED
  BY <1>2, <1>3, <1>4, <1>5, <1>6 DEF Next

\* Requests one at a time, no failing statement, one tenant, and totals that fit the columns:
\* the statements of every handler and of the nightly job do together exactly one operation
\* of the ledger, or none.
THEOREM ImplementsLedgerHolds == ASSUME NEW T, Orderly(T) PROVE Spec => ImplementsLedger
<1>1. Init => LedgerInv(T) /\ Ledger!Init
  BY InitLedger
<1>2. LedgerInv(T) /\ [Next]_vars => LedgerInv(T)' /\ [Ledger!Next]_(Ledger!vars)
  BY LedgerNext DEF LedgerStep
<1> QED
  BY <1>1, <1>2, PTL DEF Spec, ImplementsLedger, Ledger!Spec
===========================================================================
