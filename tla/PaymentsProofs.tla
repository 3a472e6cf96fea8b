--------------------------- MODULE PaymentsProofs ---------------------------
(* Theorems about Payments, for every value of its constants.              *)
EXTENDS Payments, SumProofs

LEMMA TotalIsInt ==
    ASSUME NEW a \in Nat, NEW d \in Nat, NEW x \in Nat
    PROVE  a - (a * d) \div 100 + (a * x) \div 100 \in Int
<1>1. a * d \in Int /\ a * x \in Int
  OBVIOUS
<1>2. ASSUME NEW n \in Int PROVE n \div 100 \in Int
  OBVIOUS
<1>3. (a * d) \div 100 \in Int /\ (a * x) \div 100 \in Int
  BY <1>1, <1>2
<1> QED
  BY <1>3

LEMMA FloorIsInt == ASSUME NEW x \in Int PROVE FloorAtZero(x) \in Int
  BY DEF FloorAtZero

\* Writing one column of a payment leaves a well-typed row.
LEMMA RowWrite ==
    ASSUME NEW r \in Row
    PROVE  /\ \A st \in Statuses : [r EXCEPT !.status = st] \in Row
           /\ \A n \in Int : [r EXCEPT !.total = n] \in Row
           /\ [r EXCEPT !.due = TRUE] \in Row
           /\ \A s \in Students \cup {r.student}, a \in Nat, due \in BOOLEAN :
                [r EXCEPT !.student = s, !.amount = a, !.due = due] \in Row
  BY DEF Row

\* The number a payment is given is a natural number.
LEMMA NumberIsNat ==
    ASSUME NEW t PROVE Cardinality(RowsOf(t)) + 1 \in Nat
<1>1. RowsOf(t) \subseteq PaymentIds
  BY DEF RowsOf, Rows
<1>2. IsFiniteSet(RowsOf(t))
  BY <1>1, PaymentsAssumption, FS_Subset
<1> QED
  BY <1>2, FS_CardinalityType

\* Replacing one row of a table leaves the table well typed.
LEMMA TableWrite ==
    ASSUME NEW I, NEW T, NEW f \in [I -> T], NEW i \in I, NEW r \in T
    PROVE  [f EXCEPT ![i] = r] \in [I -> T]
  OBVIOUS

LEMMA RowTypes == NoRow \in Row /\ Idle \in Task
<1>1. NoRow \in Row
  BY DEF NoRow, Row
<1> QED
  BY <1>1, PaymentsAssumption DEF Idle, Steps, Task, WithPayment, WithCode

\* What a step of handler h does to its task.
LEMMA TaskStep ==
    ASSUME TypeOK, NEW h \in Handlers
    PROVE  /\ task[h] \in Task
           /\ Finish(h) => task' \in [Handlers -> Task]
           /\ \A step \in Steps :
                /\ step \in WithPayment <=> task[h].at \in WithPayment
                /\ step \in WithCode <=> task[h].at \in WithCode
                /\ Goto(h, step)
                => task' \in [Handlers -> Task]
<1>1. task \in [Handlers -> Task] /\ task[h] \in Task
  BY DEF TypeOK
<1>2. ASSUME Finish(h) PROVE task' \in [Handlers -> Task]
  BY <1>1, <1>2, RowTypes DEF Finish
<1>3. ASSUME NEW step \in Steps, Goto(h, step),
             step \in WithPayment <=> task[h].at \in WithPayment,
             step \in WithCode <=> task[h].at \in WithCode
      PROVE  task' \in [Handlers -> Task]
  <2>1. [task[h] EXCEPT !.at = step] \in Task
    BY <1>1, <1>3 DEF Task
  <2> QED
    BY <1>1, <1>3, <2>1 DEF Goto
<1> QED
  BY <1>1, <1>2, <1>3

LEMMA InitType == Init => TypeOK
<1> SUFFICES ASSUME Init PROVE TypeOK
  OBVIOUS
<1> USE PaymentsAssumption DEF Init
<1>1. discounts \in [Codes -> [offer : Offer, usedCount : Nat, open : BOOLEAN]]
  OBVIOUS
<1>2. 0 \in Money
  BY DEF Money
<1>3. job \in [at : {"idle", "mark", "sum", "debt"}, todo : SUBSET Target,
               cur : SUBSET Target, seen : SUBSET (PaymentIds \X Int)]
  BY DEF JobIdle
<1> QED
  BY RowTypes, <1>1, <1>2, <1>3 DEF TypeOK

LEMMA RequestType ==
    ASSUME TypeOK, NEW h \in Handlers, Request(h) PROVE TypeOK'
<1> USE DEF TypeOK, tables, history
<1>0. /\ arrived + 1 \in Nat
      /\ \A p \in PaymentIds : payments[p] \in Row
  OBVIOUS
<1>1. ASSUME NEW at \in Steps, NEW p \in PaymentIds \cup {None}, NEW code \in Codes \cup {None},
             NEW row \in Row,
             at \in WithPayment <=> p \in PaymentIds, at \in WithCode <=> code \in Codes,
             task' = [task EXCEPT ![h] = [at |-> at, p |-> p, code |-> code, row |-> row]]
      PROVE  task' \in [Handlers -> Task]
  BY <1>1 DEF Task
<1> USE PaymentsAssumption DEF Steps, WithPayment, WithCode
<1>2. CASE CreateCount(h)
  <2>1. PICK t \in Tenants, s \in Students, a \in Amounts, d \in Percents, x \in Percents,
             due \in BOOLEAN :
          task' = [task EXCEPT ![h] =
                     [at |-> "save", p |-> None, code |-> None,
                      row |-> NewRow(t, s, NextNumber(t), a, d, x, due)]]
    BY <1>2 DEF CreateCount
  <2> DEFINE row == NewRow(t, s, NextNumber(t), a, d, x, due)
  <2>2. row \in Row
    <3> DEFINE total == a - (a * d) \div 100 + (a * x) \div 100
    <3>1. total \in Int
      BY TotalIsInt
    <3>2. NextNumber(t) \in Nat
      BY NumberIsNat DEF NextNumber
    <3>3. row = [tenant |-> t, student |-> s, number |-> NextNumber(t), amount |-> a,
                 total |-> total, status |-> "pending", due |-> due]
      BY DEF NewRow
    <3> HIDE DEF total
    <3> QED
      BY <3>1, <3>2, <3>3 DEF Row, Statuses
  <2> HIDE DEF row
  <2>3. task' \in [Handlers -> Task]
    <3>1. task' = [task EXCEPT ![h] =
                     [at |-> "save", p |-> None, code |-> None, row |-> row]]
      BY <2>1 DEF row
    <3> QED
      BY <1>1, <2>2, <3>1
  <2> QED
    BY <1>0, <1>2, <2>3 DEF CreateCount, Arrives
<1>3. CASE PayFind(h)
  <2>1. task' \in [Handlers -> Task]
    BY <1>0, <1>1, <1>3 DEF PayFind, Rows
  <2> QED
    BY <1>0, <1>3, <2>1 DEF PayFind, Arrives
<1>4. CASE RefundFind(h)
  <2>1. task' \in [Handlers -> Task]
    BY <1>0, <1>1, <1>4 DEF RefundFind, Rows
  <2> QED
    BY <1>0, <1>4, <2>1 DEF RefundFind, Arrives
<1>5. CASE DiscountFind(h)
  <2>1. task' \in [Handlers -> Task]
    <3>1. PICK c \in Codes :
            task' = [task EXCEPT ![h] =
                       [at |-> "loadPayment", p |-> None, code |-> c, row |-> NoRow]]
      BY <1>5 DEF DiscountFind
    <3>2. [at |-> "loadPayment", p |-> None, code |-> c, row |-> NoRow] \in Task
      <4>1. None \notin PaymentIds
        OBVIOUS
      <4> QED
        BY <4>1, RowTypes DEF Task
    <3> QED
      BY <3>1, <3>2
  <2> QED
    BY <1>0, <1>5, <2>1 DEF DiscountFind, Arrives
<1>6. CASE UpdateFind(h)
  <2>1. task' \in [Handlers -> Task]
    BY <1>0, <1>1, <1>6, RowTypes DEF UpdateFind, Rows
  <2> QED
    BY <1>0, <1>6, <2>1 DEF UpdateFind, Arrives
<1> QED
  BY <1>2, <1>3, <1>4, <1>5, <1>6 DEF Request

\* The reduction of a total is an integer.
LEMMA ReductionIsInt ==
    ASSUME NEW offer \in Offer, NEW row \in Row PROVE Reduction(offer, row) \in Int
<1>1. row.amount \in Nat /\ offer.value \in Nat
  BY DEF Row, Offer
<1>2. row.amount * offer.value \in Int
  BY <1>1
<1>3. ASSUME NEW n \in Int PROVE n \div 100 \in Int
  OBVIOUS
<1>4. (row.amount * offer.value) \div 100 \in Int
  BY <1>2, <1>3
<1> QED
  BY <1>1, <1>4 DEF Reduction

LEMMA ProceedType ==
    ASSUME TypeOK, NEW h \in Handlers, Proceed(h) PROVE TypeOK'
<1> USE DEF TypeOK
<1>a. task[h] \in Task
  OBVIOUS
<1>b. /\ task[h].row \in Row
      /\ task[h].at \in WithPayment => task[h].p \in PaymentIds
      /\ task[h].at \in WithCode => task[h].code \in Codes
  BY <1>a DEF Task
<1>1. CASE CreateSave(h)
  <2>1. PICK p \in PaymentIds \ Rows :
          /\ payments' = [payments EXCEPT ![p] = task[h].row]
          /\ task' = [task EXCEPT ![h].at = "invoice", ![h].p = p]
    BY <1>1 DEF CreateSave
  <2>2. payments' \in [PaymentIds -> Row]
    BY <1>b, <2>1, TableWrite
  <2>3. [task[h] EXCEPT !.at = "invoice", !.p = p] \in Task
    BY <1>1, <1>a DEF CreateSave, At, Task, Steps, WithPayment, WithCode
  <2>4. task' \in [Handlers -> Task]
    BY <2>1, <2>3
  <2> QED
    BY <1>1, <2>2, <2>4 DEF CreateSave, history
<1>2. CASE CreateInvoice(h)
  <2>1. invoices' \in [PaymentIds -> [status : {"absent", "sent", "paid"}, number : Nat]]
    <3>1. [status |-> "sent", number |-> task[h].row.number]
             \in [status : {"absent", "sent", "paid"}, number : Nat]
      BY <1>b DEF Row
    <3>2. task[h].p \in PaymentIds
      BY <1>2, <1>b DEF CreateInvoice, At, WithPayment
    <3> QED
      BY <1>2, <3>1, <3>2 DEF CreateInvoice
  <2> QED
    BY <1>2, <2>1, TaskStep DEF CreateInvoice, history
<1>3. CASE PayMark(h)
  <2>1. task' \in [Handlers -> Task]
    BY <1>3, TaskStep DEF PayMark, At, Steps, WithPayment, WithCode
  <2>2. payments' \in [PaymentIds -> Row]
    <3>1. task[h].p \in PaymentIds
      BY <1>3, <1>b DEF PayMark, At, WithPayment
    <3>2. [payments[task[h].p] EXCEPT !.status = "paid"] \in Row
      BY <3>1, RowWrite DEF Statuses
    <3> QED
      BY <1>3, <3>1, <3>2 DEF PayMark
  <2> QED
    BY <1>3, <2>1, <2>2 DEF PayMark, history
<1>4. CASE PayCredit(h)
  <2> DEFINE row     == task[h].row
             newDebt == FloorAtZero(debt[row.student] - row.total)
             newPaid == income[row.student] + row.total
  <2>p. task[h].p \in PaymentIds
    BY <1>4, <1>b DEF PayCredit, At, WithPayment
  <2>1. CASE HasIncomeColumn /\ newDebt \in Money /\ newPaid \in Money
    <3>1. task' \in [Handlers -> Task]
      BY <1>4, <2>1, TaskStep DEF PayCredit, At, Steps, WithPayment, WithCode
    <3>2. /\ debt' = [debt EXCEPT ![row.student] = newDebt]
          /\ income' = [income EXCEPT ![row.student] = newPaid]
          /\ credits' = [credits EXCEPT ![task[h].p] = @ + 1]
      BY <1>4, <2>1 DEF PayCredit
    <3>3. debt' \in [Students -> Money] /\ income' \in [Students -> Money]
      <4> HIDE DEF newDebt, newPaid, row
      <4> QED
        BY <2>1, <3>2
    <3>4. credits' \in [PaymentIds -> Nat]
      <4>1. credits[task[h].p] + 1 \in Nat
        BY <2>p
      <4> QED
        BY <2>p, <3>2, <4>1
    <3> QED
      BY <1>4, <3>1, <3>3, <3>4 DEF PayCredit
  <2>2. CASE ~(HasIncomeColumn /\ newDebt \in Money /\ newPaid \in Money)
    BY <1>4, <2>2, TaskStep DEF PayCredit
  <2> QED
    BY <2>1, <2>2
<1>5. CASE PayInvoice(h)
  <2>1. invoices' \in [PaymentIds -> [status : {"absent", "sent", "paid"}, number : Nat]]
    <3>1. task[h].p \in PaymentIds
      BY <1>5, <1>b DEF PayInvoice, At, WithPayment
    <3>2. \A st \in {"absent", "sent", "paid"} : [invoices[task[h].p] EXCEPT !.status = st]
             \in [status : {"absent", "sent", "paid"}, number : Nat]
      BY <3>1
    <3>3. invoices[task[h].p].status \in {"absent", "sent", "paid"}
      BY <3>1
    <3> QED
      BY <1>5, <3>1, <3>2, <3>3 DEF PayInvoice
  <2> QED
    BY <1>5, <2>1, TaskStep DEF PayInvoice, history
<1>6. CASE RefundMark(h)
  <2>1. task[h].p \in PaymentIds
    BY <1>6, <1>b DEF RefundMark, At, WithPayment
  <2>2. payments' \in [PaymentIds -> Row]
    <3>1. [payments[task[h].p] EXCEPT !.status = "refunded"] \in Row
      BY <2>1, RowWrite DEF Statuses
    <3> QED
      BY <1>6, <2>1, <3>1 DEF RefundMark
  <2>3. refunds' \in [PaymentIds -> Nat]
    <3>1. refunds[task[h].p] + 1 \in Nat
      BY <2>1
    <3> QED
      BY <1>6, <2>1, <3>1 DEF RefundMark
  <2> QED
    BY <1>6, <2>2, <2>3, TaskStep DEF RefundMark
<1>7. CASE DiscountLoad(h)
  <2>1. task' \in [Handlers -> Task]
    <3>1. ASSUME NEW p \in RowsOf(discounts[task[h].code].offer.tenant),
                 task' = [task EXCEPT ![h].at = "setTotal", ![h].p = p, ![h].row = payments[p]]
          PROVE  task' \in [Handlers -> Task]
      <4>1. p \in PaymentIds
        BY DEF RowsOf, Rows
      <4>2. payments[p] \in Row
        BY <4>1
      <4>3. [task[h] EXCEPT !.at = "setTotal", !.p = p, !.row = payments[p]] \in Task
        BY <1>7, <1>a, <4>1, <4>2 DEF DiscountLoad, At, Task, Steps, WithPayment, WithCode
      <4> QED
        BY <3>1, <4>3
    <3> QED
      BY <1>7, <3>1, TaskStep DEF DiscountLoad
  <2> QED
    BY <1>7, <2>1 DEF DiscountLoad, tables, history
<1>8. CASE DiscountTotal(h)
  <2>1. task[h].p \in PaymentIds /\ task[h].code \in Codes
    BY <1>8, <1>b DEF DiscountTotal, At, WithPayment, WithCode
  <2>2. task' \in [Handlers -> Task]
    BY <1>8, TaskStep DEF DiscountTotal, At, Steps, WithPayment, WithCode
  <2> DEFINE total == FloorAtZero(task[h].row.total
                        - Reduction(discounts[task[h].code].offer, task[h].row))
  <2>3. total \in Int
    <3>1. discounts[task[h].code].offer \in Offer
      BY <2>1
    <3>2. Reduction(discounts[task[h].code].offer, task[h].row) \in Int
      BY <1>b, <3>1, ReductionIsInt
    <3>3. task[h].row.total \in Int
      BY <1>b DEF Row
    <3> QED
      BY <3>2, <3>3, FloorIsInt
  <2>4. payments' \in [PaymentIds -> Row]
    <3>1. payments' = [payments EXCEPT ![task[h].p].total = total]
      BY <1>8 DEF DiscountTotal
    <3> HIDE DEF total
    <3>2. [payments[task[h].p] EXCEPT !.total = total] \in Row
      BY <2>1, <2>3, RowWrite
    <3> QED
      BY <2>1, <3>1, <3>2
  <2> QED
    BY <1>8, <2>2, <2>4 DEF DiscountTotal, history
<1>9. CASE DiscountCount(h)
  <2>1. task[h].code \in Codes
    BY <1>9, <1>b DEF DiscountCount, At, WithCode
  <2>2. discounts' \in [Codes -> [offer : Offer, usedCount : Nat, open : BOOLEAN]]
    <3>1. discounts[task[h].code].usedCount + 1 \in Nat
      BY <2>1
    <3>2. [discounts[task[h].code] EXCEPT !.usedCount = discounts[task[h].code].usedCount + 1]
             \in [offer : Offer, usedCount : Nat, open : BOOLEAN]
      BY <2>1, <3>1
    <3> QED
      BY <1>9, <2>1, <3>2 DEF DiscountCount
  <2> QED
    BY <1>9, <2>2, TaskStep DEF DiscountCount, history
<1>10. CASE UpdateWrite(h)
  <2>1. task[h].p \in PaymentIds
    BY <1>10, <1>b DEF UpdateWrite, At, WithPayment
  <2>2. PICK s \in Students \cup {payments[task[h].p].student},
             a \in Amounts \cup {payments[task[h].p].amount}, due \in BOOLEAN :
          payments' = [payments EXCEPT ![task[h].p].student = s,
                         ![task[h].p].amount = a, ![task[h].p].due = due]
    BY <1>10 DEF UpdateWrite
  <2>3. a \in Nat
    BY <2>1, PaymentsAssumption DEF Row
  <2>4. [payments[task[h].p] EXCEPT !.student = s, !.amount = a, !.due = due] \in Row
    BY <2>1, <2>3, RowWrite
  <2>5. payments' \in [PaymentIds -> Row]
    BY <2>1, <2>2, <2>4
  <2> QED
    BY <1>10, <2>5, TaskStep DEF UpdateWrite, history
<1> QED
  BY <1>1, <1>2, <1>3, <1>4, <1>5, <1>6, <1>7, <1>8, <1>9, <1>10 DEF Proceed

LEMMA JobType == ASSUME TypeOK, Job PROVE TypeOK'
<1> USE DEF TypeOK
<1> DEFINE JobT == [at : {"idle", "mark", "sum", "debt"}, todo : SUBSET Target,
                    cur : SUBSET Target, seen : SUBSET (PaymentIds \X Int)]
<1>0. JobIdle \in JobT /\ job \in JobT
  BY DEF JobIdle
<1>1. CASE JobFind
  <2> DEFINE due == {p \in PaymentIds : Overdue(p)}
             todo == {[p |-> p, tenant |-> payments[p].tenant,
                       student |-> payments[p].student] : p \in due}
  <2>1. todo \in SUBSET Target
    BY DEF Overdue, Rows, Row, Target
  <2>2. job' = [JobIdle EXCEPT !.at = "mark", !.todo = todo]
    BY <1>1 DEF JobFind
  <2> HIDE DEF todo
  <2>3. job' \in JobT
    BY <1>0, <2>1, <2>2
  <2> QED
    BY <1>1, <2>3 DEF JobFind, tables, history
<1>2. CASE JobMark
  <2>1. PICK target \in job.todo :
          /\ payments' = [payments EXCEPT ![target.p].status = "overdue"]
          /\ job' = [job EXCEPT !.at = "sum", !.todo = @ \ {target}, !.cur = {target}]
    BY <1>2 DEF JobMark
  <2>2. target \in Target /\ target.p \in PaymentIds
    BY <1>0 DEF Target
  <2>3. [payments[target.p] EXCEPT !.status = "overdue"] \in Row
    BY <2>2, RowWrite DEF Statuses
  <2>4. payments' \in [PaymentIds -> Row]
    BY <2>1, <2>2, <2>3
  <2>5. job' \in JobT
    BY <1>0, <2>1, <2>2
  <2> QED
    BY <1>2, <2>4, <2>5 DEF JobMark, history
<1>3. CASE JobSum
  <2>1. PICK target \in job.cur :
          job' = [job EXCEPT !.at = "debt", !.seen =
            {<<p, payments[p].total>> : p \in OwedBy(target.student, target.tenant)}]
    BY <1>3 DEF JobSum
  <2> DEFINE seen == {<<p, payments[p].total>> : p \in OwedBy(target.student, target.tenant)}
  <2>2. seen \in SUBSET (PaymentIds \X Int)
    BY DEF OwedBy, RowsOf, Rows, Row
  <2>3. job' = [job EXCEPT !.at = "debt", !.seen = seen]
    BY <2>1
  <2> HIDE DEF seen
  <2>4. job' \in JobT
    BY <1>0, <2>2, <2>3
  <2> QED
    BY <1>3, <2>4 DEF JobSum, tables, history
<1>4. CASE JobDebt
  <2>1. PICK target \in job.cur :
         IF SumOf(job.seen) \in Money
         THEN /\ debt' = [debt EXCEPT ![target.student] = SumOf(job.seen)]
              /\ notices' = [notices EXCEPT ![target.p] = @ + 1]
              /\ job' = IF job.todo = {} THEN JobIdle
                        ELSE [job EXCEPT !.at = "mark", !.cur = {}, !.seen = {}]
         ELSE job' = JobIdle /\ UNCHANGED <<debt, notices>>
    BY <1>4 DEF JobDebt
  <2>2. target.p \in PaymentIds
    BY <1>0 DEF Target
  <2>3. notices[target.p] + 1 \in Nat
    BY <2>2
  <2>4. notices' \in [PaymentIds -> Nat]
    BY <2>1, <2>2, <2>3
  <2>5. debt' \in [Students -> Money]
    BY <2>1
  <2>6. job' \in JobT
    BY <1>0, <2>1
  <2> QED
    BY <1>4, <2>4, <2>5, <2>6 DEF JobDebt
<1> QED
  BY <1>1, <1>2, <1>3, <1>4 DEF Job

LEMMA SurroundingsType ==
    ASSUME TypeOK,
           \/ \E h \in Handlers : HandlerFails(h)
           \/ JobFails
           \/ \E p \in PaymentIds : DueDatePasses(p)
           \/ \E c \in Codes : CodeExpires(c)
    PROVE  TypeOK'
<1> USE DEF TypeOK
<1>0. failures + 1 \in Nat
  OBVIOUS
<1>1. ASSUME NEW h \in Handlers, HandlerFails(h) PROVE TypeOK'
  BY <1>0, <1>1, TaskStep DEF HandlerFails, tables, history
<1>2. CASE JobFails
  BY <1>0, <1>2 DEF JobFails, JobIdle, tables, history
<1>3. ASSUME NEW p \in PaymentIds, DueDatePasses(p) PROVE TypeOK'
  <2>1. payments[p] \in Row
    OBVIOUS
  <2>2. [payments[p] EXCEPT !.due = TRUE] \in Row
    BY <2>1, RowWrite
  <2>3. payments' \in [PaymentIds -> Row]
    BY <1>3, <2>2 DEF DueDatePasses
  <2> QED
    BY <1>3, <2>3 DEF DueDatePasses, history
<1>4. ASSUME NEW c \in Codes, CodeExpires(c) PROVE TypeOK'
  <2> DEFINE CodeRow == [offer : Offer, usedCount : Nat, open : BOOLEAN]
  <2>0. ASSUME NEW d \in CodeRow PROVE [d EXCEPT !.open = FALSE] \in CodeRow
    OBVIOUS
  <2>1. [discounts[c] EXCEPT !.open = FALSE] \in CodeRow
    BY <2>0
  <2> QED
    BY <1>4, <2>1 DEF CodeExpires, history
<1> QED
  BY <1>1, <1>2, <1>3, <1>4

LEMMA NextType == TypeOK /\ [Next]_vars => TypeOK'
<1> SUFFICES ASSUME TypeOK, [Next]_vars PROVE TypeOK'
  OBVIOUS
<1>1. CASE UNCHANGED vars
  BY <1>1 DEF TypeOK, vars, tables, history
<1>2. CASE Next
  BY <1>2, RequestType, ProceedType, JobType, SurroundingsType DEF Next
<1> QED
  BY <1>1, <1>2

\* Every state the payments module reaches is well typed: columns keep their
\* range, a handler past its look-up holds a payment, the job holds targets.
THEOREM TypeCorrect == Spec => []TypeOK
  BY InitType, NextType, PTL DEF Spec

-----------------------------------------------------------------------------
(* The status of a payment never leads back to where nothing was booked.   *)

Fresh(p) == payments[p].status \in {"absent", "pending"}

\* The tables a status or a balance depends on keep their value.
LEMMA Unmoved ==
    ASSUME NEW h \in Handlers, Request(h) \/ DiscountLoad(h) \/ HandlerFails(h)
    PROVE  UNCHANGED <<tables, job, history>>
  BY DEF Request, CreateCount, PayFind, RefundFind, DiscountFind, UpdateFind, DiscountLoad,
         HandlerFails, tables, history

LEMMA StaysUsed ==
    ASSUME TypeOK, TypeOK', [Next]_vars
    PROVE  \A p \in PaymentIds : Fresh(p)' => Fresh(p)
<1> SUFFICES ASSUME NEW p \in PaymentIds, ~Fresh(p) PROVE ~Fresh(p)'
  OBVIOUS
<1> USE DEF Fresh
<1>0. /\ payments \in [PaymentIds -> Row] /\ payments' \in [PaymentIds -> Row]
      /\ payments[p] \in Row
  BY DEF TypeOK
<1>1. CASE payments' = payments
  BY <1>1
<1>2. ASSUME NEW q, NEW st, st \notin {"absent", "pending"},
             payments' = [payments EXCEPT ![q].status = st]
      PROVE  ~Fresh(p)'
  BY <1>0, <1>2 DEF Row
<1>3. ASSUME NEW h \in Handlers, Proceed(h) PROVE ~Fresh(p)'
  <2>1. CASE CreateSave(h)
    BY <1>0, <2>1 DEF CreateSave, Rows
  <2>2. CASE PayMark(h)
    <3>1. payments' = [payments EXCEPT ![task[h].p].status = "paid"]
      BY <2>2 DEF PayMark
    <3> QED
      BY <1>2, <3>1
  <2>3. CASE RefundMark(h)
    <3>1. payments' = [payments EXCEPT ![task[h].p].status = "refunded"]
      BY <2>3 DEF RefundMark
    <3> QED
      BY <1>2, <3>1
  <2>4. CASE DiscountTotal(h)
    <3>1. PICK n : payments' = [payments EXCEPT ![task[h].p].total = n]
      BY <2>4 DEF DiscountTotal
    <3> QED
      BY <1>0, <3>1 DEF Row
  <2>5. CASE UpdateWrite(h)
    <3>1. PICK s \in Students \cup {payments[task[h].p].student},
               a \in Amounts \cup {payments[task[h].p].amount}, due \in BOOLEAN :
            payments' = [payments EXCEPT ![task[h].p].student = s,
                           ![task[h].p].amount = a, ![task[h].p].due = due]
      BY <2>5 DEF UpdateWrite
    <3> DEFINE q == task[h].p
    <3>2. CASE p = q
      <4>1. payments'[p] = [payments[p] EXCEPT !.student = s, !.amount = a, !.due = due]
        BY <1>0, <3>1, <3>2
      <4> QED
        BY <1>0, <4>1 DEF Row
    <3>3. CASE p # q
      BY <1>0, <3>1, <3>3
    <3> QED
      BY <3>2, <3>3
  <2>6. CASE \/ CreateInvoice(h) \/ PayCredit(h) \/ PayInvoice(h) \/ DiscountLoad(h)
             \/ DiscountCount(h)
    BY <1>1, <2>6 DEF CreateInvoice, PayCredit, PayInvoice, DiscountLoad, DiscountCount, tables
  <2> QED
    BY <1>3, <2>1, <2>2, <2>3, <2>4, <2>5, <2>6 DEF Proceed
<1>4. ASSUME NEW h \in Handlers, Request(h) \/ HandlerFails(h) PROVE ~Fresh(p)'
  BY <1>1, <1>4, Unmoved DEF tables
<1>5. CASE Job
  <2>1. CASE JobMark
    <3>1. PICK q : payments' = [payments EXCEPT ![q].status = "overdue"]
      BY <2>1 DEF JobMark
    <3> QED
      BY <1>2, <3>1
  <2> QED
    BY <1>1, <1>5, <2>1 DEF Job, JobFind, JobSum, JobDebt, tables
<1>6. CASE JobFails
  BY <1>1, <1>6 DEF JobFails, tables
<1>7. CASE \E q \in PaymentIds : DueDatePasses(q)
  <2>1. PICK q \in PaymentIds : payments' = [payments EXCEPT ![q].due = TRUE]
    BY <1>7 DEF DueDatePasses
  <2> QED
    BY <1>0, <2>1 DEF Row
<1>8. CASE (\E c \in Codes : CodeExpires(c)) \/ UNCHANGED vars
  BY <1>1, <1>8 DEF CodeExpires, vars, tables
<1> QED
  BY <1>3, <1>4, <1>5, <1>6, <1>7, <1>8 DEF Next

-----------------------------------------------------------------------------
(* The inductive invariant behind the three safety theorems below.         *)

FreshIsUntouched ==
    \A p \in PaymentIds : Fresh(p) =>
        /\ credits[p] = 0 /\ refunds[p] = 0 /\ notices[p] = 0
        /\ invoices[p].status # "paid"

\* pay() marks the payment first and credits the student before the invoice.
PayInOrder ==
    \A h \in Handlers :
        /\ At(h, "credit") \/ At(h, "settleInvoice") => ~Fresh(task[h].p)
        /\ At(h, "settleInvoice") => credits[task[h].p] >= 1

Targets == job.todo \cup job.cur

\* The job has one target per payment, and has reported none of those it holds.
JobReportsOnce ==
    /\ job.at \in {"sum", "debt"} => \A target \in job.cur : ~Fresh(target.p)
    /\ \A target \in Targets : notices[target.p] = 0
    /\ \A target, other \in Targets : target.p = other.p => target = other
    /\ job.todo \cap job.cur = {}

Booked ==
    /\ TypeOK
    /\ FreshIsUntouched
    /\ PayInOrder
    /\ InvoiceFollowsLedger
    /\ JobReportsOnce
    /\ OverdueNoticeOnce

LEMMA InitBooked == Init => Booked
<1> SUFFICES ASSUME Init PROVE Booked
  OBVIOUS
<1>1. TypeOK
  BY InitType
<1>2. FreshIsUntouched /\ InvoiceFollowsLedger /\ OverdueNoticeOnce
  BY DEF Init, FreshIsUntouched, InvoiceFollowsLedger, OverdueNoticeOnce
<1>3. PayInOrder
  BY DEF Init, Idle, At, PayInOrder
<1>4. JobReportsOnce
  BY DEF Init, JobIdle, JobReportsOnce, Targets
<1> QED
  BY <1>1, <1>2, <1>3, <1>4 DEF Booked

\* Only pay() moves a handler to the statements that book money, in its order.
LEMMA IntoCredit ==
    ASSUME TypeOK, [Next]_vars, NEW g \in Handlers
    PROVE  /\ At(g, "credit")' =>
                task'[g].p = task[g].p /\ (At(g, "credit") \/ PayMark(g))
           /\ At(g, "settleInvoice")' =>
                /\ task'[g].p = task[g].p
                /\ \/ At(g, "settleInvoice")
                   \/ At(g, "credit") /\ credits' = [credits EXCEPT ![task[g].p] = @ + 1]
<1> DEFINE Into == 
              /\ At(g, "credit")' =>
                   task'[g].p = task[g].p /\ (At(g, "credit") \/ PayMark(g))
              /\ At(g, "settleInvoice")' =>
                   /\ task'[g].p = task[g].p
                   /\ \/ At(g, "settleInvoice")
                      \/ At(g, "credit") /\ credits' = [credits EXCEPT ![task[g].p] = @ + 1]
<1>0. task \in [Handlers -> Task] /\ task[g] \in Task
  BY DEF TypeOK
<1>1. CASE task'[g] = task[g]
  BY <1>1 DEF At
<1>2. CASE task'[g].at \notin {"credit", "settleInvoice"}
  BY <1>2 DEF At
<1>3. ASSUME NEW h \in Handlers, Request(h) PROVE Into
  BY <1>0, <1>1, <1>2, <1>3
     DEF Request, CreateCount, PayFind, RefundFind, DiscountFind, UpdateFind
<1>4. ASSUME NEW h \in Handlers, Proceed(h) PROVE Into
  <2>1. CASE h # g
    <3>1. task'[g] = task[g]
      BY <1>0, <1>4, <2>1 DEF Proceed, CreateSave, CreateInvoice, PayMark, PayCredit, PayInvoice,
         RefundMark, DiscountLoad, DiscountTotal, DiscountCount, UpdateWrite, Goto, Finish
    <3> QED
      BY <1>1, <3>1
  <2>2. CASE h = g
    <3>0. CASE Finish(g)
      <4>1. task'[g].at = "idle"
        BY <1>0, <3>0 DEF Finish, Idle
      <4> QED
        BY <1>2, <4>1
    <3>1. CASE CreateSave(g)
      <4>1. PICK p \in PaymentIds \ Rows : task' = [task EXCEPT ![g].at = "invoice", ![g].p = p]
        BY <3>1 DEF CreateSave
      <4>2. task'[g] = [task[g] EXCEPT !.at = "invoice", !.p = p]
        BY <1>0, <4>1
      <4>3. task'[g].at = "invoice"
        BY <1>0, <4>2 DEF Task
      <4> QED
        BY <1>2, <4>3
    <3>2. CASE DiscountLoad(g)
      <4>1. ASSUME NEW p, task' = [task EXCEPT ![g].at = "setTotal", ![g].p = p,
                                                ![g].row = payments[p]]
            PROVE  Into
        <5>1. task'[g] = [task[g] EXCEPT !.at = "setTotal", !.p = p, !.row = payments[p]]
          BY <1>0, <4>1
        <5>2. task'[g].at = "setTotal"
          BY <1>0, <5>1 DEF Task
        <5> QED
          BY <1>2, <5>2
      <4> QED
        BY <3>0, <3>2, <4>1 DEF DiscountLoad
    <3>5. CASE DiscountTotal(g)
      <4>1. task'[g] = [task[g] EXCEPT !.at = "countUse"]
        BY <1>0, <3>5 DEF DiscountTotal, Goto
      <4>2. task'[g].at = "countUse"
        BY <1>0, <4>1 DEF Task
      <4> QED
        BY <1>2, <4>2
    <3>3. CASE PayMark(g)
      <4>1. task'[g] = [task[g] EXCEPT !.at = "credit"]
        BY <1>0, <3>3 DEF PayMark, Goto
      <4>2. task'[g].at = "credit" /\ task'[g].p = task[g].p
        BY <1>0, <4>1 DEF Task
      <4> QED
        BY <3>3, <4>2 DEF At
    <3>4. CASE PayCredit(g)
      <4>2. CASE /\ Goto(g, "settleInvoice") /\ At(g, "credit")
                 /\ credits' = [credits EXCEPT ![task[g].p] = @ + 1]
        <5>1. task'[g] = [task[g] EXCEPT !.at = "settleInvoice"]
          BY <1>0, <4>2 DEF Goto
        <5>2. task'[g].at = "settleInvoice" /\ task'[g].p = task[g].p
          BY <1>0, <5>1 DEF Task
        <5> QED
          BY <4>2, <5>2 DEF At
      <4> QED
        BY <3>0, <3>4, <4>2 DEF PayCredit
    <3> QED
      BY <1>4, <2>2, <3>0, <3>1, <3>2, <3>3, <3>4, <3>5
         DEF Proceed, CreateInvoice, PayInvoice, RefundMark, DiscountCount, UpdateWrite
  <2> QED
    BY <2>1, <2>2
<1>5. ASSUME NEW h \in Handlers, HandlerFails(h) PROVE Into
  BY <1>0, <1>1, <1>2, <1>5 DEF HandlerFails, Finish, Idle
<1>6. CASE Job \/ JobFails
  BY <1>1, <1>6 DEF Job, JobFails, JobFind, JobMark, JobSum, JobDebt
<1>7. CASE (\E p \in PaymentIds : DueDatePasses(p)) \/ (\E c \in Codes : CodeExpires(c))
  BY <1>1, <1>7 DEF DueDatePasses, CodeExpires
<1>8. CASE UNCHANGED vars
  BY <1>1, <1>8 DEF vars
<1> QED
  BY <1>3, <1>4, <1>5, <1>6, <1>7, <1>8 DEF Next

\* Which steps change what the invariant compares: each by one, for one payment.
LEMMA BookKeeping ==
    ASSUME TypeOK, [Next]_vars
    PROVE  /\ \/ credits' = credits
              \/ \E h \in Handlers : /\ At(h, "credit")
                                     /\ credits' = [credits EXCEPT ![task[h].p] = @ + 1]
           /\ \/ refunds' = refunds
              \/ \E h \in Handlers : RefundMark(h)
           /\ \/ notices' = notices
              \/ JobDebt
           /\ \/ invoices' = invoices
              \/ \E h \in Handlers : PayInvoice(h) \/ CreateInvoice(h)
<1>1. ASSUME NEW h \in Handlers, Request(h) \/ DiscountLoad(h) \/ HandlerFails(h)
      PROVE  UNCHANGED <<credits, refunds, notices, invoices>>
  BY <1>1, Unmoved DEF tables, history
<1>2. ASSUME NEW h \in Handlers, Proceed(h)
      PROVE  /\ credits' = credits
                \/ (At(h, "credit") /\ credits' = [credits EXCEPT ![task[h].p] = @ + 1])
             /\ refunds' = refunds \/ RefundMark(h)
             /\ notices' = notices
             /\ invoices' = invoices \/ PayInvoice(h) \/ CreateInvoice(h)
  <2>1. CASE PayCredit(h)
    BY <2>1 DEF PayCredit
  <2>2. CASE DiscountLoad(h)
    BY <1>1, <2>2
  <2> QED
    BY <1>2, <2>1, <2>2 DEF Proceed, CreateSave, CreateInvoice, PayMark, PayInvoice, RefundMark,
       DiscountTotal, DiscountCount, UpdateWrite, history
<1>3. CASE Job
  BY <1>3 DEF Job, JobFind, JobMark, JobSum, JobDebt, tables, history
<1>4. CASE JobFails \/ (\E p \in PaymentIds : DueDatePasses(p))
           \/ (\E c \in Codes : CodeExpires(c)) \/ UNCHANGED vars
  BY <1>4 DEF JobFails, DueDatePasses, CodeExpires, vars, tables, history
<1>5. CASE \E h \in Handlers : Request(h) \/ HandlerFails(h)
  BY <1>1, <1>5
<1>6. CASE \E h \in Handlers : Proceed(h)
  BY <1>2, <1>6
<1> QED
  BY <1>3, <1>4, <1>5, <1>6 DEF Next

LEMMA JobMoves == [Next]_vars => job' = job \/ Job \/ job' = JobIdle
<1> SUFFICES ASSUME [Next]_vars PROVE job' = job \/ Job \/ job' = JobIdle
  OBVIOUS
<1>1. ASSUME NEW h \in Handlers, Request(h) \/ DiscountLoad(h) \/ HandlerFails(h)
      PROVE  job' = job
  BY <1>1, Unmoved
<1>2. ASSUME NEW h \in Handlers, Proceed(h) PROVE job' = job
  BY <1>1, <1>2 DEF Proceed, CreateSave, CreateInvoice, PayMark, PayCredit, PayInvoice,
     RefundMark, DiscountTotal, DiscountCount, UpdateWrite
<1> QED
  BY <1>1, <1>2 DEF Next, JobFails, DueDatePasses, CodeExpires, vars

LEMMA FreshStep ==
    ASSUME Booked, TypeOK', [Next]_vars PROVE FreshIsUntouched'
<1> SUFFICES ASSUME NEW p \in PaymentIds, Fresh(p)'
             PROVE  /\ credits'[p] = 0 /\ refunds'[p] = 0 /\ notices'[p] = 0
                    /\ invoices'[p].status # "paid"
  BY DEF FreshIsUntouched
<1>0. /\ TypeOK /\ PayInOrder
      /\ Fresh(p) /\ credits[p] = 0 /\ refunds[p] = 0 /\ notices[p] = 0
      /\ invoices[p].status # "paid"
  BY StaysUsed DEF Booked, FreshIsUntouched
<1>1. credits'[p] = 0
  <2>1. ASSUME NEW h \in Handlers, At(h, "credit"),
               credits' = [credits EXCEPT ![task[h].p] = @ + 1]
        PROVE  credits'[p] = 0
    <3>1. task[h].p # p
      BY <1>0, <2>1 DEF PayInOrder
    <3> QED
      BY <1>0, <2>1, <3>1 DEF TypeOK
  <2> QED
    BY <1>0, <2>1, BookKeeping
<1>2. refunds'[p] = 0
  <2>1. ASSUME NEW h \in Handlers, RefundMark(h) PROVE refunds'[p] = 0
    <3>1. CASE task[h].p = p
      <4>1. payments'[p].status = "refunded"
        BY <1>0, <2>1, <3>1 DEF RefundMark, TypeOK, Row
      <4> QED
        BY <4>1 DEF Fresh
    <3>2. CASE task[h].p # p
      BY <1>0, <2>1, <3>2 DEF RefundMark, TypeOK
    <3> QED
      BY <3>1, <3>2
  <2> QED
    BY <1>0, <2>1, BookKeeping
<1>3. notices'[p] = 0
  <2>1. CASE JobDebt
    <3>1. PICK target \in job.cur :
            notices' = notices \/ notices' = [notices EXCEPT ![target.p] = @ + 1]
      BY <2>1 DEF JobDebt
    <3>2. target.p # p
      BY <1>0, <2>1, <3>1 DEF JobDebt, Booked, JobReportsOnce
    <3> QED
      BY <1>0, <3>1, <3>2 DEF TypeOK
  <2> QED
    BY <1>0, <2>1, BookKeeping
<1>4. invoices'[p].status # "paid"
  <2>1. ASSUME NEW h \in Handlers, PayInvoice(h) PROVE invoices'[p].status # "paid"
    <3>1. task[h].p # p
      BY <1>0, <2>1 DEF PayInvoice, PayInOrder
    <3> QED
      BY <1>0, <2>1, <3>1 DEF PayInvoice, TypeOK
  <2>2. ASSUME NEW h \in Handlers, CreateInvoice(h) PROVE invoices'[p].status # "paid"
    BY <1>0, <2>2 DEF CreateInvoice, TypeOK
  <2> QED
    BY <1>0, <2>1, <2>2, BookKeeping
<1> QED
  BY <1>1, <1>2, <1>3, <1>4

LEMMA CreditsGrow ==
    ASSUME TypeOK, [Next]_vars PROVE \A p \in PaymentIds : credits'[p] >= credits[p]
<1> SUFFICES ASSUME NEW p \in PaymentIds PROVE credits'[p] >= credits[p]
  OBVIOUS
<1>1. credits \in [PaymentIds -> Nat]
  BY DEF TypeOK
<1>2. ASSUME NEW q, credits' = [credits EXCEPT ![q] = @ + 1] PROVE credits'[p] >= credits[p]
  BY <1>1, <1>2
<1>3. CASE credits' = credits
  BY <1>1, <1>3
<1> QED
  BY <1>2, <1>3, BookKeeping

LEMMA PayStep ==
    ASSUME Booked, TypeOK', [Next]_vars PROVE PayInOrder' /\ InvoiceFollowsLedger'
<1>0. TypeOK /\ PayInOrder /\ InvoiceFollowsLedger
  BY DEF Booked
<1>1. ASSUME NEW h \in Handlers, At(h, "credit")' \/ At(h, "settleInvoice")'
      PROVE  ~Fresh(task[h].p)'
  <2>1. task'[h].p = task[h].p /\ task'[h].p \in PaymentIds
    <3>1. task'[h] \in Task /\ task'[h].at \in WithPayment
      BY <1>1 DEF TypeOK, At, WithPayment
    <3> QED
      BY <1>0, <1>1, <3>1, IntoCredit DEF Task
  <2>2. CASE At(h, "credit") \/ At(h, "settleInvoice")
    BY <1>0, <2>1, <2>2, StaysUsed DEF PayInOrder
  <2>3. CASE PayMark(h)
    <3>1. payments' = [payments EXCEPT ![task[h].p].status = "paid"]
      BY <2>3 DEF PayMark
    <3>2. payments'[task[h].p].status = "paid"
      BY <1>0, <2>1, <3>1 DEF TypeOK, Row
    <3> QED
      BY <2>1, <3>2 DEF Fresh
  <2> QED
    BY <1>0, <1>1, <2>2, <2>3, IntoCredit
<1>2. ASSUME NEW h \in Handlers, At(h, "settleInvoice")' PROVE credits'[task'[h].p] >= 1
  <2>1. task'[h].p = task[h].p /\ task'[h].p \in PaymentIds
    <3>1. task'[h] \in Task /\ task'[h].at \in WithPayment
      BY <1>2 DEF TypeOK, At, WithPayment
    <3> QED
      BY <1>0, <1>2, <3>1, IntoCredit DEF Task
  <2>2. credits[task[h].p] \in Nat /\ credits'[task[h].p] \in Nat
    BY <1>0, <2>1 DEF TypeOK
  <2>3. CASE At(h, "settleInvoice")
    BY <1>0, <2>1, <2>2, <2>3, CreditsGrow DEF PayInOrder
  <2>4. CASE credits' = [credits EXCEPT ![task[h].p] = @ + 1]
    BY <1>0, <2>1, <2>2, <2>4 DEF TypeOK
  <2> QED
    BY <1>0, <1>2, <2>3, <2>4, IntoCredit
<1>3. ASSUME NEW p \in PaymentIds, invoices'[p].status = "paid" PROVE credits'[p] >= 1
  <2>0. credits[p] \in Nat /\ credits'[p] \in Nat
    BY <1>0 DEF TypeOK
  <2>1. CASE invoices[p].status = "paid"
    BY <1>0, <2>0, <2>1, CreditsGrow DEF InvoiceFollowsLedger
  <2>2. ASSUME NEW h \in Handlers, CreateInvoice(h) PROVE invoices[p].status = "paid"
    BY <1>0, <1>3, <2>2 DEF CreateInvoice, TypeOK
  <2>3. ASSUME NEW h \in Handlers, PayInvoice(h), invoices[p].status # "paid"
        PROVE  At(h, "settleInvoice") /\ task[h].p = p
    BY <1>0, <1>3, <2>3 DEF PayInvoice, TypeOK
  <2> QED
    BY <1>0, <1>3, <2>0, <2>1, <2>2, <2>3, CreditsGrow, BookKeeping DEF PayInOrder
<1>4. PayInOrder'
  BY <1>1, <1>2 DEF PayInOrder, At
<1> QED
  BY <1>3, <1>4 DEF InvoiceFollowsLedger

LEMMA JobStep ==
    ASSUME Booked, TypeOK', [Next]_vars PROVE JobReportsOnce' /\ OverdueNoticeOnce'
<1>0. TypeOK /\ FreshIsUntouched /\ JobReportsOnce /\ OverdueNoticeOnce
  BY DEF Booked
<1>t. /\ \A target \in Targets : target.p \in PaymentIds
      /\ job.todo \subseteq Targets /\ job.cur \subseteq Targets
      /\ job \in [at : {"idle", "mark", "sum", "debt"}, todo : SUBSET Target,
                  cur : SUBSET Target, seen : SUBSET (PaymentIds \X Int)]
  BY <1>0 DEF TypeOK, Target, Targets
<1>1. CASE job' = job /\ notices' = notices
  BY <1>0, <1>1, <1>t, StaysUsed DEF JobReportsOnce, OverdueNoticeOnce, Targets
<1>2. CASE job' = JobIdle /\ notices' = notices
  BY <1>0, <1>2 DEF JobIdle, JobReportsOnce, OverdueNoticeOnce, Targets
<1>3. CASE JobFind
  <2> DEFINE due == {p \in PaymentIds : Overdue(p)}
             target(p) == [p |-> p, tenant |-> payments[p].tenant,
                           student |-> payments[p].student]
             todo == {target(p) : p \in due}
  <2>1. job' = [JobIdle EXCEPT !.at = "mark", !.todo = todo]
    BY <1>3 DEF JobFind
  <2>2. \A t \in todo : t.p \in PaymentIds /\ payments[t.p].status = "pending"
    BY DEF Overdue, Rows
  <2>3. \A t, u \in todo : t.p = u.p => t = u
    OBVIOUS
  <2>4. notices' = notices
    BY <1>3 DEF JobFind, history
  <2> HIDE DEF todo
  <2>5. job'.at = "mark" /\ job'.todo = todo /\ job'.cur = {}
    BY <2>1 DEF JobIdle
  <2>6. \A t \in todo : notices[t.p] = 0
    BY <1>0, <2>2 DEF FreshIsUntouched, Fresh
  <2> QED
    BY <1>0, <2>3, <2>4, <2>5, <2>6 DEF JobReportsOnce, OverdueNoticeOnce, Targets
<1>4. CASE JobMark
  <2>1. PICK target \in job.todo :
          /\ payments' = [payments EXCEPT ![target.p].status = "overdue"]
          /\ job' = [job EXCEPT !.at = "sum", !.todo = @ \ {target}, !.cur = {target}]
    BY <1>4 DEF JobMark
  <2>2. job'.at = "sum" /\ job'.todo = job.todo \ {target} /\ job'.cur = {target}
    BY <1>t, <2>1
  <2>3. notices' = notices
    BY <1>4 DEF JobMark, history
  <2>4. ~Fresh(target.p)'
    BY <1>0, <1>t, <2>1 DEF Fresh, TypeOK, Row
  <2> QED
    BY <1>0, <1>t, <2>2, <2>3, <2>4 DEF JobReportsOnce, OverdueNoticeOnce, Targets
<1>5. CASE JobSum
  <2>1. job'.at = "debt" /\ job'.todo = job.todo /\ job'.cur = job.cur /\ job.at = "sum"
    BY <1>t, <1>5 DEF JobSum
  <2>2. notices' = notices
    BY <1>5 DEF JobSum, history
  <2> QED
    BY <1>0, <1>t, <2>1, <2>2, StaysUsed DEF JobReportsOnce, OverdueNoticeOnce, Targets
<1>6. CASE JobDebt
  <2>1. PICK target \in job.cur :
         IF SumOf(job.seen) \in Money
         THEN /\ debt' = [debt EXCEPT ![target.student] = SumOf(job.seen)]
              /\ notices' = [notices EXCEPT ![target.p] = @ + 1]
              /\ job' = IF job.todo = {} THEN JobIdle
                        ELSE [job EXCEPT !.at = "mark", !.cur = {}, !.seen = {}]
         ELSE job' = JobIdle /\ UNCHANGED <<debt, notices>>
    BY <1>6 DEF JobDebt
  <2>2. CASE SumOf(job.seen) \notin Money
    BY <1>2, <2>1, <2>2
  <2>3. CASE SumOf(job.seen) \in Money
    <3>1. /\ target.p \in PaymentIds /\ notices[target.p] = 0
          /\ \A t \in job.todo : t.p # target.p
      BY <1>0, <1>t DEF JobReportsOnce
    <3>2. \A p \in PaymentIds : notices'[p] = IF p = target.p THEN 1 ELSE notices[p]
      BY <1>0, <2>1, <2>3, <3>1 DEF TypeOK
    <3>3. /\ job'.at \in {"idle", "mark"} /\ job'.cur = {}
          /\ job'.todo \subseteq job.todo
      <4>1. CASE job.todo = {}
        BY <2>1, <2>3, <4>1 DEF JobIdle
      <4>2. CASE job.todo # {}
        BY <1>t, <2>1, <2>3, <4>2
      <4> QED
        BY <4>1, <4>2
    <3>4. OverdueNoticeOnce'
      BY <1>0, <3>2 DEF OverdueNoticeOnce
    <3>5. \A t \in job'.todo \cup job'.cur : notices'[t.p] = 0
      BY <1>0, <1>t, <3>1, <3>2, <3>3 DEF JobReportsOnce
    <3>6. JobReportsOnce'
      BY <1>0, <1>t, <3>3, <3>5 DEF JobReportsOnce, Targets
    <3> QED
      BY <3>4, <3>6
  <2> QED
    BY <2>2, <2>3
<1>7. JobDebt \/ notices' = notices
  BY <1>0, BookKeeping
<1> QED
  BY <1>1, <1>2, <1>3, <1>4, <1>5, <1>6, <1>7, JobMoves DEF Job

LEMMA BookedStep == Booked /\ [Next]_vars => Booked'
<1> SUFFICES ASSUME Booked, [Next]_vars PROVE Booked'
  OBVIOUS
<1>1. TypeOK'
  BY NextType DEF Booked
<1> QED
  BY <1>1, FreshStep, PayStep, JobStep DEF Booked

LEMMA AlwaysBooked == Spec => []Booked
  BY InitBooked, BookedStep, PTL DEF Spec

\* However requests, failures and nights interleave, an invoice is shown as paid
\* only after the student was credited.
THEOREM InvoiceFollowsLedgerHolds == Spec => []InvoiceFollowsLedger
<1>1. Booked => InvoiceFollowsLedger
  BY DEF Booked
<1> QED
  BY <1>1, AlwaysBooked, PTL

\* Nothing was credited, refunded, reported or settled while a payment is pending.
THEOREM PendingIsUntouchedHolds == Spec => []PendingIsUntouched
<1>1. Booked => PendingIsUntouched
  BY DEF Booked, FreshIsUntouched, Fresh, PendingIsUntouched
<1> QED
  BY <1>1, AlwaysBooked, PTL

\* The nightly job reports a payment overdue at most once in its life.
THEOREM OverdueNoticeOnceHolds == Spec => []OverdueNoticeOnce
<1>1. Booked => OverdueNoticeOnce
  BY DEF Booked
<1> QED
  BY <1>1, AlwaysBooked, PTL

-----------------------------------------------------------------------------
(* How far a discount code can be used beyond its limit, whatever the      *)
(* number of requests that apply it at the same time.                      *)

\* A handler that has passed the check of a code holds one use of it already.
UsesReserved ==
    \A c \in Codes : discounts[c].offer.maxUses # None =>
        discounts[c].usedCount + Cardinality(InFlight(c))
            <= discounts[c].offer.maxUses + Cardinality(Handlers) - 1

LEMMA InFlightFinite ==
    ASSUME NEW c
    PROVE  /\ IsFiniteSet(InFlight(c))
           /\ Cardinality(InFlight(c)) \in Nat
           /\ Cardinality(Handlers) \in Nat /\ Cardinality(Handlers) >= 1
           /\ Cardinality(InFlight(c)) <= Cardinality(Handlers)
<1>1. InFlight(c) \subseteq Handlers /\ IsFiniteSet(Handlers)
  BY PaymentsAssumption DEF InFlight
<1>2. Cardinality(Handlers) # 0
  BY PaymentsAssumption, FS_EmptySet
<1> QED
  BY <1>1, <1>2, FS_Subset, FS_CardinalityType

LEMMA InitUses == Init => UsesReserved
<1> SUFFICES ASSUME Init, NEW c \in Codes, discounts[c].offer.maxUses # None
             PROVE  discounts[c].usedCount + Cardinality(InFlight(c))
                      <= discounts[c].offer.maxUses + Cardinality(Handlers) - 1
  BY DEF UsesReserved
<1>1. InFlight(c) = {}
  BY PaymentsAssumption DEF Init, Idle, InFlight
<1>2. Cardinality(InFlight(c)) = 0
  BY <1>1, FS_EmptySet
<1>3. discounts[c].usedCount = 0 /\ discounts[c].offer.maxUses \in Nat
  <2>1. discounts[c].offer \in Offer /\ discounts[c].usedCount = 0
    BY PaymentsAssumption DEF Init
  <2> QED
    BY <2>1 DEF Offer
<1> QED
  BY <1>2, <1>3, InFlightFinite

\* A step lets a handler hold a code only through DiscountFind.
LEMMA IntoFlight ==
    ASSUME TypeOK, [Next]_vars, NEW g \in Handlers, NEW c \in Codes, task'[g].code = c
    PROVE  \/ task[g].code = c
           \/ UsesLeft(c) /\ discounts' = discounts
<1>0. task \in [Handlers -> Task] /\ None # c
  BY PaymentsAssumption DEF TypeOK
<1> DEFINE Into == task'[g].code = c => task[g].code = c \/ (UsesLeft(c) /\ discounts' = discounts)
<1>1. CASE task'[g] = task[g] \/ task'[g].code = None \/ task'[g].code = task[g].code
  BY <1>0, <1>1
<1>2. ASSUME NEW h \in Handlers, Request(h) PROVE Into
  <2>1. CASE DiscountFind(h)
    <3>1. PICK d \in Codes :
            /\ UsesLeft(d)
            /\ task' = [task EXCEPT ![h] =
                          [at |-> "loadPayment", p |-> None, code |-> d, row |-> NoRow]]
      BY <2>1 DEF DiscountFind
    <3> QED
      BY <1>0, <2>1, <3>1 DEF DiscountFind, tables
  <2>2. CASE CreateCount(h) \/ PayFind(h) \/ RefundFind(h) \/ UpdateFind(h)
    BY <1>0, <2>2 DEF CreateCount, PayFind, RefundFind, UpdateFind
  <2> QED
    BY <1>2, <2>1, <2>2 DEF Request
<1>3. ASSUME NEW h \in Handlers, Finish(h) PROVE Into
  BY <1>0, <1>3 DEF Finish, Idle
<1>4. ASSUME NEW h \in Handlers, NEW step, Goto(h, step) PROVE Into
  <2>1. CASE h = g
    <3>1. task'[g] = [task[g] EXCEPT !.at = step]
      BY <1>0, <1>4, <2>1 DEF Goto
    <3>2. task[g] \in Task
      BY <1>0
    <3> QED
      BY <3>1, <3>2 DEF Task
  <2>2. CASE h # g
    BY <1>0, <1>4, <2>2 DEF Goto
  <2> QED
    BY <2>1, <2>2
<1>5. ASSUME NEW h \in Handlers, CreateSave(h) PROVE Into
  <2>1. PICK p \in PaymentIds \ Rows : task' = [task EXCEPT ![h].at = "invoice", ![h].p = p]
    BY <1>5 DEF CreateSave
  <2>2. CASE h = g
    <3>1. task'[g] = [task[g] EXCEPT !.at = "invoice", !.p = p] /\ task[g] \in Task
      BY <1>0, <2>1, <2>2
    <3> QED
      BY <3>1 DEF Task
  <2>3. CASE h # g
    BY <1>0, <2>1, <2>3
  <2> QED
    BY <2>2, <2>3
<1>6. ASSUME NEW h \in Handlers, DiscountLoad(h) PROVE Into
  <2>1. ASSUME NEW p, task' = [task EXCEPT ![h].at = "setTotal", ![h].p = p,
                                            ![h].row = payments[p]]
        PROVE  Into
    <3>1. CASE h = g
      <4>1. /\ task'[g] = [task[g] EXCEPT !.at = "setTotal", !.p = p, !.row = payments[p]]
            /\ task[g] \in Task
        BY <1>0, <2>1, <3>1
      <4> QED
        BY <4>1 DEF Task
    <3>2. CASE h # g
      BY <1>0, <2>1, <3>2
    <3> QED
      BY <3>1, <3>2
  <2> QED
    BY <1>3, <1>6, <2>1 DEF DiscountLoad
<1>7. ASSUME NEW h \in Handlers, Proceed(h) \/ HandlerFails(h) PROVE Into
  BY <1>3, <1>4, <1>5, <1>6, <1>7 DEF Proceed, HandlerFails, CreateInvoice, PayMark, PayCredit,
     PayInvoice, RefundMark, DiscountTotal, DiscountCount, UpdateWrite
<1>8. CASE task' = task
  BY <1>1, <1>8
<1> QED
  BY <1>2, <1>7, <1>8 DEF Next, Job, JobFails, JobFind, JobMark, JobSum, JobDebt,
     DueDatePasses, CodeExpires, vars

\* Only DiscountCount moves a counter, and no step changes what a code grants.
LEMMA CountMoves ==
    ASSUME TypeOK, [Next]_vars, NEW c \in Codes
    PROVE  /\ discounts'[c].offer = discounts[c].offer
           /\ \/ discounts'[c].usedCount = discounts[c].usedCount
              \/ \E h \in Handlers :
                   /\ task[h].code = c /\ task' = [task EXCEPT ![h] = Idle]
                   /\ discounts'[c].usedCount = discounts[c].usedCount + 1
<1> DEFINE CodeRow == [offer : Offer, usedCount : Nat, open : BOOLEAN]
<1>0. discounts \in [Codes -> CodeRow]
  BY DEF TypeOK
<1>1. CASE discounts' = discounts
  BY <1>1
<1>2. ASSUME NEW h \in Handlers, DiscountCount(h)
      PROVE  /\ discounts'[c].offer = discounts[c].offer
             /\ \/ discounts'[c].usedCount = discounts[c].usedCount
                \/ /\ task[h].code = c /\ task' = [task EXCEPT ![h] = Idle]
                   /\ discounts'[c].usedCount = discounts[c].usedCount + 1
  BY <1>0, <1>2 DEF DiscountCount, Finish
<1>3. ASSUME NEW d \in Codes, CodeExpires(d)
      PROVE  /\ discounts'[c].offer = discounts[c].offer
             /\ discounts'[c].usedCount = discounts[c].usedCount
  BY <1>0, <1>3 DEF CodeExpires
<1>4. ASSUME NEW h \in Handlers, Request(h) \/ HandlerFails(h) PROVE discounts' = discounts
  BY <1>4, Unmoved DEF tables
<1>5. ASSUME NEW h \in Handlers, Proceed(h) PROVE discounts' = discounts \/ DiscountCount(h)
  BY <1>5, Unmoved DEF tables, Proceed, CreateSave, CreateInvoice, PayMark, PayCredit, PayInvoice,
     RefundMark, DiscountTotal, UpdateWrite
<1>6. CASE Job \/ JobFails \/ (\E p \in PaymentIds : DueDatePasses(p)) \/ UNCHANGED vars
  BY <1>1, <1>6 DEF Job, JobFind, JobMark, JobSum, JobDebt, JobFails, DueDatePasses, tables, vars
<1> QED
  BY <1>1, <1>2, <1>3, <1>4, <1>5, <1>6 DEF Next

LEMMA UsesStep == TypeOK /\ TypeOK' /\ UsesReserved /\ [Next]_vars => UsesReserved'
<1> SUFFICES ASSUME TypeOK, TypeOK', UsesReserved, [Next]_vars,
                    NEW c \in Codes, discounts'[c].offer.maxUses # None
             PROVE  discounts'[c].usedCount + Cardinality(InFlight(c)')
                      <= discounts'[c].offer.maxUses + Cardinality(Handlers) - 1
  BY DEF UsesReserved
<1> DEFINE m == discounts[c].offer.maxUses
           u == discounts[c].usedCount
           H == Cardinality(Handlers)
<1>0. /\ m \in Nat /\ discounts'[c].offer.maxUses = m /\ u \in Nat
      /\ u + Cardinality(InFlight(c)) <= m + H - 1
  <2>1. discounts[c] \in [offer : Offer, usedCount : Nat, open : BOOLEAN]
    BY DEF TypeOK
  <2>2. discounts'[c].offer = discounts[c].offer
    BY CountMoves
  <2> QED
    BY <2>1, <2>2 DEF UsesReserved, Offer
<1>f. /\ Cardinality(InFlight(c)) \in Nat /\ H \in Nat /\ H >= 1
      /\ IsFiniteSet(InFlight(c))
      /\ Cardinality(InFlight(c)') \in Nat /\ Cardinality(InFlight(c)') <= H
  <2>1. InFlight(c)' \subseteq Handlers /\ IsFiniteSet(Handlers)
    BY PaymentsAssumption DEF InFlight
  <2>2. /\ IsFiniteSet(InFlight(c)')
        /\ Cardinality(InFlight(c)') <= Cardinality(Handlers)
    BY <2>1, FS_Subset
  <2>3. Cardinality(InFlight(c)') \in Nat
    BY <2>2, FS_CardinalityType
  <2> QED
    BY <2>2, <2>3, InFlightFinite
<1>1. CASE UsesLeft(c) /\ discounts' = discounts
  <2>1. u <= m - 1 /\ discounts'[c].usedCount = u
    BY <1>0, <1>1 DEF UsesLeft
  <2> HIDE DEF m, u, H
  <2> QED
    BY <1>0, <1>f, <2>1 DEF H
<1>2. CASE ~(UsesLeft(c) /\ discounts' = discounts)
  <2>1. InFlight(c)' \subseteq InFlight(c)
    BY <1>2, IntoFlight DEF InFlight
  <2>2. Cardinality(InFlight(c)') <= Cardinality(InFlight(c))
    BY <1>f, <2>1, FS_Subset
  <2>3. CASE discounts'[c].usedCount = u
    <3> HIDE DEF m, u, H
    <3> QED
      BY <1>0, <1>f, <2>2, <2>3 DEF H
  <2>4. ASSUME NEW h \in Handlers, task[h].code = c, task' = [task EXCEPT ![h] = Idle],
               discounts'[c].usedCount = u + 1
        PROVE  discounts'[c].usedCount + Cardinality(InFlight(c)') <= m + H - 1
    <3>1. h \in InFlight(c) /\ InFlight(c)' \subseteq InFlight(c) \ {h}
      BY <2>1, <2>4, PaymentsAssumption DEF InFlight, TypeOK, Idle
    <3>2. /\ IsFiniteSet(InFlight(c) \ {h})
          /\ Cardinality(InFlight(c) \ {h}) = Cardinality(InFlight(c)) - 1
      BY <1>f, <3>1, FS_RemoveElement
    <3>3. Cardinality(InFlight(c)') <= Cardinality(InFlight(c)) - 1
      BY <3>1, <3>2, FS_Subset
    <3> HIDE DEF m, u, H
    <3> QED
      BY <1>0, <1>f, <2>4, <3>3
  <2> QED
    BY <1>0, <2>3, <2>4, CountMoves
<1> QED
  BY <1>1, <1>2

\* A discount code is used at most maxUses times plus one less than the number of
\* handlers: the overshoot of applyDiscount is bounded by what runs beside it.
THEOREM UsageOvershootHolds == Spec => []UsageOvershootBounded
<1>1. TypeOK /\ UsesReserved => UsageOvershootBounded
  <2> SUFFICES ASSUME TypeOK, UsesReserved, NEW c \in Codes, discounts[c].offer.maxUses # None
               PROVE  discounts[c].usedCount
                        <= discounts[c].offer.maxUses + Cardinality(Handlers) - 1
    BY DEF UsageOvershootBounded
  <2>1. discounts[c] \in [offer : Offer, usedCount : Nat, open : BOOLEAN]
    BY DEF TypeOK
  <2> QED
    BY <2>1, InFlightFinite DEF UsesReserved, Offer
<1> QED
  BY <1>1, TypeCorrect, InitUses, UsesStep, PTL DEF Spec
-----------------------------------------------------------------------------
(* What holds of requests that do not overlap.  A payment is never         *)
(* credited twice and the payments of a tenant are numbered without a gap, *)
(* whatever statement fails: it is the overlap of requests, and nothing    *)
(* else, that breaks them.  Where no statement fails either, no debt is    *)
(* shown that is not owed and no payment is paid that was not booked.      *)

\* One handler, or the job, but never two of them.
Exclusive ==
    /\ \A g, h \in Handlers : Busy(g) /\ Busy(h) => g = h
    /\ \A h \in Handlers : Busy(h) => job.at = "idle"

\* A payment that is not paid has as many credits as refunds, at most.
Covered(p) == credits[p] <= refunds[p]

CreditsCovered ==
    \A p \in PaymentIds :
        /\ credits[p] <= 1 + refunds[p]
        /\ payments[p].status # "paid" => Covered(p)

HandlersCovered ==
    \A h \in Handlers :
        /\ At(h, "markPaid") \/ At(h, "credit") => Covered(task[h].p)
        /\ At(h, "credit") => payments[task[h].p].status = "paid"

JobCovered == \A target \in job.todo : Covered(target.p)

Serial ==
    /\ TypeOK
    /\ Exclusive
    /\ job.at = "idle" => job.todo = {}
    /\ CreditsCovered
    /\ HandlersCovered
    /\ JobCovered

LEMMA InitSerial == Init => Serial
<1> SUFFICES ASSUME Init PROVE Serial
  OBVIOUS
<1>1. TypeOK
  BY InitType
<1>2. Exclusive /\ (job.at = "idle" => job.todo = {}) /\ JobCovered
  BY DEF Init, Exclusive, Busy, Idle, JobIdle, JobCovered
<1>3. CreditsCovered
  BY DEF Init, CreditsCovered, Covered
<1>4. HandlersCovered
  BY DEF Init, Idle, At, HandlersCovered
<1> QED
  BY <1>1, <1>2, <1>3, <1>4 DEF Serial

\* What a step does to the handler that takes it.
LEMMA Others ==
    ASSUME TypeOK, NEW h \in Handlers, Request(h) \/ Proceed(h) \/ HandlerFails(h)
    PROVE  /\ \A g \in Handlers \ {h} : task'[g] = task[g]
           /\ job' = job
<1>0. task \in [Handlers -> Task]
  BY DEF TypeOK
<1>1. job' = job
  BY Unmoved DEF Proceed, CreateSave, CreateInvoice, PayMark, PayCredit, PayInvoice,
     RefundMark, DiscountTotal, DiscountCount, UpdateWrite
<1>2. CASE Request(h) \/ HandlerFails(h)
  BY <1>0, <1>1, <1>2 DEF Request, CreateCount, PayFind, RefundFind, DiscountFind, UpdateFind,
     HandlerFails, Finish
<1>3. CASE Proceed(h)
  BY <1>0, <1>1, <1>3 DEF Proceed, CreateSave, CreateInvoice, PayMark, PayCredit, PayInvoice,
     RefundMark, DiscountLoad, DiscountTotal, DiscountCount, UpdateWrite, Goto, Finish
<1> QED
  BY <1>1, <1>2, <1>3

LEMMA ExclusiveStep ==
    ASSUME ~Overlapping, Serial, TypeOK', [Next]_vars
    PROVE  Exclusive' /\ (job'.at = "idle" => job'.todo = {})
<1>0. /\ TypeOK /\ Exclusive /\ (job.at = "idle" => job.todo = {})
      /\ job \in [at : {"idle", "mark", "sum", "debt"}, todo : SUBSET Target,
                  cur : SUBSET Target, seen : SUBSET (PaymentIds \X Int)]
  BY DEF Serial, TypeOK
<1>1. ASSUME NEW h \in Handlers, Request(h) PROVE Exclusive' /\ job' = job
  <2>1. Quiet
    BY <1>1 DEF Request, CreateCount, PayFind, RefundFind, DiscountFind, UpdateFind, Arrives
  <2> QED
    BY <1>0, <1>1, <2>1, Others DEF Exclusive, Quiet, Busy
<1>2. ASSUME NEW h \in Handlers, Proceed(h) \/ HandlerFails(h) PROVE Exclusive' /\ job' = job
  <2>1. Busy(h)
    BY <1>2 DEF Proceed, HandlerFails, CreateSave, CreateInvoice, PayMark, PayCredit, PayInvoice,
       RefundMark, DiscountLoad, DiscountTotal, DiscountCount, UpdateWrite, At, Busy
  <2> QED
    BY <1>0, <1>2, <2>1, Others DEF Exclusive, Busy
<1>3. ASSUME Job PROVE Exclusive' /\ (job'.at = "idle" => job'.todo = {})
  <2>1. task' = task /\ \A h \in Handlers : ~Busy(h)
    BY <1>0, <1>3 DEF Job, JobFind, JobMark, JobSum, JobDebt, Quiet, Exclusive
  <2>2. Exclusive'
    BY <1>0, <2>1 DEF Exclusive, Busy
  <2>3. job'.at = "idle" => job'.todo = {}
    <3>1. CASE JobFind \/ JobMark \/ JobSum
      <4>1. job'.at # "idle"
        BY <1>0, <3>1 DEF JobFind, JobMark, JobSum, JobIdle
      <4> QED
        BY <4>1
    <3>2. CASE JobDebt
      <4>1. CASE job' = JobIdle
        BY <4>1 DEF JobIdle
      <4>2. CASE job' = [job EXCEPT !.at = "mark", !.cur = {}, !.seen = {}]
        BY <1>0, <4>2
      <4> QED
        BY <3>2, <4>1, <4>2 DEF JobDebt
    <3> QED
      BY <1>3, <3>1, <3>2 DEF Job
  <2> QED
    BY <2>2, <2>3
<1>4. CASE JobFails
  BY <1>0, <1>4 DEF JobFails, JobIdle, Exclusive, Busy
<1>5. CASE (\E p \in PaymentIds : DueDatePasses(p)) \/ (\E c \in Codes : CodeExpires(c))
           \/ UNCHANGED vars
  <2>1. job' = job /\ task' = task
    BY <1>5 DEF DueDatePasses, CodeExpires, vars
  <2> QED
    BY <1>0, <2>1 DEF Exclusive, Busy
<1> QED
  BY <1>0, <1>1, <1>2, <1>3, <1>4, <1>5 DEF Next

\* The columns the credits are compared with change only in pay, refund, create
\* and the job; every other step leaves status, credits and refunds alone.
LEMMA StatusMoves ==
    ASSUME TypeOK, TypeOK', [Next]_vars
    PROVE  \/ \E h \in Handlers : PayMark(h) \/ PayCredit(h) \/ RefundMark(h) \/ CreateSave(h)
           \/ JobMark
           \/ /\ credits' = credits /\ refunds' = refunds
              /\ \A p \in PaymentIds : payments'[p].status = payments[p].status
<1> DEFINE Same == /\ credits' = credits /\ refunds' = refunds
                   /\ \A p \in PaymentIds : payments'[p].status = payments[p].status
<1>0. payments \in [PaymentIds -> Row]
  BY DEF TypeOK
<1>1. CASE payments' = payments /\ credits' = credits /\ refunds' = refunds
  BY <1>1
<1>2. ASSUME NEW h \in Handlers, Request(h) \/ HandlerFails(h) \/ DiscountLoad(h) PROVE Same
  BY <1>1, <1>2, Unmoved DEF tables, history
<1>3. ASSUME NEW h \in Handlers, DiscountTotal(h) PROVE Same
  <2>1. PICK n : payments' = [payments EXCEPT ![task[h].p].total = n]
    BY <1>3 DEF DiscountTotal
  <2>2. \A p \in PaymentIds : payments'[p].status = payments[p].status
    BY <1>0, <2>1 DEF Row
  <2> QED
    BY <1>3, <2>2 DEF DiscountTotal, history
<1>4. ASSUME NEW h \in Handlers, UpdateWrite(h) PROVE Same
  <2>1. PICK s \in Students \cup {payments[task[h].p].student},
             a \in Amounts \cup {payments[task[h].p].amount}, due \in BOOLEAN :
            payments' = [payments EXCEPT ![task[h].p].student = s,
                           ![task[h].p].amount = a, ![task[h].p].due = due]
    BY <1>4 DEF UpdateWrite
  <2>2. ASSUME NEW p \in PaymentIds PROVE payments'[p].status = payments[p].status
    <3>1. CASE p = task[h].p
      <4>1. payments'[p] = [payments[p] EXCEPT !.student = s, !.amount = a, !.due = due]
        BY <1>0, <2>1, <3>1
      <4> QED
        BY <1>0, <4>1 DEF Row
    <3>2. CASE p # task[h].p
      BY <1>0, <2>1, <3>2
    <3> QED
      BY <3>1, <3>2
  <2> QED
    BY <1>4, <2>2 DEF UpdateWrite, history
<1>5. ASSUME NEW h \in Handlers, CreateInvoice(h) \/ PayInvoice(h) \/ DiscountCount(h) PROVE Same
  BY <1>1, <1>5 DEF CreateInvoice, PayInvoice, DiscountCount, history
<1>6. CASE JobFind \/ JobSum \/ JobDebt \/ JobFails
  BY <1>1, <1>6 DEF JobFind, JobSum, JobDebt, JobFails, tables, history
<1>7. ASSUME NEW q \in PaymentIds, DueDatePasses(q) PROVE Same
  <2>1. \A p \in PaymentIds : payments'[p].status = payments[p].status
    BY <1>0, <1>7 DEF DueDatePasses, Row
  <2> QED
    BY <1>7, <2>1 DEF DueDatePasses, history
<1>8. CASE (\E c \in Codes : CodeExpires(c)) \/ UNCHANGED vars
  BY <1>1, <1>8 DEF CodeExpires, vars, tables, history
<1> QED
  BY <1>2, <1>3, <1>4, <1>5, <1>6, <1>7, <1>8 DEF Next, Proceed, Job

\* Only pay() of a payment that is not paid leads to the statement that marks it.
LEMMA IntoMark ==
    ASSUME TypeOK, [Next]_vars, NEW g \in Handlers, At(g, "markPaid")'
    PROVE  \/ At(g, "markPaid") /\ task'[g].p = task[g].p
           \/ payments[task'[g].p].status # "paid"
<1> DEFINE Into == At(g, "markPaid")' =>
                      \/ At(g, "markPaid") /\ task'[g].p = task[g].p
                      \/ payments[task'[g].p].status # "paid"
<1>0. task \in [Handlers -> Task] /\ task[g] \in Task
  BY DEF TypeOK
<1>1. CASE task'[g] = task[g]
  BY <1>1 DEF At
<1>2. CASE task'[g].at # "markPaid"
  BY <1>2 DEF At
<1>3. ASSUME NEW h \in Handlers, Request(h) PROVE Into
  <2>1. CASE h # g
    BY <1>0, <1>1, <1>3, <2>1, Others
  <2>2. CASE CreateCount(g) \/ RefundFind(g) \/ DiscountFind(g) \/ UpdateFind(g)
    <3>1. task'[g].at # "markPaid"
      BY <1>0, <2>2 DEF CreateCount, RefundFind, DiscountFind, UpdateFind
    <3> QED
      BY <1>2, <3>1
  <2>3. CASE PayFind(g)
    BY <1>0, <2>3 DEF PayFind
  <2> QED
    BY <1>3, <2>1, <2>2, <2>3 DEF Request
<1>4. ASSUME NEW h \in Handlers, Proceed(h) \/ HandlerFails(h) PROVE Into
  <2>1. CASE h # g
    BY <1>0, <1>1, <1>4, <2>1, Others
  <2>2. CASE Finish(g)
    <3>1. task'[g].at # "markPaid"
      BY <1>0, <2>2 DEF Finish, Idle
    <3> QED
      BY <1>2, <3>1
  <2>3. ASSUME NEW step, step # "markPaid", Goto(g, step) PROVE Into
    <3>1. task'[g] = [task[g] EXCEPT !.at = step]
      BY <1>0, <2>3 DEF Goto
    <3>2. task'[g].at = step
      BY <1>0, <3>1 DEF Task
    <3> QED
      BY <1>2, <2>3, <3>2
  <2>4. CASE CreateSave(g)
    <3>1. PICK p \in PaymentIds \ Rows : task' = [task EXCEPT ![g].at = "invoice", ![g].p = p]
      BY <2>4 DEF CreateSave
    <3>2. task'[g] = [task[g] EXCEPT !.at = "invoice", !.p = p]
      BY <1>0, <3>1
    <3>3. task'[g].at = "invoice"
      BY <1>0, <3>2 DEF Task
    <3> QED
      BY <1>2, <3>3
  <2>5. CASE DiscountLoad(g)
    <3>1. ASSUME NEW p, task' = [task EXCEPT ![g].at = "setTotal", ![g].p = p,
                                              ![g].row = payments[p]]
          PROVE  Into
      <4>1. task'[g] = [task[g] EXCEPT !.at = "setTotal", !.p = p, !.row = payments[p]]
        BY <1>0, <3>1
      <4>2. task'[g].at = "setTotal"
        BY <1>0, <4>1 DEF Task
      <4> QED
        BY <1>2, <4>2
    <3> QED
      BY <2>2, <2>5, <3>1 DEF DiscountLoad
  <2> QED
    BY <1>4, <2>1, <2>2, <2>3, <2>4, <2>5 DEF Proceed, HandlerFails, CreateInvoice, PayMark,
       PayCredit, PayInvoice, RefundMark, DiscountTotal, DiscountCount, UpdateWrite
<1>5. task' = task => Into
  BY <1>1
<1> QED
  BY <1>3, <1>4, <1>5 DEF Next, Job, JobFails, JobFind, JobMark, JobSum, JobDebt,
     DueDatePasses, CodeExpires, vars

\* Under exclusion a step that moves a credit or a status is the only one under way.
LEMMA Alone ==
    ASSUME Exclusive, NEW h \in Handlers, Busy(h)
    PROVE  /\ job.at = "idle"
           /\ \A g \in Handlers : PayMark(g) \/ PayCredit(g) \/ RefundMark(g) \/ CreateSave(g)
                => g = h
  BY DEF Exclusive, Busy, PayMark, PayCredit, RefundMark, CreateSave, At

LEMMA CreditsStep ==
    ASSUME Serial, TypeOK', [Next]_vars PROVE CreditsCovered'
<1>0. TypeOK /\ CreditsCovered /\ HandlersCovered /\ JobCovered
  BY DEF Serial
<1> SUFFICES ASSUME NEW p \in PaymentIds
             PROVE  /\ credits'[p] <= 1 + refunds'[p]
                    /\ payments'[p].status # "paid" => credits'[p] <= refunds'[p]
  BY DEF CreditsCovered, Covered
<1>t. /\ payments \in [PaymentIds -> Row]
      /\ credits \in [PaymentIds -> Nat] /\ refunds \in [PaymentIds -> Nat]
      /\ credits[p] \in Nat /\ refunds[p] \in Nat
      /\ credits[p] <= 1 + refunds[p]
      /\ payments[p].status # "paid" => credits[p] <= refunds[p]
  BY <1>0 DEF TypeOK, CreditsCovered, Covered
<1>1. ASSUME NEW h \in Handlers, PayMark(h)
      PROVE  /\ credits'[p] <= 1 + refunds'[p]
             /\ payments'[p].status # "paid" => credits'[p] <= refunds'[p]
  <2>1. credits' = credits /\ refunds' = refunds
    BY <1>1 DEF PayMark, history
  <2>2. payments'[p].status = payments[p].status \/ payments'[p].status = "paid"
    BY <1>t, <1>1 DEF PayMark, Row
  <2> QED
    BY <1>t, <2>1, <2>2
<1>2. ASSUME NEW h \in Handlers, PayCredit(h)
      PROVE  /\ credits'[p] <= 1 + refunds'[p]
             /\ payments'[p].status # "paid" => credits'[p] <= refunds'[p]
  <2>1. /\ payments' = payments /\ refunds' = refunds
        /\ At(h, "credit")
        /\ credits' = credits \/ credits' = [credits EXCEPT ![task[h].p] = @ + 1]
    BY <1>2 DEF PayCredit
  <2>2. Covered(task[h].p) /\ payments[task[h].p].status = "paid"
    BY <1>0, <2>1 DEF HandlersCovered
  <2>3. CASE p = task[h].p
    BY <1>t, <2>1, <2>2, <2>3 DEF Covered
  <2>4. CASE p # task[h].p
    BY <1>t, <2>1, <2>4
  <2> QED
    BY <2>3, <2>4
<1>3. ASSUME NEW h \in Handlers, RefundMark(h)
      PROVE  /\ credits'[p] <= 1 + refunds'[p]
             /\ payments'[p].status # "paid" => credits'[p] <= refunds'[p]
  <2>1. /\ credits' = credits
        /\ refunds' = [refunds EXCEPT ![task[h].p] = @ + 1]
        /\ payments' = [payments EXCEPT ![task[h].p].status = "refunded"]
    BY <1>3 DEF RefundMark
  <2>3. CASE p = task[h].p
    BY <1>t, <2>1, <2>3
  <2>4. CASE p # task[h].p
    BY <1>t, <2>1, <2>4
  <2> QED
    BY <2>3, <2>4
<1>4. ASSUME NEW h \in Handlers, CreateSave(h)
      PROVE  /\ credits'[p] <= 1 + refunds'[p]
             /\ payments'[p].status # "paid" => credits'[p] <= refunds'[p]
  <2>1. credits' = credits /\ refunds' = refunds
    BY <1>4 DEF CreateSave, history
  <2>2. payments'[p] = payments[p] \/ payments[p].status = "absent"
    BY <1>t, <1>4 DEF CreateSave, Rows
  <2> QED
    BY <1>t, <2>1, <2>2
<1>5. ASSUME JobMark
      PROVE  /\ credits'[p] <= 1 + refunds'[p]
             /\ payments'[p].status # "paid" => credits'[p] <= refunds'[p]
  <2>1. credits' = credits /\ refunds' = refunds
    BY <1>5 DEF JobMark, history
  <2>2. PICK target \in job.todo :
          payments' = [payments EXCEPT ![target.p].status = "overdue"]
    BY <1>5 DEF JobMark
  <2>3. CASE p = target.p
    <3>1. credits[p] <= refunds[p]
      BY <1>0, <2>3 DEF JobCovered, Covered
    <3> QED
      BY <1>t, <2>1, <3>1
  <2>4. CASE p # target.p
    BY <1>t, <2>1, <2>2, <2>4
  <2> QED
    BY <2>3, <2>4
<1> QED
  BY <1>0, <1>t, <1>1, <1>2, <1>3, <1>4, <1>5, StatusMoves

\* Credits grow only in PayCredit, refunds never shrink.
LEMMA CoveredStays ==
    ASSUME TypeOK, TypeOK', [Next]_vars, ~(\E h \in Handlers : PayCredit(h)),
           NEW p \in PaymentIds, Covered(p)
    PROVE  Covered(p)'
<1>0. /\ credits \in [PaymentIds -> Nat] /\ refunds \in [PaymentIds -> Nat]
      /\ credits[p] <= refunds[p]
  BY DEF TypeOK, Covered
<1>1. ASSUME NEW h \in Handlers, RefundMark(h) PROVE credits'[p] <= refunds'[p]
  BY <1>0, <1>1 DEF RefundMark
<1>2. CASE credits' = credits /\ refunds' = refunds
  BY <1>0, <1>2 DEF Covered
<1>3. ASSUME NEW h \in Handlers, PayMark(h) \/ CreateSave(h) PROVE credits'[p] <= refunds'[p]
  BY <1>0, <1>3 DEF PayMark, CreateSave, history
<1>4. CASE JobMark
  BY <1>2, <1>4 DEF JobMark, history
<1> QED
  BY <1>1, <1>2, <1>3, <1>4, StatusMoves DEF Covered

LEMMA HandlersStep ==
    ASSUME ~Overlapping, Serial, TypeOK', [Next]_vars PROVE HandlersCovered' /\ JobCovered'
<1>0. /\ TypeOK /\ Exclusive /\ CreditsCovered /\ HandlersCovered /\ JobCovered
      /\ job.at = "idle" => job.todo = {}
      /\ job \in [at : {"idle", "mark", "sum", "debt"}, todo : SUBSET Target,
                  cur : SUBSET Target, seen : SUBSET (PaymentIds \X Int)]
  BY DEF Serial, TypeOK
<1>1. ASSUME NEW h \in Handlers, At(h, "markPaid")' \/ At(h, "credit")'
      PROVE  Covered(task[h].p)'
  <2>1. task'[h].p \in PaymentIds
    BY <1>1 DEF TypeOK, Task, At, WithPayment
  <2>2. Covered(task'[h].p)
    <3>1. CASE At(h, "markPaid")'
      BY <1>0, <2>1, <3>1, IntoMark DEF HandlersCovered, CreditsCovered
    <3>2. CASE At(h, "credit")'
      BY <1>0, <2>1, <3>2, IntoCredit DEF HandlersCovered, PayMark
    <3> QED
      BY <1>1, <3>1, <3>2
  <2>3. ASSUME NEW g \in Handlers, PayCredit(g) PROVE FALSE
    <3>1. task'[g].at \in {"settleInvoice", "idle"}
      BY <1>0, <2>3 DEF PayCredit, Goto, Finish, Idle, TypeOK, Task
    <3>2. g # h
      BY <1>1, <3>1 DEF At
    <3>3. task'[h] = task[h]
      BY <1>0, <2>3, <3>2, Others DEF Proceed
    <3> QED
      BY <1>0, <1>1, <2>3, <3>2, <3>3 DEF Exclusive, Busy, At, PayCredit
  <2>4. Covered(task'[h].p) => credits'[task'[h].p] <= refunds'[task'[h].p]
    BY <1>0, <2>1, <2>3, CoveredStays DEF Covered
  <2> QED
    BY <2>2, <2>4 DEF Covered
<1>2. ASSUME NEW h \in Handlers, At(h, "credit")' PROVE payments'[task'[h].p].status = "paid"
  <2>1. task'[h].p = task[h].p /\ task[h].p \in PaymentIds /\ (At(h, "credit") \/ PayMark(h))
    <3>1. task'[h].p \in PaymentIds
      BY <1>2 DEF TypeOK, Task, At, WithPayment
    <3> QED
      BY <1>0, <1>2, <3>1, IntoCredit
  <2>2. CASE PayMark(h)
    <3>1. payments' = [payments EXCEPT ![task[h].p].status = "paid"]
      BY <2>2 DEF PayMark
    <3> QED
      BY <1>0, <2>1, <3>1 DEF TypeOK, Row
  <2>3. CASE At(h, "credit")
    <3>1. /\ Busy(h) /\ job.at = "idle" /\ payments[task[h].p].status = "paid"
          /\ ~JobMark
      BY <1>0, <2>3, Alone DEF HandlersCovered, At, Busy, JobMark
    <3>2. ASSUME NEW g \in Handlers, PayMark(g) \/ RefundMark(g) \/ CreateSave(g) PROVE FALSE
      BY <1>0, <2>3, <3>1, <3>2, Alone DEF At, PayMark, RefundMark, CreateSave
    <3>3. ASSUME NEW g \in Handlers, PayCredit(g) PROVE payments' = payments
      BY <3>3 DEF PayCredit
    <3> QED
      BY <1>0, <2>1, <3>1, <3>2, <3>3, StatusMoves
  <2> QED
    BY <2>1, <2>2, <2>3
<1>3. ASSUME NEW target \in job'.todo PROVE Covered(target.p)'
  <2>1. target.p \in PaymentIds
    BY DEF TypeOK, Target
  <2>2. CASE Job
    <3>1. credits' = credits /\ refunds' = refunds
      BY <2>2 DEF Job, JobFind, JobMark, JobSum, JobDebt, history
    <3>2. CASE JobFind
      <4> DEFINE due == {p \in PaymentIds : Overdue(p)}
                 todo == {[p |-> p, tenant |-> payments[p].tenant,
                           student |-> payments[p].student] : p \in due}
      <4>1. job' = [JobIdle EXCEPT !.at = "mark", !.todo = todo]
        BY <3>2 DEF JobFind
      <4>2. \A t \in todo : payments[t.p].status = "pending"
        BY DEF Overdue
      <4> HIDE DEF todo
      <4>3. target \in todo
        BY <4>1 DEF JobIdle
      <4>4. Covered(target.p)
        BY <1>0, <2>1, <4>2, <4>3 DEF CreditsCovered
      <4> QED
        BY <3>1, <4>4 DEF Covered
    <3>3. CASE JobMark \/ JobSum \/ JobDebt
      <4>1. job'.todo \subseteq job.todo
        <5>1. CASE job' = JobIdle
          BY <5>1 DEF JobIdle
        <5>2. CASE job' = [job EXCEPT !.at = "mark", !.cur = {}, !.seen = {}]
          BY <1>0, <5>2
        <5>3. CASE JobMark \/ JobSum
          BY <1>0, <5>3 DEF JobMark, JobSum
        <5> QED
          BY <3>3, <5>1, <5>2, <5>3 DEF JobDebt
      <4> QED
        BY <1>0, <3>1, <4>1 DEF JobCovered, Covered
    <3> QED
      BY <2>2, <3>2, <3>3 DEF Job
  <2>3. CASE job' = JobIdle
    BY <2>3 DEF JobIdle
  <2>4. CASE job' = job
    <3>1. Covered(target.p) /\ job.at # "idle"
      BY <1>0, <2>4 DEF JobCovered
    <3>2. ~(\E h \in Handlers : PayCredit(h))
      BY <1>0, <3>1 DEF Exclusive, Busy, PayCredit, At
    <3> QED
      BY <1>0, <2>1, <3>1, <3>2, CoveredStays
  <2> QED
    BY <2>2, <2>3, <2>4, JobMoves
<1>4. HandlersCovered'
  BY <1>1, <1>2 DEF HandlersCovered
<1> QED
  BY <1>3, <1>4 DEF JobCovered

LEMMA SerialStep == ASSUME ~Overlapping PROVE Serial /\ [Next]_vars => Serial'
<1> SUFFICES ASSUME Serial, [Next]_vars PROVE Serial'
  OBVIOUS
<1>1. TypeOK'
  BY NextType DEF Serial
<1> QED
  BY <1>1, ExclusiveStep, CreditsStep, HandlersStep DEF Serial

\* When requests do not overlap, a payment is credited to its student once, and
\* once more only after a refund, also when any statement fails half way.
THEOREM SingleCreditHolds == ASSUME ~Overlapping PROVE Spec => []SingleCredit
<1>1. Serial => SingleCredit
  BY DEF Serial, CreditsCovered, SingleCredit
<1> QED
  BY <1>1, InitSerial, SerialStep, PTL DEF Spec

-----------------------------------------------------------------------------
(* The numbers of payments.                                                *)

\* Statements are about payments that are there.
PresentAtWork ==
    /\ \A h \in Handlers : task[h].at \in WithPayment => task[h].p \in Rows
    /\ \A target \in job.todo \cup job.cur : target.p \in Rows

Numbers(t) == {payments[p].number : p \in RowsOf(t)}

Numbered == \A t \in Tenants : Numbers(t) = 1 .. Cardinality(RowsOf(t))

\* The number that create() holds while it saves is still the next one.
SavesNext(h) ==
    task[h].row.status = "pending" /\ task[h].row.number = NextNumber(task[h].row.tenant)

SaveNumbered == \A h \in Handlers : At(h, "save") => SavesNext(h)

NumbersInv == Serial /\ PresentAtWork /\ Numbered /\ SaveNumbered

LEMMA RowsAreFinite == \A t : IsFiniteSet(RowsOf(t)) /\ Cardinality(RowsOf(t)) \in Nat
<1>1. \A t : RowsOf(t) \subseteq PaymentIds
  BY DEF RowsOf, Rows
<1> QED
  BY <1>1, PaymentsAssumption, FS_Subset, FS_CardinalityType

LEMMA InitNumbers == Init => NumbersInv
<1> SUFFICES ASSUME Init PROVE NumbersInv
  OBVIOUS
<1>1. Serial
  BY InitSerial
<1>2. Rows = {} /\ \A t : RowsOf(t) = {} /\ Numbers(t) = {}
  BY DEF Init, NoRow, Rows, RowsOf, Numbers
<1>3. \A t : Cardinality(RowsOf(t)) = 0
  BY <1>2, FS_EmptySet
<1>4. Numbered
  BY <1>2, <1>3 DEF Numbered
<1>5. PresentAtWork /\ SaveNumbered
  BY DEF Init, Idle, JobIdle, WithPayment, PresentAtWork, SaveNumbered, At
<1> QED
  BY <1>1, <1>4, <1>5 DEF NumbersInv

\* Nothing deletes a payment or changes its tenant or number.
Kept(p) ==
    /\ payments'[p].tenant = payments[p].tenant /\ payments'[p].number = payments[p].number
    /\ payments'[p].status = "absent" <=> payments[p].status = "absent"

LEMMA RowsMove ==
    ASSUME TypeOK, PresentAtWork, [Next]_vars
    PROVE  (\E h \in Handlers : CreateSave(h)) \/ \A p \in PaymentIds : Kept(p)
<1> DEFINE Same == \A p \in PaymentIds : Kept(p)
<1>0. payments \in [PaymentIds -> Row] /\ Rows \subseteq PaymentIds
  BY DEF TypeOK, Rows
<1>1. ASSUME payments' = payments PROVE Same
  BY <1>1 DEF Kept
<1>2. ASSUME NEW q \in Rows, NEW new, new # "absent",
             payments' = [payments EXCEPT ![q].status = new]
      PROVE  Same
  BY <1>0, <1>2 DEF Kept, Rows, Row
<1>3. ASSUME NEW h \in Handlers, Request(h) \/ HandlerFails(h) \/ DiscountLoad(h) PROVE Same
  BY <1>1, <1>3, Unmoved DEF tables
<1>4. ASSUME NEW h \in Handlers, PayMark(h) \/ RefundMark(h) PROVE Same
  <2>1. task[h].p \in Rows
    BY <1>4 DEF PresentAtWork, PayMark, RefundMark, At, WithPayment
  <2> QED
    BY <1>2, <1>4, <2>1 DEF PayMark, RefundMark
<1>5. ASSUME NEW h \in Handlers, DiscountTotal(h) PROVE Same
  <2>1. PICK n : payments' = [payments EXCEPT ![task[h].p].total = n]
    BY <1>5 DEF DiscountTotal
  <2> QED
    BY <1>0, <2>1 DEF Row, Kept
<1>6. ASSUME NEW h \in Handlers, UpdateWrite(h) PROVE Same
  <2>1. PICK s \in Students \cup {payments[task[h].p].student},
             a \in (Amounts \cap 0 .. MaxMoney) \cup {payments[task[h].p].amount}, due \in BOOLEAN :
            payments' = [payments EXCEPT ![task[h].p].student = s,
                           ![task[h].p].amount = a, ![task[h].p].due = due]
    BY <1>6 DEF UpdateWrite
  <2>2. ASSUME NEW p \in PaymentIds PROVE Kept(p)
    <3>1. CASE p = task[h].p
      <4>1. payments'[p] = [payments[p] EXCEPT !.student = s, !.amount = a, !.due = due]
        BY <1>0, <2>1, <3>1
      <4> QED
        BY <1>0, <4>1 DEF Row, Kept
    <3>2. CASE p # task[h].p
      BY <1>0, <2>1, <3>2 DEF Kept
    <3> QED
      BY <3>1, <3>2
  <2> QED
    BY <2>2
<1>7. ASSUME NEW h \in Handlers,
             CreateInvoice(h) \/ PayCredit(h) \/ PayInvoice(h) \/ DiscountCount(h)
      PROVE  Same
  BY <1>1, <1>7 DEF CreateInvoice, PayCredit, PayInvoice, DiscountCount
<1>8. CASE JobMark
  <2>1. PICK target \in job.todo : payments' = [payments EXCEPT ![target.p].status = "overdue"]
    BY <1>8 DEF JobMark
  <2>2. target.p \in Rows
    BY DEF PresentAtWork
  <2> QED
    BY <1>2, <2>1, <2>2
<1>9. CASE JobFind \/ JobSum \/ JobDebt \/ JobFails \/ (\E c \in Codes : CodeExpires(c))
           \/ UNCHANGED vars
  BY <1>1, <1>9 DEF JobFind, JobSum, JobDebt, JobFails, CodeExpires, vars, tables
<1>10. ASSUME NEW q \in PaymentIds, DueDatePasses(q) PROVE Same
  BY <1>0, <1>10 DEF DueDatePasses, Row, Kept
<1> QED
  BY <1>3, <1>4, <1>5, <1>6, <1>7, <1>8, <1>9, <1>10 DEF Next, Proceed, Job

\* create() saves a payment that was not there, with the tenant's next number.
LEMMA RowSaved ==
    ASSUME TypeOK, SaveNumbered, NEW h \in Handlers, CreateSave(h)
    PROVE  \E p \in PaymentIds \ Rows :
             /\ payments' = [payments EXCEPT ![p] = task[h].row]
             /\ Rows' = Rows \cup {p}
             /\ task'[h].p = p /\ task'[h].at = "invoice"
<1>1. PICK p \in PaymentIds \ Rows :
        /\ payments' = [payments EXCEPT ![p] = task[h].row]
        /\ task' = [task EXCEPT ![h].at = "invoice", ![h].p = p]
  BY DEF CreateSave
<1>2. task[h].row.status = "pending"
  BY DEF SaveNumbered, SavesNext, CreateSave
<1>3. payments \in [PaymentIds -> Row] /\ task \in [Handlers -> Task]
  BY DEF TypeOK
<1>4. Rows' = Rows \cup {p}
  BY <1>1, <1>2, <1>3 DEF Rows
<1>5. task'[h] = [task[h] EXCEPT !.at = "invoice", !.p = p]
  BY <1>1, <1>3
<1>6. task'[h].p = p /\ task'[h].at = "invoice"
  BY <1>3, <1>5 DEF Task
<1> QED
  BY <1>1, <1>4, <1>6

LEMMA RowsGrow ==
    ASSUME TypeOK, PresentAtWork, SaveNumbered, [Next]_vars PROVE Rows \subseteq Rows'
<1>1. ASSUME NEW h \in Handlers, CreateSave(h) PROVE Rows \subseteq Rows'
  BY <1>1, RowSaved
<1>2. CASE \A p \in PaymentIds : Kept(p)
  BY <1>2 DEF Kept, Rows
<1> QED
  BY <1>1, <1>2, RowsMove

LEMMA NumberedStep ==
    ASSUME TypeOK, PresentAtWork, Numbered, SaveNumbered, [Next]_vars PROVE Numbered'
<1>1. CASE \A p \in PaymentIds : Kept(p)
  <2>1. \A t : RowsOf(t)' = RowsOf(t)
    BY <1>1 DEF Kept, RowsOf, Rows
  <2>2. \A t : Numbers(t)' = Numbers(t)
    BY <1>1, <2>1 DEF Kept, Numbers, RowsOf, Rows
  <2> QED
    BY <2>1, <2>2 DEF Numbered
<1>2. ASSUME NEW h \in Handlers, CreateSave(h), NEW t \in Tenants
      PROVE  Numbers(t)' = 1 .. Cardinality(RowsOf(t)')
  <2> DEFINE row == task[h].row
  <2>1. PICK p \in PaymentIds \ Rows :
          payments' = [payments EXCEPT ![p] = row] /\ Rows' = Rows \cup {p}
    BY <1>2, RowSaved
  <2>2. row.number = Cardinality(RowsOf(row.tenant)) + 1 /\ payments \in [PaymentIds -> Row]
    BY <1>2 DEF SaveNumbered, SavesNext, CreateSave, NextNumber, TypeOK
  <2>3. /\ payments'[p] = row /\ \A q \in Rows : payments'[q] = payments[q]
        /\ p \notin RowsOf(t)
    BY <2>1, <2>2 DEF Rows, RowsOf
  <2>4. Numbers(t) = 1 .. Cardinality(RowsOf(t))
    BY DEF Numbered
  <2>5. CASE row.tenant = t
    <3>1. RowsOf(t)' = RowsOf(t) \cup {p}
      BY <2>1, <2>3, <2>5 DEF RowsOf
    <3>2. Cardinality(RowsOf(t)') = Cardinality(RowsOf(t)) + 1
      BY <2>3, <3>1, RowsAreFinite, FS_AddElement
    <3>3. Numbers(t)' = Numbers(t) \cup {row.number}
      BY <2>3, <3>1 DEF Numbers, RowsOf
    <3> DEFINE n == Cardinality(RowsOf(t))
    <3>4. n \in Nat
      BY RowsAreFinite
    <3>5. Numbers(t)' = (1 .. n) \cup {n + 1} /\ Cardinality(RowsOf(t)') = n + 1
      BY <2>2, <2>4, <2>5, <3>2, <3>3
    <3> HIDE DEF n
    <3> QED
      BY <3>4, <3>5
  <2>6. CASE row.tenant # t
    <3>1. RowsOf(t)' = RowsOf(t)
      BY <2>1, <2>3, <2>6 DEF RowsOf
    <3>2. Numbers(t)' = Numbers(t)
      BY <2>3, <3>1 DEF Numbers, RowsOf
    <3> QED
      BY <2>4, <3>1, <3>2
  <2> QED
    BY <2>5, <2>6
<1> QED
  BY <1>1, <1>2, RowsMove DEF Numbered

LEMMA SaveNumberedStep ==
    ASSUME Serial, TypeOK', PresentAtWork, SaveNumbered, [Next]_vars PROVE SaveNumbered'
<1>0. TypeOK /\ Exclusive /\ task \in [Handlers -> Task]
  BY DEF Serial, TypeOK
<1> SUFFICES ASSUME NEW g \in Handlers, At(g, "save")' PROVE SavesNext(g)'
  BY DEF SaveNumbered
<1>1. CASE task'[g] = task[g]
  <2>1. At(g, "save") /\ Busy(g) /\ SavesNext(g)
    BY <1>1 DEF At, Busy, SaveNumbered
  <2>2. ASSUME NEW h \in Handlers, CreateSave(h) PROVE FALSE
    <3>1. h = g
      BY <1>0, <2>1, <2>2 DEF Exclusive, Busy, CreateSave, At
    <3>2. task'[h].at = "invoice"
      BY <1>0, <2>2, RowSaved
    <3> QED
      BY <3>1, <3>2 DEF At
  <2>3. \A p \in PaymentIds : Kept(p)
    BY <1>0, <2>2, RowsMove
  <2>4. PICK row : row = task[g].row
    OBVIOUS
  <2>5. RowsOf(row.tenant)' = RowsOf(row.tenant)
    BY <2>3 DEF Kept, RowsOf, Rows
  <2>6. NextNumber(row.tenant)' = NextNumber(row.tenant)
    BY <2>5 DEF NextNumber
  <2>7. row.status = "pending" /\ row.number = NextNumber(row.tenant)
    BY <2>1, <2>4 DEF SavesNext
  <2> QED
    BY <1>1, <2>4, <2>6, <2>7 DEF SavesNext, NextNumber, RowsOf
<1>2. CASE CreateCount(g)
  <2>1. PICK t \in Tenants, s \in Students, a \in Amounts, d \in Percents, x \in Percents,
             due \in BOOLEAN :
          task' = [task EXCEPT ![g] = [at |-> "save", p |-> None, code |-> None,
                     row |-> NewRow(t, s, NextNumber(t), a, d, x, due)]]
    BY <1>2 DEF CreateCount
  <2>2. task'[g].row = NewRow(t, s, NextNumber(t), a, d, x, due)
    BY <1>0, <2>1
  <2>3. task'[g].row.status = "pending" /\ task'[g].row.number = NextNumber(t)
        /\ task'[g].row.tenant = t
    BY <2>2 DEF NewRow
  <2>4. NextNumber(t)' = NextNumber(t)
    BY <1>2 DEF CreateCount, tables, NextNumber, RowsOf, Rows
  <2> QED
    BY <2>3, <2>4 DEF SavesNext, NextNumber, RowsOf
<1>3. CASE task'[g].at # "save"
  BY <1>3 DEF At
<1>4. ASSUME NEW h \in Handlers, Request(h) \/ Proceed(h) \/ HandlerFails(h)
      PROVE  task'[g] = task[g] \/ CreateCount(g) \/ task'[g].at # "save"
  <2>1. CASE h # g
    BY <1>0, <1>4, <2>1, Others
  <2>2. CASE PayFind(g) \/ RefundFind(g) \/ DiscountFind(g) \/ UpdateFind(g)
    BY <1>0, <2>2 DEF PayFind, RefundFind, DiscountFind, UpdateFind
  <2>3. CASE Finish(g)
    BY <1>0, <2>3 DEF Finish, Idle
  <2>4. ASSUME NEW step, step # "save", Goto(g, step) PROVE task'[g].at # "save"
    <3>1. task'[g] = [task[g] EXCEPT !.at = step]
      BY <1>0, <2>4 DEF Goto
    <3> QED
      BY <1>0, <2>4, <3>1 DEF Task
  <2>5. CASE CreateSave(g)
    BY <1>0, <2>5, RowSaved
  <2>6. CASE DiscountLoad(g)
    <3>1. ASSUME NEW p, task' = [task EXCEPT ![g].at = "setTotal", ![g].p = p,
                                              ![g].row = payments[p]]
          PROVE  task'[g].at # "save"
      <4>1. task'[g] = [task[g] EXCEPT !.at = "setTotal", !.p = p, !.row = payments[p]]
        BY <1>0, <3>1
      <4>2. task'[g].at = "setTotal"
        BY <1>0, <4>1 DEF Task
      <4> QED
        BY <4>2
    <3> QED
      BY <2>3, <2>6, <3>1 DEF DiscountLoad
  <2> QED
    BY <1>4, <2>1, <2>2, <2>3, <2>4, <2>5, <2>6 DEF Request, Proceed, HandlerFails, CreateInvoice,
       PayMark, PayCredit, PayInvoice, RefundMark, DiscountTotal, DiscountCount, UpdateWrite
<1>5. CASE task' = task
  BY <1>1, <1>5
<1> QED
  BY <1>1, <1>2, <1>3, <1>4, <1>5 DEF Next, Job, JobFails, JobFind, JobMark, JobSum, JobDebt,
     DueDatePasses, CodeExpires, vars

LEMMA PresentStep ==
    ASSUME Serial, TypeOK', PresentAtWork, SaveNumbered, [Next]_vars PROVE PresentAtWork'
<1>0. /\ TypeOK /\ task \in [Handlers -> Task] /\ Rows \subseteq Rows'
      /\ job \in [at : {"idle", "mark", "sum", "debt"}, todo : SUBSET Target,
                  cur : SUBSET Target, seen : SUBSET (PaymentIds \X Int)]
  BY RowsGrow DEF Serial, TypeOK
<1>1. ASSUME NEW g \in Handlers, task'[g].at \in WithPayment PROVE task'[g].p \in Rows'
  <2> DEFINE Good == task'[g].at \in WithPayment => task'[g].p \in Rows'
  <2>1. CASE task'[g].p = task[g].p /\ task[g].at \in WithPayment
    BY <1>0, <2>1 DEF PresentAtWork
  <2>2. CASE task'[g] = task[g]
    BY <1>1, <2>1, <2>2
  <2>3. ASSUME NEW p \in Rows, task'[g].p = p PROVE Good
    BY <1>0, <2>3
  <2>4. ASSUME NEW h \in Handlers, Request(h) PROVE Good
    <3>1. CASE h # g
      BY <1>0, <2>2, <2>4, <3>1, Others
    <3>2. CASE CreateCount(g) \/ DiscountFind(g)
      <4>1. task'[g].at \in {"save", "loadPayment"}
        BY <1>0, <3>2 DEF CreateCount, DiscountFind
      <4> QED
        BY <4>1 DEF WithPayment
    <3>3. CASE PayFind(g) \/ RefundFind(g) \/ UpdateFind(g)
      <4>1. \E p \in Rows : task'[g].p = p
        BY <1>0, <3>3 DEF PayFind, RefundFind, UpdateFind
      <4> QED
        BY <2>3, <4>1
    <3> QED
      BY <2>4, <3>1, <3>2, <3>3 DEF Request
  <2>5. ASSUME NEW h \in Handlers, Proceed(h) \/ HandlerFails(h) PROVE Good
    <3>1. CASE h # g
      BY <1>0, <2>2, <2>5, <3>1, Others
    <3>2. CASE Finish(g)
      <4>1. task'[g].at = "idle"
        BY <1>0, <3>2 DEF Finish, Idle
      <4> QED
        BY <4>1 DEF WithPayment
    <3>3. ASSUME NEW step, task[g].at \in WithPayment, Goto(g, step) PROVE Good
      <4>1. task'[g] = [task[g] EXCEPT !.at = step]
        BY <1>0, <3>3 DEF Goto
      <4>2. task'[g].p = task[g].p
        BY <1>0, <4>1 DEF Task
      <4> QED
        BY <2>1, <3>3, <4>2
    <3>4. CASE CreateSave(g)
      BY <1>0, <3>4, RowSaved
    <3>5. CASE DiscountLoad(g)
      <4>1. ASSUME NEW p \in Rows, task' = [task EXCEPT ![g].at = "setTotal", ![g].p = p,
                                                ![g].row = payments[p]]
            PROVE  Good
        <5>1. task'[g] = [task[g] EXCEPT !.at = "setTotal", !.p = p, !.row = payments[p]]
          BY <1>0, <4>1
        <5>2. task'[g].p = p
          BY <1>0, <5>1 DEF Task
        <5> QED
          BY <2>3, <5>2
      <4> QED
        BY <3>2, <3>5, <4>1 DEF DiscountLoad, RowsOf
    <3> QED
      BY <2>5, <3>1, <3>2, <3>3, <3>4, <3>5 DEF Proceed, HandlerFails, CreateInvoice, PayMark,
         PayCredit, PayInvoice, RefundMark, DiscountTotal, DiscountCount, UpdateWrite, At, WithPayment
  <2> QED
    BY <1>1, <2>2, <2>4, <2>5 DEF Next, Job, JobFails, JobFind, JobMark, JobSum, JobDebt,
       DueDatePasses, CodeExpires, vars
<1>2. ASSUME NEW target \in job'.todo \cup job'.cur PROVE target.p \in Rows'
  <2>1. CASE job' = job
    BY <1>0, <2>1 DEF PresentAtWork
  <2>2. CASE job' = JobIdle
    BY <2>2 DEF JobIdle
  <2>3. CASE JobFind
    <3> DEFINE due == {p \in PaymentIds : Overdue(p)}
               todo == {[p |-> p, tenant |-> payments[p].tenant,
                         student |-> payments[p].student] : p \in due}
    <3>1. job' = [JobIdle EXCEPT !.at = "mark", !.todo = todo]
      BY <2>3 DEF JobFind
    <3>2. \A t \in todo : t.p \in Rows
      BY DEF Overdue
    <3> HIDE DEF todo
    <3>3. target \in todo
      BY <3>1 DEF JobIdle
    <3> QED
      BY <1>0, <3>2, <3>3
  <2>4. CASE JobMark \/ JobSum \/ JobDebt
    <3>1. job'.todo \cup job'.cur \subseteq job.todo \cup job.cur
      <4>1. CASE job' = JobIdle
        BY <4>1 DEF JobIdle
      <4>2. CASE job' = [job EXCEPT !.at = "mark", !.cur = {}, !.seen = {}]
        BY <1>0, <4>2
      <4>3. CASE JobMark
        <5>1. PICK t \in job.todo :
                job' = [job EXCEPT !.at = "sum", !.todo = @ \ {t}, !.cur = {t}]
          BY <4>3 DEF JobMark
        <5>2. job'.todo = job.todo \ {t} /\ job'.cur = {t}
          BY <1>0, <5>1
        <5> QED
          BY <5>2
      <4>4. CASE JobSum
        <5>1. job'.todo = job.todo /\ job'.cur = job.cur
          BY <1>0, <4>4 DEF JobSum
        <5> QED
          BY <5>1
      <4> QED
        BY <2>4, <4>1, <4>2, <4>3, <4>4 DEF JobDebt
    <3> QED
      BY <1>0, <3>1 DEF PresentAtWork
  <2> QED
    BY <2>1, <2>2, <2>3, <2>4, JobMoves DEF Job
<1> QED
  BY <1>1, <1>2 DEF PresentAtWork

LEMMA NumbersStep == ASSUME ~Overlapping PROVE NumbersInv /\ [Next]_vars => NumbersInv'
<1> SUFFICES ASSUME NumbersInv, [Next]_vars PROVE NumbersInv'
  OBVIOUS
<1>1. Serial' /\ TypeOK' /\ TypeOK
  BY SerialStep DEF NumbersInv, Serial
<1> QED
  BY <1>1, NumberedStep, SaveNumberedStep, PresentStep DEF NumbersInv

\* When requests do not overlap, the payments of every tenant are numbered 1, 2, 3 ... at
\* all times: create() counts and saves without another create() between them.
THEOREM NumberedHolds == ASSUME ~Overlapping PROVE Spec => []Numbered
<1>1. NumbersInv => Numbered
  BY DEF NumbersInv
<1> QED
  BY <1>1, InitNumbers, NumbersStep, PTL DEF Spec

-----------------------------------------------------------------------------
(* The books where no statement failed.  A student's debt is set by the    *)
(* nightly job and reduced by pay(); what the student owes is a sum over   *)
(* the payments that are not settled.                                      *)

\* Payments are created, paid and refunded, one at a time.  No total is negative, and all
\* totals together fit the column that takes the income of a student.
Plain(T) ==
    /\ ~Overlapping /\ HasIncomeColumn
    /\ Endpoints \subseteq {"create", "pay", "refund"}
    /\ T \in Nat /\ T * MaxRequests <= MaxMoney
    /\ \A a \in Amounts, d \in Percents, x \in Percents :
         a - (a * d) \div 100 + (a * x) \div 100 \in 0 .. T

PlainSteps == {"idle", "save", "invoice", "markPaid", "credit", "settleInvoice", "markRefunded"}

Complete(row, T) == row.tenant \in Tenants /\ row.student \in Students /\ row.total \in 0 .. T

Pays(h) == At(h, "markPaid") \/ At(h, "credit")

\* What a request holds is what is stored.
HandlerSound(h, T) ==
    LET t == task[h] IN
    /\ t.at \in PlainSteps
    /\ At(h, "save") => Complete(t.row, T)
    /\ Pays(h) => /\ Complete(t.row, T)
                  /\ t.row.total = payments[t.p].total
                  /\ t.row.student = payments[t.p].student
    /\ At(h, "markRefunded") => payments[t.p].status = "paid"

RowsInv(T) ==
    /\ \A p \in Rows : Complete(payments[p], T)
    /\ \A h \in Handlers : HandlerSound(h, T)

OwedOf(s) == UNION {OwedBy(s, t) : t \in Tenants}
Totals    == [p \in PaymentIds |-> payments[p].total]
Owing(s)  == SumOver(Totals, OwedOf(s))

JobInv ==
    /\ \A target \in job.todo \cup job.cur :
         target.tenant \in Tenants /\ target.student \in Students
    /\ \A target \in job.todo : payments[target.p].status \in Owed
    /\ \A target, other \in job.cur : target = other
    /\ job.at = "debt" => \A target \in job.cur :
         SumOf(job.seen) \in 0 .. Owing(target.student)

Room(T, n) == T * n

IncomeInv(T) ==
    /\ arrived <= MaxRequests
    /\ \A s \in Students :
         /\ income[s] <= Room(T, arrived)
         /\ \A h \in Handlers : Pays(h) => income[s] + T <= Room(T, arrived)

\* The debt shown covers no more than is owed, but for a payment that was marked and is
\* about to be credited.
Unbooked(s) ==
    \E h \in Handlers : /\ At(h, "credit") /\ task[h].row.student = s
                        /\ debt[s] - task[h].row.total <= Owing(s)

DebtInv == \A s \in Students : debt[s] >= 0 /\ (debt[s] <= Owing(s) \/ Unbooked(s))

PaidInv ==
    \A p \in PaymentIds : payments[p].status = "paid" =>
        credits[p] >= 1 \/ \E h \in Handlers : At(h, "credit") /\ task[h].p = p

BooksInv(T) ==
    /\ NumbersInv /\ RowsInv(T) /\ JobInv /\ IncomeInv(T)
    /\ failures = 0 => DebtInv /\ PaidInv

-----------------------------------------------------------------------------
(* What is owed.                                                           *)

LEMMA OwedIs ==
    ASSUME NEW T, RowsInv(T), NEW s
    PROVE  /\ OwedOf(s) = {p \in Rows : payments[p].student = s /\ payments[p].status \in Owed}
           /\ IsFiniteSet(OwedOf(s)) /\ OwedOf(s) \subseteq PaymentIds
<1>1. OwedOf(s) = {p \in Rows : payments[p].student = s /\ payments[p].status \in Owed}
  BY DEF OwedOf, OwedBy, RowsOf, RowsInv, Complete
<1>2. OwedOf(s) \subseteq PaymentIds
  BY <1>1 DEF Rows
<1> QED
  BY <1>1, <1>2, PaymentsAssumption, FS_Subset

LEMMA TotalsAre ==
    ASSUME NEW T \in Nat, RowsInv(T) PROVE \A p \in Rows : Totals[p] \in Nat /\ Totals[p] = payments[p].total
BY DEF RowsInv, Complete, Rows, Totals

LEMMA OwingIsNat ==
    ASSUME NEW T \in Nat, RowsInv(T), NEW s PROVE Owing(s) \in Nat
<1>1. IsFiniteSet(OwedOf(s)) /\ OwedOf(s) \subseteq Rows
  BY OwedIs
<1>2. \A p \in OwedOf(s) : Totals[p] \in Nat
  BY <1>1, TotalsAre
<1> QED
  BY <1>1, <1>2, SumOverNat DEF Owing

\* Steps that change nothing the sum is made of.
SameOwed ==
    \A p \in PaymentIds :
        /\ payments'[p].total = payments[p].total /\ payments'[p].student = payments[p].student
        /\ payments'[p].tenant = payments[p].tenant
        /\ payments'[p].status \in Owed <=> payments[p].status \in Owed
        /\ payments'[p].status = "absent" <=> payments[p].status = "absent"

LEMMA OwingStays == ASSUME SameOwed, NEW s PROVE Owing(s)' = Owing(s)
<1>1. \A t : OwedBy(s, t)' = OwedBy(s, t)
  BY DEF SameOwed, OwedBy, RowsOf, Rows
<1>2. OwedOf(s)' = OwedOf(s)
  BY <1>1 DEF OwedOf
<1>3. Totals' = Totals
  BY DEF SameOwed, Totals
<1> QED
  BY <1>2, <1>3 DEF Owing

\* What the job sums for one tenant is part of what the student owes.
LEMMA SeenIsOwed ==
    ASSUME NEW T \in Nat, RowsInv(T), NEW s, NEW t \in Tenants
    PROVE  SumOf({<<p, payments[p].total>> : p \in OwedBy(s, t)}) \in 0 .. Owing(s)
<1> DEFINE A == OwedBy(s, t)
<1>1. A \subseteq OwedOf(s) /\ A \subseteq PaymentIds /\ A \subseteq Rows
  BY DEF OwedOf, OwedBy, RowsOf, Rows
<1>2. IsFiniteSet(OwedOf(s)) /\ IsFiniteSet(A)
  BY <1>1, OwedIs, FS_Subset
<1>3. \A p \in OwedOf(s) : Totals[p] \in Nat
  BY OwedIs, TotalsAre
<1>4. {<<p, payments[p].total>> : p \in A} = PairsOf(Totals, A)
  BY <1>1 DEF PairsOf, Totals
<1>5. \A p \in A : Totals[p] \in Int /\ Totals[p] \in Nat
  BY <1>1, <1>3
<1> HIDE DEF A
<1>6. PairSum(PairsOf(Totals, A)) = SumOver(Totals, A)
  BY <1>2, <1>5, PairSumOver
<1>7. SumOver(Totals, A) <= Owing(s)
  BY <1>1, <1>2, <1>3, SumOverGrows DEF Owing
<1>8. SumOver(Totals, A) \in Nat /\ Owing(s) \in Nat
  BY <1>2, <1>5, SumOverNat, OwingIsNat
<1>9. SumOf({<<p, payments[p].total>> : p \in A}) = SumOver(Totals, A)
  BY <1>4, <1>6 DEF SumOf, PairSum
<1> QED
  BY <1>7, <1>8, <1>9 DEF A

\* The sum of what a student owes is a number after a step, too.
LEMMA OwingIsNatNext ==
    ASSUME NEW T \in Nat, RowsInv(T)', NEW s
    PROVE  Owing(s)' \in Nat
<1> DEFINE B == OwedOf(s)'
           w == Totals'
<1>1. /\ B = {q \in Rows' : payments'[q].student = s /\ payments'[q].status \in Owed}
      /\ IsFiniteSet(B)
  <2>1. OwedOf(s)' = {q \in Rows' : payments'[q].student = s /\ payments'[q].status \in Owed}
    BY DEF OwedOf, OwedBy, RowsOf, RowsInv, Complete
  <2>2. B \subseteq PaymentIds
    BY <2>1 DEF Rows
  <2> QED
    BY <2>1, <2>2, PaymentsAssumption, FS_Subset
<1>2. \A q \in B : w[q] \in Nat
  <2>1. \A q \in Rows' : payments'[q].total \in Nat /\ q \in PaymentIds
    BY DEF RowsInv, Complete, Rows
  <2> QED
    BY <1>1, <2>1 DEF Totals
<1>3. Owing(s)' = SumOver(w, B)
  BY DEF Owing
<1> HIDE DEF B, w
<1> QED
  BY <1>1, <1>2, <1>3, SumOverNat

\* A payment that is added makes what is owed no smaller.
LEMMA OwingGrows ==
    ASSUME NEW T \in Nat, TypeOK, RowsInv(T), RowsInv(T)', NEW p \in PaymentIds \ Rows, NEW row,
           payments' = [payments EXCEPT ![p] = row], Rows' = Rows \cup {p}, NEW s
    PROVE  Owing(s) <= Owing(s)'
<1>0. payments \in [PaymentIds -> Row]
  BY DEF TypeOK
<1>1. \A q \in Rows : payments'[q] = payments[q] /\ q \in PaymentIds
  BY <1>0 DEF Rows
<1> DEFINE A == OwedOf(s)
           B == OwedOf(s)'
           w == Totals'
<1>2. /\ A = {q \in Rows : payments[q].student = s /\ payments[q].status \in Owed}
      /\ IsFiniteSet(A)
  BY OwedIs
<1>3. /\ B = {q \in Rows' : payments'[q].student = s /\ payments'[q].status \in Owed}
      /\ IsFiniteSet(B)
  <2>1. /\ OwedOf(s)' = {q \in Rows' : payments'[q].student = s /\ payments'[q].status \in Owed}
    BY DEF OwedOf, OwedBy, RowsOf, RowsInv, Complete
  <2>2. B \subseteq PaymentIds
    BY <2>1 DEF Rows
  <2> QED
    BY <2>1, <2>2, PaymentsAssumption, FS_Subset
<1>4. A \subseteq B
  BY <1>1, <1>2, <1>3
<1>5. \A q \in A : Totals[q] = w[q]
  BY <1>1, <1>2 DEF Totals
<1>6. \A q \in B : w[q] \in Nat
  <2>1. \A q \in Rows' : payments'[q].total \in Nat /\ q \in PaymentIds
    BY DEF RowsInv, Complete, Rows
  <2> QED
    BY <1>3, <2>1 DEF Totals
<1>7. Owing(s)' = SumOver(w, B) /\ Owing(s) = SumOver(Totals, A)
  BY DEF Owing
<1> HIDE DEF A, B, w
<1>8. SumOver(Totals, A) = SumOver(w, A)
  BY <1>2, <1>5, SumOverAgree
<1>9. SumOver(w, A) <= SumOver(w, B)
  BY <1>3, <1>4, <1>6, SumOverGrows
<1> QED
  BY <1>7, <1>8, <1>9

\* A payment that is marked as paid takes at most its total off what its student owes.
LEMMA OwingShrinks ==
    ASSUME NEW T \in Nat, TypeOK, RowsInv(T), NEW p \in Rows,
           payments' = [payments EXCEPT ![p].status = "paid"], NEW s
    PROVE  /\ s # payments[p].student => Owing(s)' = Owing(s)
           /\ s = payments[p].student => Owing(s) <= Owing(s)' + payments[p].total
<1>0. payments \in [PaymentIds -> Row] /\ p \in PaymentIds
  BY DEF TypeOK, Rows
<1>1. /\ \A q \in PaymentIds : /\ payments'[q].total = payments[q].total
                               /\ payments'[q].student = payments[q].student
                               /\ payments'[q].tenant = payments[q].tenant
                               /\ q # p => payments'[q].status = payments[q].status
      /\ payments'[p].status = "paid" /\ payments[p].status # "absent"
  BY <1>0 DEF Row, Rows
<1>2. Totals' = Totals
  BY <1>1 DEF Totals
<1>3. \A t : OwedBy(s, t)' = OwedBy(s, t) \ {p}
  BY <1>1 DEF OwedBy, RowsOf, Rows, Owed
<1>4. OwedOf(s)' = OwedOf(s) \ {p}
  BY <1>3 DEF OwedOf
<1>5. Owing(s)' = SumOver(Totals, OwedOf(s) \ {p})
  BY <1>2, <1>4 DEF Owing
<1> DEFINE A == OwedOf(s)
           B == A \ {p}
<1>6. /\ A = {q \in Rows : payments[q].student = s /\ payments[q].status \in Owed}
      /\ IsFiniteSet(A) /\ IsFiniteSet(B)
  BY OwedIs, FS_Subset
<1>7. \A q \in A : Totals[q] \in Nat
  BY <1>6, TotalsAre
<1>8. CASE p \notin A
  <2>1. B = A
    BY <1>8
  <2>2. Owing(s)' = Owing(s)
    BY <1>5, <2>1 DEF Owing
  <2>3. payments[p].total \in Nat /\ Owing(s) \in Nat
    BY OwingIsNat DEF RowsInv, Complete
  <2> QED
    BY <2>2, <2>3
<1>9. CASE p \in A
  <2>1. A = B \cup {p} /\ p \notin B /\ payments[p].student = s
    BY <1>6, <1>9
  <2>2. \A q \in B \cup {p} : Totals[q] \in Int
    BY <1>7, <2>1
  <2>3. SumOver(Totals, B) \in Nat /\ Totals[p] = payments[p].total /\ Totals[p] \in Nat
    <3>1. \A q \in B : Totals[q] \in Nat
      BY <1>7
    <3> HIDE DEF A, B
    <3> QED
      BY <1>0, <1>6, <1>7, <1>9, <3>1, SumOverNat DEF Totals
  <2>4. Owing(s) = SumOver(Totals, A) /\ Owing(s)' = SumOver(Totals, B)
    BY <1>5 DEF Owing
  <2> HIDE DEF A, B
  <2>5. SumOver(Totals, A) = SumOver(Totals, B) + Totals[p]
    BY <1>6, <2>1, <2>2, SumOverAdd
  <2> QED
    BY <2>1, <2>3, <2>4, <2>5
<1> QED
  BY <1>8, <1>9

-----------------------------------------------------------------------------
(* The steps that such requests take.                                      *)

PlainStep(h) ==
    \/ CreateCount(h) \/ PayFind(h) \/ RefundFind(h)
    \/ CreateSave(h) \/ CreateInvoice(h)
    \/ PayMark(h) \/ PayCredit(h) \/ PayInvoice(h) \/ RefundMark(h)
    \/ HandlerFails(h)

Around == Job \/ JobFails \/ (\E p \in PaymentIds : DueDatePasses(p))
              \/ (\E c \in Codes : CodeExpires(c)) \/ UNCHANGED vars

LEMMA PlainNext ==
    ASSUME NEW T, Plain(T), RowsInv(T), [Next]_vars
    PROVE  (\E h \in Handlers : PlainStep(h)) \/ Around
<1>1. \A h \in Handlers : ~DiscountFind(h) /\ ~UpdateFind(h)
  BY DEF Plain, DiscountFind, UpdateFind, Arrives
<1>2. ASSUME NEW h \in Handlers PROVE ~DiscountLoad(h) /\ ~DiscountTotal(h) /\ ~DiscountCount(h)
                                      /\ ~UpdateWrite(h)
  <2>1. task[h].at \in PlainSteps
    BY DEF RowsInv, HandlerSound
  <2> QED
    BY <2>1 DEF PlainSteps, DiscountLoad, DiscountTotal, DiscountCount, UpdateWrite, At
<1>3. ASSUME NEW h \in Handlers, Request(h) \/ Proceed(h) \/ HandlerFails(h) PROVE PlainStep(h)
  BY <1>1, <1>2, <1>3 DEF Request, Proceed, PlainStep
<1> QED
  BY <1>3 DEF Next, Around

\* What a step leaves a handler with.
HandlerMoves(g) ==
    \/ task'[g] = task[g]
    \/ task'[g].at \in {"idle", "invoice", "settleInvoice"}
    \/ CreateCount(g) \/ PayFind(g) \/ RefundFind(g)
    \/ PayMark(g) /\ task'[g] = [task[g] EXCEPT !.at = "credit"]

LEMMA HandlersMove ==
    ASSUME NEW T, Plain(T), TypeOK, SaveNumbered, RowsInv(T), [Next]_vars, NEW g \in Handlers
    PROVE  /\ HandlerMoves(g)
           /\ At(g, "credit") => task'[g] = task[g] \/ PayCredit(g) \/ HandlerFails(g)
<1>0. task \in [Handlers -> Task]
  BY DEF TypeOK
<1>1. CASE task' = task
  BY <1>1 DEF HandlerMoves
<1>2. CASE Around
  BY <1>1, <1>2 DEF Around, Job, JobFails, JobFind, JobMark, JobSum, JobDebt, DueDatePasses,
     CodeExpires, vars
<1>3. ASSUME NEW h \in Handlers, PlainStep(h), h # g PROVE task'[g] = task[g]
  BY <1>3, Others DEF PlainStep, Request, Proceed
<1>4. ASSUME PlainStep(g) PROVE HandlerMoves(g)
  <2>1. CASE Finish(g)
    BY <1>0, <2>1 DEF Finish, Idle, HandlerMoves
  <2>2. CASE CreateSave(g)
    BY <2>2, RowSaved DEF HandlerMoves
  <2>3. CASE PayMark(g)
    BY <1>0, <2>3 DEF PayMark, Goto, HandlerMoves
  <2>4. CASE PayCredit(g)
    <3>1. Finish(g) \/ Goto(g, "settleInvoice")
      BY <2>4 DEF PayCredit
    <3>2. ASSUME Goto(g, "settleInvoice") PROVE task'[g].at = "settleInvoice"
      <4>1. task'[g] = [task[g] EXCEPT !.at = "settleInvoice"]
        BY <1>0, <3>2 DEF Goto
      <4> QED
        BY <1>0, <4>1 DEF Task
    <3> QED
      BY <2>1, <3>1, <3>2 DEF HandlerMoves
  <2>5. CASE CreateCount(g) \/ PayFind(g) \/ RefundFind(g)
    BY <2>5 DEF HandlerMoves
  <2> QED
    BY <1>4, <2>1, <2>2, <2>3, <2>4, <2>5 DEF PlainStep, CreateInvoice, PayInvoice, RefundMark,
       HandlerFails
<1>5. ASSUME PlainStep(g), At(g, "credit") PROVE PayCredit(g) \/ HandlerFails(g)
  BY <1>5 DEF PlainStep, CreateCount, PayFind, RefundFind, CreateSave, CreateInvoice, PayMark,
     PayInvoice, RefundMark, Arrives, Busy, At
<1> QED
  BY <1>2, <1>3, <1>4, <1>5, PlainNext DEF HandlerMoves

\* Totals, students and tenants are written once.
LEMMA TotalsStand ==
    ASSUME NEW T, Plain(T), TypeOK, PresentAtWork, SaveNumbered, RowsInv(T), [Next]_vars
    PROVE  \A p \in Rows : /\ payments'[p].total = payments[p].total
                           /\ payments'[p].student = payments[p].student
                           /\ payments'[p].tenant = payments[p].tenant
<1> DEFINE Same == \A p \in Rows : /\ payments'[p].total = payments[p].total
                                   /\ payments'[p].student = payments[p].student
                                   /\ payments'[p].tenant = payments[p].tenant
<1>0. payments \in [PaymentIds -> Row] /\ Rows \subseteq PaymentIds
  BY DEF TypeOK, Rows
<1>1. ASSUME payments' = payments PROVE Same
  BY <1>1
<1>2. ASSUME NEW q \in PaymentIds, NEW new, payments' = [payments EXCEPT ![q].status = new]
      PROVE  Same
  BY <1>0, <1>2 DEF Row
<1>3. ASSUME NEW h \in Handlers, CreateSave(h) PROVE Same
  <2>1. PICK p \in PaymentIds \ Rows : payments' = [payments EXCEPT ![p] = task[h].row]
    BY <1>3, RowSaved
  <2> QED
    BY <1>0, <2>1
<1>4. ASSUME NEW h \in Handlers, PayMark(h) \/ RefundMark(h) PROVE Same
  <2>1. task[h].p \in PaymentIds
    BY <1>4 DEF TypeOK, Task, PayMark, RefundMark, At, WithPayment
  <2> QED
    BY <1>2, <1>4, <2>1 DEF PayMark, RefundMark
<1>5. ASSUME NEW h \in Handlers, PlainStep(h), ~CreateSave(h), ~PayMark(h), ~RefundMark(h)
      PROVE  Same
  BY <1>1, <1>5 DEF PlainStep, CreateCount, PayFind, RefundFind, CreateInvoice, PayCredit,
     PayInvoice, HandlerFails, tables
<1>6. CASE JobMark
  <2>1. PICK target \in job.todo : payments' = [payments EXCEPT ![target.p].status = "overdue"]
    BY <1>6 DEF JobMark
  <2>2. target.p \in PaymentIds
    BY DEF TypeOK, Target
  <2> QED
    BY <1>2, <2>1, <2>2
<1>7. ASSUME NEW q \in PaymentIds, DueDatePasses(q) PROVE Same
  BY <1>0, <1>7 DEF DueDatePasses, Row
<1>8. CASE Around
  BY <1>1, <1>6, <1>7, <1>8 DEF Around, Job, JobFails, JobFind, JobSum, JobDebt, CodeExpires,
     vars, tables
<1> QED
  BY <1>3, <1>4, <1>5, <1>8, PlainNext

\* Only these change what is owed.
LEMMA OwedMoves ==
    ASSUME NEW T, Plain(T), Serial, TypeOK', PresentAtWork, SaveNumbered, RowsInv(T), JobInv,
           [Next]_vars
    PROVE  (\E h \in Handlers : CreateSave(h) \/ PayMark(h)) \/ SameOwed
<1>0. payments \in [PaymentIds -> Row] /\ TypeOK /\ Rows \subseteq PaymentIds
  BY DEF Serial, TypeOK, Rows
<1> SUFFICES ASSUME ~ \E h \in Handlers : CreateSave(h) \/ PayMark(h) PROVE SameOwed
  OBVIOUS
<1>1. \A p \in PaymentIds : Kept(p)
  BY <1>0, RowsMove
<1>2. ASSUME NEW p \in PaymentIds PROVE /\ payments'[p].total = payments[p].total
                                        /\ payments'[p].student = payments[p].student
  <2>1. CASE p \in Rows
    BY <1>0, <2>1, TotalsStand
  <2>2. CASE p \notin Rows
    <3> DEFINE Same == payments'[p].total = payments[p].total /\ payments'[p].student = payments[p].student
    <3>1. ASSUME payments' = payments \/ payments'[p] = payments[p] PROVE Same
      BY <3>1
    <3>2. ASSUME NEW q \in Rows, NEW new, payments' = [payments EXCEPT ![q].status = new] PROVE Same
      BY <1>0, <2>2, <3>2
    <3>3. ASSUME NEW h \in Handlers, RefundMark(h) PROVE Same
      <4>1. task[h].p \in Rows
        BY <3>3 DEF PresentAtWork, RefundMark, At, WithPayment
      <4> QED
        BY <3>2, <3>3, <4>1 DEF RefundMark
    <3>4. CASE JobMark
      <4>1. PICK target \in job.todo : payments' = [payments EXCEPT ![target.p].status = "overdue"]
        BY <3>4 DEF JobMark
      <4>2. target.p \in Rows
        BY DEF PresentAtWork
      <4> QED
        BY <3>2, <4>1, <4>2
    <3>5. ASSUME NEW q \in PaymentIds, DueDatePasses(q) PROVE Same
      BY <1>0, <2>2, <3>5 DEF DueDatePasses
    <3>6. ASSUME NEW h \in Handlers, PlainStep(h) PROVE Same
      BY <3>1, <3>3, <3>6 DEF PlainStep, CreateCount, PayFind, RefundFind, CreateInvoice, PayCredit,
         PayInvoice, HandlerFails, tables
    <3>7. CASE Around
      BY <3>1, <3>4, <3>5, <3>7 DEF Around, Job, JobFails, JobFind, JobSum, JobDebt, CodeExpires,
         vars, tables
    <3> QED
      BY <3>6, <3>7, PlainNext
  <2> QED
    BY <2>1, <2>2
<1>3. ASSUME NEW p \in PaymentIds PROVE payments'[p].status \in Owed <=> payments[p].status \in Owed
  <2>1. CASE payments'[p].status = payments[p].status
    BY <2>1
  <2>2. ASSUME NEW h \in Handlers, RefundMark(h), p = task[h].p
        PROVE  payments'[p].status \notin Owed /\ payments[p].status \notin Owed
    <3>1. payments[p].status = "paid"
      BY <2>2 DEF RowsInv, HandlerSound, RefundMark
    <3>2. payments'[p].status = "refunded"
      BY <1>0, <2>2 DEF RefundMark, Row
    <3> QED
      BY <3>1, <3>2 DEF Owed
  <2>3. ASSUME NEW h \in Handlers, RefundMark(h), p # task[h].p
        PROVE  payments'[p].status = payments[p].status
    BY <1>0, <2>3 DEF RefundMark
  <2>4. ASSUME JobMark PROVE payments'[p].status \in Owed <=> payments[p].status \in Owed
    <3>1. PICK target \in job.todo : payments' = [payments EXCEPT ![target.p].status = "overdue"]
      BY <2>4 DEF JobMark
    <3>2. payments[target.p].status \in Owed
      BY DEF JobInv
    <3>3. CASE p = target.p
      <4>1. payments'[p].status = "overdue"
        BY <1>0, <3>1, <3>3 DEF Row
      <4> QED
        BY <3>2, <3>3, <4>1 DEF Owed
    <3>4. CASE p # target.p
      BY <1>0, <3>1, <3>4
    <3> QED
      BY <3>3, <3>4
  <2>5. ASSUME NEW h \in Handlers, PayCredit(h) PROVE payments'[p].status = payments[p].status
    BY <2>5 DEF PayCredit
  <2> QED
    BY <1>0, <2>1, <2>2, <2>3, <2>4, <2>5, StatusMoves
<1> QED
  BY <1>1, <1>2, <1>3 DEF SameOwed, Kept

-----------------------------------------------------------------------------
(* What requests and the job hold.                                         *)

\* Under exclusion the status of a payment that is to be refunded stands.
LEMMA RefundStands ==
    ASSUME Serial, TypeOK', [Next]_vars, NEW g \in Handlers, At(g, "markRefunded"), task'[g] = task[g]
    PROVE  \A p \in PaymentIds : payments'[p].status = payments[p].status
<1>0. TypeOK /\ Exclusive /\ Busy(g)
  BY DEF Serial, At, Busy
<1>1. ~JobMark /\ \A h \in Handlers : ~PayMark(h) /\ ~PayCredit(h) /\ ~CreateSave(h)
  BY <1>0, Alone DEF JobMark, PayMark, PayCredit, CreateSave, At
<1>2. \A h \in Handlers : ~RefundMark(h)
  <2>1. ASSUME RefundMark(g) PROVE FALSE
    BY <1>0, <2>1 DEF RefundMark, Finish, TypeOK, Idle, At
  <2> QED
    BY <1>0, <2>1, Alone
<1> QED
  BY <1>0, <1>1, <1>2, StatusMoves

LEMMA RowsStep ==
    ASSUME NEW T, Plain(T), NumbersInv, NumbersInv', RowsInv(T), [Next]_vars PROVE RowsInv(T)'
<1>0. /\ Serial /\ TypeOK /\ TypeOK' /\ PresentAtWork /\ SaveNumbered
      /\ task \in [Handlers -> Task] /\ payments \in [PaymentIds -> Row]
  BY DEF NumbersInv, Serial, TypeOK
<1>1. ASSUME NEW p \in Rows' PROVE Complete(payments'[p], T)
  <2>1. CASE p \in Rows
    BY <1>0, <2>1, TotalsStand DEF RowsInv, Complete
  <2>2. CASE p \notin Rows
    <3>1. PICK h \in Handlers : CreateSave(h)
      BY <1>0, <2>2, RowsMove DEF Rows, Kept
    <3>2. PICK q \in PaymentIds \ Rows :
            payments' = [payments EXCEPT ![q] = task[h].row] /\ Rows' = Rows \cup {q}
      BY <1>0, <3>1, RowSaved
    <3>3. p = q /\ payments'[p] = task[h].row
      BY <1>0, <2>2, <3>2
    <3> QED
      BY <3>1, <3>3 DEF RowsInv, HandlerSound, CreateSave
  <2> QED
    BY <2>1, <2>2
<1>2. ASSUME NEW g \in Handlers PROVE HandlerSound(g, T)'
  <2>1. HandlerSound(g, T) /\ HandlerMoves(g)
    BY <1>0, HandlersMove DEF RowsInv
  <2>2. CASE task'[g] = task[g]
    <3>1. ASSUME Pays(g) \/ At(g, "markRefunded") PROVE task[g].p \in Rows /\ task[g].p \in PaymentIds
      BY <1>0, <3>1 DEF PresentAtWork, Pays, At, WithPayment, Rows
    <3>2. ASSUME Pays(g)
          PROVE  /\ payments'[task[g].p].total = payments[task[g].p].total
                 /\ payments'[task[g].p].student = payments[task[g].p].student
      BY <1>0, <3>1, <3>2, TotalsStand
    <3>3. ASSUME At(g, "markRefunded") PROVE payments'[task[g].p].status = payments[task[g].p].status
      BY <1>0, <2>2, <3>1, <3>3, RefundStands
    <3> QED
      BY <2>1, <2>2, <3>2, <3>3 DEF HandlerSound, Pays, At
  <2>3. CASE task'[g].at \in {"idle", "invoice", "settleInvoice"}
    BY <2>3 DEF HandlerSound, Pays, At, PlainSteps
  <2>4. CASE CreateCount(g)
    <3>1. PICK t \in Tenants, s \in Students, a \in Amounts, d \in Percents, x \in Percents,
               due \in BOOLEAN :
            task' = [task EXCEPT ![g] = [at |-> "save", p |-> None, code |-> None,
                       row |-> NewRow(t, s, NextNumber(t), a, d, x, due)]]
      BY <2>4 DEF CreateCount
    <3>2. task'[g].at = "save" /\ task'[g].row = NewRow(t, s, NextNumber(t), a, d, x, due)
      BY <1>0, <3>1
    <3>3. Complete(NewRow(t, s, NextNumber(t), a, d, x, due), T)
      BY DEF Complete, NewRow, Plain
    <3> QED
      BY <3>2, <3>3 DEF HandlerSound, Pays, At, PlainSteps
  <2>5. CASE PayFind(g)
    <3>1. PICK p \in Rows : task' = [task EXCEPT ![g] =
                       [at |-> "markPaid", p |-> p, code |-> None, row |-> payments[p]]]
      BY <2>5 DEF PayFind
    <3>2. task'[g].at = "markPaid" /\ task'[g].p = p /\ task'[g].row = payments[p]
          /\ payments' = payments
      BY <1>0, <2>5, <3>1 DEF PayFind, tables
    <3>3. Complete(payments[p], T)
      BY DEF RowsInv
    <3> QED
      BY <3>2, <3>3 DEF HandlerSound, Pays, At, PlainSteps
  <2>6. CASE RefundFind(g)
    <3>1. PICK p \in Rows :
            /\ payments[p].status = "paid"
            /\ task' = [task EXCEPT ![g] =
                          [at |-> "markRefunded", p |-> p, code |-> None, row |-> payments[p]]]
      BY <2>6 DEF RefundFind
    <3>2. task'[g].at = "markRefunded" /\ task'[g].p = p /\ payments' = payments
      BY <1>0, <2>6, <3>1 DEF RefundFind, tables
    <3> QED
      BY <3>1, <3>2 DEF HandlerSound, Pays, At, PlainSteps
  <2>7. CASE PayMark(g) /\ task'[g] = [task[g] EXCEPT !.at = "credit"]
    <3>1. task'[g].at = "credit" /\ task'[g].p = task[g].p /\ task'[g].row = task[g].row
      BY <1>0, <2>7 DEF Task
    <3>2. Pays(g) /\ task[g].p \in Rows
      BY <1>0, <2>7 DEF PayMark, Pays, PresentAtWork, At, WithPayment
    <3>3. /\ payments'[task[g].p].total = payments[task[g].p].total
          /\ payments'[task[g].p].student = payments[task[g].p].student
      BY <1>0, <3>2, TotalsStand
    <3> QED
      BY <2>1, <3>1, <3>2, <3>3 DEF HandlerSound, Pays, At, PlainSteps
  <2> QED
    BY <2>1, <2>2, <2>3, <2>4, <2>5, <2>6, <2>7 DEF HandlerMoves
<1> QED
  BY <1>1, <1>2 DEF RowsInv

LEMMA JobBooksStep ==
    ASSUME NEW T, Plain(T), NumbersInv, NumbersInv', RowsInv(T), RowsInv(T)', JobInv, [Next]_vars
    PROVE  JobInv'
<1>0. /\ Serial /\ TypeOK /\ TypeOK' /\ PresentAtWork /\ SaveNumbered /\ Exclusive
      /\ (job.at = "idle" => job.todo = {})
      /\ job \in [at : {"idle", "mark", "sum", "debt"}, todo : SUBSET Target,
                  cur : SUBSET Target, seen : SUBSET (PaymentIds \X Int)]
      /\ T \in Nat
  BY DEF NumbersInv, Serial, TypeOK, Plain
<1>1. ASSUME job.at # "idle" PROVE SameOwed
  <2>1. \A h \in Handlers : ~CreateSave(h) /\ ~PayMark(h)
    BY <1>0, <1>1 DEF Exclusive, Busy, CreateSave, PayMark, At
  <2> QED
    BY <1>0, <2>1, OwedMoves
<1>2. ASSUME job.at # "idle", NEW target \in job.todo PROVE payments'[target.p].status \in Owed
  <2>1. target.p \in PaymentIds /\ payments[target.p].status \in Owed
    BY <1>0 DEF Target, JobInv
  <2> QED
    BY <1>1, <1>2, <2>1 DEF SameOwed
<1>3. CASE job' = job
  <2>1. \A target \in job'.todo : payments'[target.p].status \in Owed
    <3>1. CASE job.at = "idle"
      BY <1>0, <1>3, <3>1
    <3>2. CASE job.at # "idle"
      BY <1>2, <1>3, <3>2
    <3> QED
      BY <3>1, <3>2
  <2>2. ASSUME job.at = "debt", NEW target \in job.cur
        PROVE  SumOf(job.seen) \in 0 .. Owing(target.student)'
    <3>1. PICK s : s = target.student
      OBVIOUS
    <3>2. Owing(s)' = Owing(s)
      BY <1>1, <2>2, OwingStays
    <3>3. SumOf(job.seen) \in 0 .. Owing(s)
      BY <2>2, <3>1 DEF JobInv
    <3>4. Owing(target.student)' = Owing(s)'
      BY <3>1
    <3> QED
      BY <3>2, <3>3, <3>4
  <2>3. /\ \A target \in job'.todo \cup job'.cur :
             target.tenant \in Tenants /\ target.student \in Students
        /\ \A target, other \in job'.cur : target = other
    BY <1>3 DEF JobInv
  <2>4. SumOf(job.seen)' = SumOf(job.seen)
    BY <1>3
  <2>5. job'.at = "debt" => \A target \in job'.cur : SumOf(job'.seen) \in 0 .. Owing(target.student)'
    BY <1>3, <2>2
  <2> QED
    BY <2>1, <2>3, <2>5 DEF JobInv
<1>4. CASE job' = JobIdle
  BY <1>4 DEF JobIdle, JobInv
<1>5. CASE JobFind
  <2> DEFINE due == {p \in PaymentIds : Overdue(p)}
             todo == {[p |-> p, tenant |-> payments[p].tenant,
                       student |-> payments[p].student] : p \in due}
  <2>1. job' = [JobIdle EXCEPT !.at = "mark", !.todo = todo] /\ payments' = payments
    BY <1>5 DEF JobFind, tables
  <2>2. ASSUME NEW t \in todo
        PROVE  /\ t.tenant \in Tenants /\ t.student \in Students
               /\ payments[t.p].status \in Owed
    <3>1. PICK p \in due : t = [p |-> p, tenant |-> payments[p].tenant,
                                student |-> payments[p].student]
      BY <2>2
    <3>2. p \in Rows /\ payments[p].status = "pending"
      BY DEF Overdue
    <3> QED
      BY <3>1, <3>2 DEF RowsInv, Complete, Owed
  <2> HIDE DEF todo
  <2>3. job'.at = "mark" /\ job'.todo = todo /\ job'.cur = {}
    BY <2>1 DEF JobIdle
  <2> QED
    BY <2>1, <2>2, <2>3 DEF JobInv
<1>6. CASE JobMark
  <2>1. PICK target \in job.todo :
          job' = [job EXCEPT !.at = "sum", !.todo = @ \ {target}, !.cur = {target}]
    BY <1>6 DEF JobMark
  <2>2. job'.at = "sum" /\ job'.todo = job.todo \ {target} /\ job'.cur = {target}
    BY <1>0, <2>1
  <2>3. \A t \in job'.todo : payments'[t.p].status \in Owed
    BY <1>2, <1>6, <2>2 DEF JobMark
  <2>4. \A t \in job'.todo \cup job'.cur : t.tenant \in Tenants /\ t.student \in Students
    BY <2>2 DEF JobInv
  <2> QED
    BY <2>2, <2>3, <2>4 DEF JobInv
<1>7. CASE JobSum
  <2>1. PICK target \in job.cur :
          job' = [job EXCEPT !.at = "debt", !.seen =
            {<<p, payments[p].total>> : p \in OwedBy(target.student, target.tenant)}]
    BY <1>7 DEF JobSum
  <2> DEFINE seen == {<<p, payments[p].total>> : p \in OwedBy(target.student, target.tenant)}
  <2>2. job'.todo = job.todo /\ job'.cur = job.cur /\ job'.seen = seen
    BY <1>0, <2>1
  <2>3. target.tenant \in Tenants
    BY DEF JobInv
  <2>4. PICK s : s = target.student
    OBVIOUS
  <2>5. SumOf(seen) \in 0 .. Owing(s)
    BY <1>0, <2>3, <2>4, SeenIsOwed
  <2>6. Owing(s)' = Owing(s)
    BY <1>1, <1>7, OwingStays DEF JobSum
  <2> HIDE DEF seen
  <2>7. \A t \in job'.cur : t.student = s
    BY <2>2, <2>4 DEF JobInv
  <2>8. SumOf(job'.seen) \in 0 .. Owing(s)'
    BY <2>2, <2>5, <2>6
  <2>9. \A t \in job'.cur : SumOf(job'.seen) \in 0 .. Owing(t.student)'
    <3>1. ASSUME NEW t \in job'.cur PROVE Owing(t.student)' = Owing(s)'
      BY <2>7, <3>1
    <3> QED
      BY <2>8, <3>1
  <2>10. \A t \in job'.todo : payments'[t.p].status \in Owed
    BY <1>2, <1>7, <2>2 DEF JobSum
  <2>11. /\ \A t \in job'.todo \cup job'.cur : t.tenant \in Tenants /\ t.student \in Students
         /\ \A t, other \in job'.cur : t = other
    BY <2>2 DEF JobInv
  <2> QED
    BY <2>9, <2>10, <2>11 DEF JobInv
<1>8. CASE JobDebt /\ job' = [job EXCEPT !.at = "mark", !.cur = {}, !.seen = {}]
  <2>1. job'.at = "mark" /\ job'.todo = job.todo /\ job'.cur = {}
    BY <1>0, <1>8
  <2>2. \A t \in job'.todo : payments'[t.p].status \in Owed
    BY <1>2, <1>8, <2>1 DEF JobDebt
  <2>3. \A t \in job'.todo \cup job'.cur : t.tenant \in Tenants /\ t.student \in Students
    BY <2>1 DEF JobInv
  <2> QED
    BY <2>1, <2>2, <2>3 DEF JobInv
<1>9. JobDebt => job' = JobIdle \/ job' = [job EXCEPT !.at = "mark", !.cur = {}, !.seen = {}]
  BY DEF JobDebt
<1> QED
  BY <1>3, <1>4, <1>5, <1>6, <1>7, <1>8, <1>9, JobMoves DEF Job

-----------------------------------------------------------------------------
(* The income of a student stays within its column.                        *)

LEMMA RoomIs ==
    ASSUME NEW T \in Nat, NEW n \in Nat
    PROVE  /\ Room(T, n) \in Nat /\ Room(T, n + 1) = Room(T, n) + T
           /\ \A m \in Nat : n <= m => Room(T, n) <= Room(T, m)
<1>1. Room(T, n) \in Nat /\ Room(T, n + 1) = Room(T, n) + T
  BY DEF Room
<1>2. ASSUME NEW m \in Nat, n <= m PROVE Room(T, n) <= Room(T, m)
  <2>1. PICK d \in Nat : m = n + d
    <3>1. m - n \in Nat /\ m = n + (m - n)
      BY <1>2
    <3> QED
      BY <3>1
  <2>2. T * m = T * n + T * d /\ T * d \in Nat /\ T * n \in Nat
    BY <2>1
  <2> QED
    BY <2>2 DEF Room
<1> QED
  BY <1>1, <1>2

\* No credit is refused: the column is there, and both values fit.
LEMMA CreditFits ==
    ASSUME NEW T, Plain(T), TypeOK, RowsInv(T), IncomeInv(T), NEW h \in Handlers, PayCredit(h)
    PROVE  LET row == task[h].row IN
           /\ row.student \in Students /\ row.total \in 0 .. T
           /\ debt' = [debt EXCEPT ![row.student] = FloorAtZero(debt[row.student] - row.total)]
           /\ income' = [income EXCEPT ![row.student] = income[row.student] + row.total]
           /\ credits' = [credits EXCEPT ![task[h].p] = @ + 1]
<1> DEFINE row == task[h].row
           s == row.student
<1>1. At(h, "credit") /\ Pays(h) /\ s \in Students /\ row.total \in 0 .. T
  BY DEF PayCredit, Pays, RowsInv, HandlerSound, Complete
<1>2. /\ T \in Nat /\ MaxMoney \in Nat /\ MaxRequests \in Nat /\ arrived \in Nat
      /\ arrived <= MaxRequests /\ Room(T, MaxRequests) <= MaxMoney
  BY PaymentsAssumption DEF Plain, TypeOK, IncomeInv, Room
<1>3. debt[s] \in Money /\ income[s] \in Money
  BY <1>1 DEF TypeOK
<1>4. income[s] + T <= Room(T, arrived)
  BY <1>1 DEF IncomeInv
<1>5. Room(T, arrived) <= Room(T, MaxRequests) /\ Room(T, arrived) \in Nat
      /\ Room(T, MaxRequests) \in Nat
  BY <1>2, RoomIs
<1> HIDE DEF s, row
<1>6. income[s] + row.total \in Money
  BY <1>1, <1>2, <1>3, <1>4, <1>5 DEF Money
<1>7. FloorAtZero(debt[s] - row.total) \in Money
  BY <1>1, <1>2, <1>3 DEF Money, FloorAtZero
<1>8. HasIncomeColumn
  BY DEF Plain
<1> QED
  BY <1>1, <1>6, <1>7, <1>8 DEF PayCredit, s, row

LEMMA IncomeStep ==
    ASSUME NEW T, Plain(T), NumbersInv, TypeOK', RowsInv(T), IncomeInv(T), [Next]_vars
    PROVE  IncomeInv(T)'
<1>0. /\ TypeOK /\ SaveNumbered /\ Exclusive /\ task \in [Handlers -> Task]
      /\ T \in Nat /\ arrived \in Nat /\ arrived' \in Nat
      /\ MaxRequests \in Nat
  BY PaymentsAssumption DEF NumbersInv, Serial, TypeOK, Plain
<1>1. ASSUME NEW h \in Handlers, CreateCount(h) \/ PayFind(h) \/ RefundFind(h)
      PROVE  arrived' = arrived + 1 /\ arrived < MaxRequests /\ income' = income
  BY <1>1 DEF CreateCount, PayFind, RefundFind, Arrives, tables
<1>2. ASSUME NEW h \in Handlers, PlainStep(h), ~CreateCount(h), ~PayFind(h), ~RefundFind(h)
      PROVE  arrived' = arrived
  BY <1>2 DEF PlainStep, CreateSave, CreateInvoice, PayMark, PayCredit, PayInvoice, RefundMark,
     HandlerFails
<1>3. Around => arrived' = arrived /\ income' = income
  BY DEF Around, Job, JobFind, JobMark, JobSum, JobDebt, JobFails, DueDatePasses, CodeExpires,
     vars, tables
<1>4. /\ arrived <= arrived' /\ arrived' <= MaxRequests
      /\ Room(T, arrived) <= Room(T, arrived')
  <2>1. arrived <= arrived' /\ arrived' <= MaxRequests
    BY <1>0, <1>1, <1>2, <1>3, PlainNext DEF IncomeInv
  <2> QED
    BY <1>0, <2>1, RoomIs
<1>5. Room(T, arrived) \in Nat /\ Room(T, arrived') \in Nat /\ Room(T, arrived + 1) = Room(T, arrived) + T
  BY <1>0, RoomIs
<1>6. ASSUME NEW s \in Students
      PROVE  /\ income'[s] <= Room(T, arrived')
             /\ \A g \in Handlers : Pays(g)' => income'[s] + T <= Room(T, arrived')
  <2>0. /\ income[s] \in Int /\ income[s] <= Room(T, arrived)
        /\ \A h \in Handlers : Pays(h) => income[s] + T <= Room(T, arrived)
    BY <1>0 DEF TypeOK, Money, IncomeInv
  <2>1. ASSUME NEW h \in Handlers, PayCredit(h)
        PROVE  /\ income'[s] <= Room(T, arrived')
               /\ \A g \in Handlers : ~Pays(g)'
    <3> DEFINE row == task[h].row
    <3>1. /\ Pays(h) /\ Busy(h) /\ row.total \in 0 .. T
          /\ income' = [income EXCEPT ![row.student] = income[row.student] + row.total]
      BY <1>0, <2>1, CreditFits DEF PayCredit, Pays, Busy, At
    <3>2. income[s] + T <= Room(T, arrived)
      BY <2>0, <3>1
    <3>3. income'[s] = income[s] \/ income'[s] = income[s] + row.total
      BY <1>0, <3>1 DEF TypeOK
    <3>4. income'[s] <= Room(T, arrived')
      BY <1>0, <1>4, <1>5, <2>0, <3>1, <3>2, <3>3
    <3>5. ASSUME NEW g \in Handlers PROVE ~Pays(g)'
      <4>1. CASE g = h
        <5>1. task'[h].at \in {"settleInvoice", "idle"}
          BY <1>0, <2>1 DEF PayCredit, Goto, Finish, Idle, Task
        <5> QED
          BY <4>1, <5>1 DEF Pays, At
      <4>2. CASE g # h
        <5>1. task'[g] = task[g] /\ ~Busy(g)
          BY <1>0, <2>1, <3>1, <4>2, Others DEF Proceed, Exclusive
        <5> QED
          BY <5>1 DEF Pays, At, Busy
      <4> QED
        BY <4>1, <4>2
    <3> QED
      BY <3>4, <3>5
  <2>2. ASSUME \A h \in Handlers : ~PayCredit(h) PROVE income' = income
    <3>1. ASSUME NEW h \in Handlers, PlainStep(h) PROVE income' = income
      BY <1>1, <2>2, <3>1 DEF PlainStep, CreateSave, CreateInvoice, PayMark, PayInvoice,
         RefundMark, HandlerFails, tables
    <3> QED
      BY <1>3, <3>1, PlainNext
  <2>3. ASSUME NEW g \in Handlers, Pays(g)' PROVE Pays(g) \/ PayFind(g)
    <3>1. HandlerMoves(g)
      BY <1>0, HandlersMove
    <3>2. CASE task'[g] = task[g]
      BY <2>3, <3>2 DEF Pays, At
    <3>3. CASE CreateCount(g) \/ RefundFind(g)
      <4>1. task'[g].at \in {"save", "markRefunded"}
        BY <1>0, <3>3 DEF CreateCount, RefundFind
      <4> QED
        BY <2>3, <4>1 DEF Pays, At
    <3>4. CASE task'[g].at \in {"idle", "invoice", "settleInvoice"}
      BY <2>3, <3>4 DEF Pays, At
    <3>5. CASE PayMark(g)
      BY <3>5 DEF PayMark, Pays
    <3> QED
      BY <3>1, <3>2, <3>3, <3>4, <3>5 DEF HandlerMoves
  <2>4. ASSUME income' = income, NEW g \in Handlers, Pays(g)'
        PROVE  income'[s] + T <= Room(T, arrived')
    <3>1. CASE Pays(g)
      BY <1>0, <1>4, <1>5, <2>0, <2>4, <3>1
    <3>2. CASE PayFind(g)
      <4>1. arrived' = arrived + 1
        BY <1>1, <3>2
      <4> QED
        BY <1>0, <1>5, <2>0, <2>4, <4>1
    <3> QED
      BY <2>3, <2>4, <3>1, <3>2
  <2>5. CASE income' = income
    BY <1>0, <1>4, <1>5, <2>0, <2>4, <2>5
  <2> QED
    BY <2>1, <2>2, <2>5
<1> QED
  BY <1>4, <1>6 DEF IncomeInv

-----------------------------------------------------------------------------
(* Debts and credits, as long as no statement fails.                       *)

\* A handler that is about to credit is the only one under way, and goes on to credit.
LEMMA CreditGoesOn ==
    ASSUME NEW T, Plain(T), NumbersInv, RowsInv(T), [Next]_vars, failures' = failures,
           NEW h \in Handlers, At(h, "credit")
    PROVE  /\ task'[h] = task[h] \/ PayCredit(h)
           /\ job.at = "idle"
           /\ \A g \in Handlers : PayMark(g) \/ PayCredit(g) \/ RefundMark(g) \/ CreateSave(g)
                => g = h
<1>1. TypeOK /\ SaveNumbered /\ Exclusive /\ Busy(h)
  BY DEF NumbersInv, Serial, Busy, At
<1>2. ~HandlerFails(h)
  BY <1>1 DEF HandlerFails, TypeOK
<1> QED
  BY <1>1, <1>2, HandlersMove, Alone

LEMMA PaidStep ==
    ASSUME NEW T, Plain(T), NumbersInv, TypeOK', RowsInv(T), IncomeInv(T), PaidInv,
           [Next]_vars, failures' = failures
    PROVE  PaidInv'
<1>0. /\ TypeOK /\ payments \in [PaymentIds -> Row] /\ task \in [Handlers -> Task]
      /\ credits \in [PaymentIds -> Nat] /\ SaveNumbered
  BY DEF NumbersInv, Serial, TypeOK
<1> SUFFICES ASSUME NEW p \in PaymentIds, payments'[p].status = "paid"
             PROVE  credits'[p] >= 1 \/ \E h \in Handlers : At(h, "credit")' /\ task'[h].p = p
  BY DEF PaidInv
<1> DEFINE Good == credits'[p] >= 1 \/ \E h \in Handlers : At(h, "credit")' /\ task'[h].p = p
<1>1. ASSUME NEW h \in Handlers, PayCredit(h) PROVE credits' = [credits EXCEPT ![task[h].p] = @ + 1]
  BY <1>0, <1>1, CreditFits
<1>2. credits'[p] >= credits[p]
  <2>1. ASSUME NEW h \in Handlers, PayCredit(h) PROVE credits'[p] >= credits[p]
    BY <1>0, <1>1, <2>1
  <2>2. ASSUME credits' = credits PROVE credits'[p] >= credits[p]
    BY <1>0, <2>2
  <2>3. \A h \in Handlers : PayMark(h) \/ RefundMark(h) \/ CreateSave(h) => credits' = credits
    BY DEF PayMark, RefundMark, CreateSave, history
  <2>4. JobMark => credits' = credits
    BY DEF JobMark, history
  <2> QED
    BY <1>0, <2>1, <2>2, <2>3, <2>4, StatusMoves
<1>3. CASE payments[p].status = "paid"
  <2>1. CASE credits[p] >= 1
    BY <1>0, <1>2, <2>1 DEF TypeOK
  <2>2. ASSUME NEW h \in Handlers, At(h, "credit"), task[h].p = p PROVE Good
    <3>1. CASE task'[h] = task[h]
      BY <2>2, <3>1 DEF At
    <3>2. CASE PayCredit(h)
      <4>1. credits'[p] = credits[p] + 1
        BY <1>0, <1>1, <2>2, <3>2
      <4> QED
        BY <1>0, <4>1
    <3> QED
      BY <2>2, <3>1, <3>2, CreditGoesOn
  <2> QED
    BY <1>3, <2>1, <2>2 DEF PaidInv
<1>4. CASE payments[p].status # "paid"
  <2>1. ASSUME NEW h \in Handlers, PayMark(h) PROVE Good
    <3>1. p = task[h].p
      BY <1>0, <1>4, <2>1 DEF PayMark
    <3>2. task'[h] = [task[h] EXCEPT !.at = "credit"]
      BY <1>0, <2>1 DEF PayMark, Goto
    <3>3. task'[h].at = "credit" /\ task'[h].p = p
      BY <1>0, <3>1, <3>2 DEF Task
    <3> QED
      BY <3>3 DEF At
  <2>2. ASSUME NEW h \in Handlers, PayCredit(h) \/ RefundMark(h) \/ CreateSave(h) PROVE FALSE
    <3>1. CASE PayCredit(h)
      BY <1>4, <3>1 DEF PayCredit
    <3>2. CASE RefundMark(h)
      <4>1. payments' = [payments EXCEPT ![task[h].p].status = "refunded"]
        BY <3>2 DEF RefundMark
      <4> QED
        BY <1>0, <1>4, <4>1 DEF Row
    <3>3. CASE CreateSave(h)
      <4>1. task[h].row.status = "pending"
        BY <1>0, <3>3 DEF SaveNumbered, SavesNext, CreateSave
      <4>2. PICK q \in PaymentIds \ Rows : payments' = [payments EXCEPT ![q] = task[h].row]
        BY <1>0, <3>3, RowSaved
      <4> QED
        BY <1>0, <1>4, <4>1, <4>2
    <3> QED
      BY <2>2, <3>1, <3>2, <3>3
  <2>3. ~JobMark
    <3>1. ASSUME JobMark PROVE FALSE
      <4>1. PICK target \in job.todo : payments' = [payments EXCEPT ![target.p].status = "overdue"]
        BY <3>1 DEF JobMark
      <4> QED
        BY <1>0, <1>4, <4>1 DEF Row
    <3> QED
      BY <3>1
  <2> QED
    BY <1>0, <1>4, <2>1, <2>2, <2>3, StatusMoves
<1> QED
  BY <1>3, <1>4

\* Only pay() and the job write the debt of a student.
LEMMA DebtMoves ==
    ASSUME NEW T, Plain(T), RowsInv(T), [Next]_vars
    PROVE  debt' = debt \/ JobDebt \/ \E h \in Handlers : PayCredit(h)
<1>1. ASSUME NEW h \in Handlers, PlainStep(h), ~PayCredit(h) PROVE debt' = debt
  BY <1>1 DEF PlainStep, CreateCount, PayFind, RefundFind, CreateSave, CreateInvoice, PayMark,
     PayInvoice, RefundMark, HandlerFails, tables
<1>2. Around /\ ~JobDebt => debt' = debt
  BY DEF Around, Job, JobFind, JobMark, JobSum, JobFails, DueDatePasses, CodeExpires, vars, tables
<1> QED
  BY <1>1, <1>2, PlainNext

LEMMA DebtStep ==
    ASSUME NEW T, Plain(T), NumbersInv, NumbersInv', RowsInv(T), RowsInv(T)', JobInv,
           IncomeInv(T), DebtInv, [Next]_vars, failures' = failures
    PROVE  DebtInv'
<1>0. /\ Serial /\ TypeOK /\ TypeOK' /\ PresentAtWork /\ SaveNumbered /\ T \in Nat
      /\ task \in [Handlers -> Task] /\ debt \in [Students -> Money] /\ debt' \in [Students -> Money]
      /\ Money \subseteq Int /\ Exclusive
  BY PaymentsAssumption DEF NumbersInv, Serial, TypeOK, Plain, Money
<1> SUFFICES ASSUME NEW s \in Students
             PROVE  debt'[s] >= 0 /\ (debt'[s] <= Owing(s)' \/ Unbooked(s)')
  BY DEF DebtInv
<1> DEFINE Good == debt'[s] >= 0 /\ (debt'[s] <= Owing(s)' \/ Unbooked(s)')
<1>1. /\ debt[s] \in Int /\ debt'[s] \in Int /\ debt[s] >= 0
      /\ debt[s] <= Owing(s) \/ Unbooked(s)
  BY <1>0 DEF DebtInv
<1>2. Owing(s) \in Nat /\ Owing(s)' \in Nat
  <2>1. Owing(s) \in Nat
    BY <1>0, OwingIsNat
  <2>2. Owing(s)' \in Nat
    BY <1>0, OwingIsNatNext
  <2> QED
    BY <1>0, <2>1, <2>2
<1>3. CASE \E h \in Handlers : PayCredit(h)
  <2>1. PICK h \in Handlers : PayCredit(h)
    BY <1>3
  <2>2. At(h, "credit")
    BY <2>1 DEF PayCredit
  <2>3. \A g \in Handlers : ~CreateSave(g) /\ ~PayMark(g)
    BY <2>1, <2>2, CreditGoesOn DEF PayCredit, CreateSave, PayMark, At
  <2>4. Owing(s)' = Owing(s)
    BY <1>0, <2>3, OwedMoves, OwingStays
  <2> DEFINE row == task[h].row
  <2>5. /\ row.student \in Students /\ row.total \in 0 .. T
        /\ debt' = [debt EXCEPT ![row.student] = FloorAtZero(debt[row.student] - row.total)]
    BY <1>0, <2>1, CreditFits
  <2>6. ASSUME Unbooked(s) PROVE row.student = s /\ debt[s] - row.total <= Owing(s)
    <3>1. PICK g \in Handlers : At(g, "credit") /\ task[g].row.student = s
                                /\ debt[s] - task[g].row.total <= Owing(s)
      BY <2>6 DEF Unbooked
    <3>2. g = h
      BY <1>0, <2>2, <3>1 DEF Exclusive, Busy, At
    <3> QED
      BY <3>1, <3>2
  <2> HIDE DEF row
  <2>7. CASE row.student = s
    <3>1. debt'[s] = FloorAtZero(debt[s] - row.total)
      BY <1>0, <2>5, <2>7
    <3>2. row.total \in Nat
      BY <1>0, <2>5
    <3>3. debt[s] - row.total <= Owing(s)
      BY <1>1, <1>2, <2>6, <3>2
    <3>4. debt'[s] >= 0 /\ debt'[s] <= Owing(s)
      BY <1>1, <1>2, <3>1, <3>2, <3>3 DEF FloorAtZero
    <3> QED
      BY <2>4, <3>4
  <2>8. CASE row.student # s
    <3>1. debt'[s] = debt[s]
      BY <1>0, <2>5, <2>8
    <3>2. debt[s] <= Owing(s)
      BY <1>1, <2>6, <2>8
    <3> QED
      BY <1>1, <2>4, <3>1, <3>2
  <2> QED
    BY <2>7, <2>8
<1>4. CASE JobDebt
  <2>1. \A h \in Handlers : ~Busy(h)
    BY <1>0, <1>4 DEF JobDebt, Exclusive
  <2>2. Owing(s)' = Owing(s)
    <3>1. \A h \in Handlers : ~CreateSave(h) /\ ~PayMark(h)
      BY <2>1 DEF CreateSave, PayMark, At, Busy
    <3> QED
      BY <1>0, <3>1, OwedMoves, OwingStays
  <2>3. debt[s] <= Owing(s)
    BY <1>1, <2>1 DEF Unbooked, Busy, At
  <2>4. PICK target \in job.cur :
          debt' = debt \/ debt' = [debt EXCEPT ![target.student] = SumOf(job.seen)]
    BY <1>4 DEF JobDebt
  <2>5. CASE target.student = s /\ debt' # debt
    <3>1. SumOf(job.seen) \in 0 .. Owing(target.student)
      BY <1>4 DEF JobInv, JobDebt
    <3>2. debt'[s] = SumOf(job.seen) /\ SumOf(job.seen) \in 0 .. Owing(s)
      BY <1>0, <2>4, <2>5, <3>1
    <3>3. debt'[s] >= 0 /\ debt'[s] <= Owing(s)
      BY <1>2, <3>2
    <3> QED
      BY <2>2, <3>3
  <2>6. CASE target.student # s \/ debt' = debt
    <3>1. debt'[s] = debt[s]
      BY <1>0, <2>4, <2>6
    <3> QED
      BY <1>1, <2>2, <2>3, <3>1
  <2> QED
    BY <2>5, <2>6
<1>5. ASSUME debt' = debt, \A h \in Handlers : ~PayCredit(h) PROVE Good
  <2>1. ASSUME Owing(s) <= Owing(s)' PROVE Good
    <3>1. CASE debt[s] <= Owing(s)
      BY <1>1, <1>2, <1>5, <2>1, <3>1
    <3>2. CASE Unbooked(s)
      <4>1. PICK g \in Handlers : At(g, "credit") /\ task[g].row.student = s
                                  /\ debt[s] - task[g].row.total <= Owing(s)
        BY <3>2 DEF Unbooked
      <4>2. task'[g] = task[g]
        BY <1>5, <4>1, CreditGoesOn
      <4>3. task[g].row.total \in Nat
        BY <1>0, <4>1 DEF RowsInv, HandlerSound, Pays, Complete
      <4>4. PICK n : n = Owing(s)'
        OBVIOUS
      <4>5. debt'[s] - task'[g].row.total <= n
        BY <1>1, <1>2, <1>5, <2>1, <4>1, <4>2, <4>3, <4>4
      <4>6. At(g, "credit")' /\ task'[g].row.student = s /\ debt'[s] - task'[g].row.total <= Owing(s)'
        BY <4>1, <4>2, <4>4, <4>5 DEF At
      <4>7. Unbooked(s)'
        BY <4>6 DEF Unbooked
      <4> QED
        BY <1>1, <1>5, <4>7
    <3> QED
      BY <1>1, <3>1, <3>2
  <2>2. ASSUME NEW h \in Handlers, CreateSave(h) PROVE Good
    <3>1. PICK p \in PaymentIds \ Rows :
            payments' = [payments EXCEPT ![p] = task[h].row] /\ Rows' = Rows \cup {p}
      BY <1>0, <2>2, RowSaved
    <3>2. Owing(s) <= Owing(s)'
      BY <1>0, <3>1, OwingGrows
    <3> QED
      BY <2>1, <3>2
  <2>3. ASSUME NEW h \in Handlers, PayMark(h) PROVE Good
    <3> DEFINE p == task[h].p
               row == task[h].row
    <3>0. At(h, "markPaid") /\ Busy(h) /\ payments' = [payments EXCEPT ![p].status = "paid"]
      BY <2>3 DEF PayMark, At, Busy
    <3>1. /\ At(h, "markPaid") /\ Busy(h) /\ p \in Rows
          /\ payments' = [payments EXCEPT ![p].status = "paid"]
      BY <1>0, <3>0 DEF PresentAtWork, At, WithPayment
    <3>2. row.total = payments[p].total /\ row.student = payments[p].student /\ row.total \in 0 .. T
      BY <3>1 DEF RowsInv, HandlerSound, Pays, Complete
    <3>3. ~Unbooked(s)
      <4>1. ASSUME NEW g \in Handlers, At(g, "credit") PROVE FALSE
        <5>1. g = h
          BY <1>0, <3>1, <4>1 DEF Exclusive, Busy, At
        <5> QED
          BY <3>1, <4>1, <5>1 DEF At
      <4> QED
        BY <4>1 DEF Unbooked
    <3>4. task'[h] = [task[h] EXCEPT !.at = "credit"]
      BY <1>0, <2>3 DEF PayMark, Goto
    <3>5. task'[h].at = "credit" /\ task'[h].row = row
      BY <1>0, <3>4 DEF Task
    <3> HIDE DEF p, row
    <3>6. CASE s # payments[p].student
      <4>1. Owing(s)' = Owing(s)
        BY <1>0, <3>1, <3>6, OwingShrinks
      <4> QED
        BY <1>2, <2>1, <4>1
    <3>7. CASE s = payments[p].student
      <4>1. Owing(s) <= Owing(s)' + row.total
        BY <1>0, <3>1, <3>2, <3>7, OwingShrinks
      <4>2. row.total \in Nat
        BY <1>0, <3>2
      <4>3. debt'[s] - row.total <= Owing(s)'
        BY <1>1, <1>2, <1>5, <3>3, <4>1, <4>2
      <4>4. At(h, "credit")' /\ task'[h].row.student = s /\ debt'[s] - task'[h].row.total <= Owing(s)'
        BY <3>2, <3>5, <3>7, <4>3 DEF At
      <4>5. Unbooked(s)'
        BY <4>4 DEF Unbooked
      <4> QED
        BY <1>1, <1>5, <4>5
    <3> QED
      BY <3>6, <3>7
  <2>4. CASE SameOwed
    <3>1. Owing(s)' = Owing(s)
      BY <2>4, OwingStays
    <3> QED
      BY <1>2, <2>1, <3>1
  <2> QED
    BY <1>0, <2>2, <2>3, <2>4, OwedMoves
<1> QED
  BY <1>3, <1>4, <1>5, DebtMoves

-----------------------------------------------------------------------------

LEMMA InitBooks == ASSUME NEW T, Plain(T) PROVE Init => BooksInv(T)
<1> SUFFICES ASSUME Init PROVE BooksInv(T)
  OBVIOUS
<1>1. NumbersInv
  BY InitNumbers
<1>2. Rows = {} /\ \A s : OwedOf(s) = {}
  BY DEF Init, NoRow, Rows, RowsOf, OwedBy, OwedOf
<1>3. \A s : Owing(s) = 0
  BY <1>2, SumOverEmpty DEF Owing
<1>4. RowsInv(T)
  BY <1>2 DEF Init, Idle, RowsInv, HandlerSound, Pays, At, PlainSteps
<1>5. JobInv
  BY DEF Init, JobIdle, JobInv
<1>6. IncomeInv(T)
  <2>1. T \in Nat /\ Room(T, 0) = 0 /\ MaxRequests \in Nat
    BY PaymentsAssumption DEF Plain, Room
  <2> QED
    BY <2>1 DEF Init, Idle, IncomeInv, Pays, At
<1>7. DebtInv
  BY <1>3 DEF Init, DebtInv
<1>8. PaidInv
  BY DEF Init, NoRow, PaidInv
<1> QED
  BY <1>1, <1>4, <1>5, <1>6, <1>7, <1>8 DEF BooksInv

LEMMA FailuresCount == ASSUME TypeOK, [Next]_vars PROVE failures' = 0 => failures = 0 /\ failures' = failures
<1>0. failures \in Nat
  BY DEF TypeOK
<1>1. ASSUME NEW h \in Handlers, Request(h) PROVE failures' = failures
  BY <1>1 DEF Request, CreateCount, PayFind, RefundFind, DiscountFind, UpdateFind
<1>2. ASSUME NEW h \in Handlers, Proceed(h) PROVE failures' = failures
  BY <1>2 DEF Proceed, CreateSave, CreateInvoice, PayMark, PayCredit, PayInvoice, RefundMark,
     DiscountLoad, DiscountTotal, DiscountCount, UpdateWrite
<1>3. ASSUME NEW h \in Handlers, HandlerFails(h) PROVE failures' = failures + 1
  BY <1>3 DEF HandlerFails
<1>4. Job => failures' = failures
  BY DEF Job, JobFind, JobMark, JobSum, JobDebt
<1>5. JobFails => failures' = failures + 1
  BY DEF JobFails
<1>6. (\E p \in PaymentIds : DueDatePasses(p)) \/ (\E c \in Codes : CodeExpires(c)) \/ UNCHANGED vars
        => failures' = failures
  BY DEF DueDatePasses, CodeExpires, vars
<1> QED
  BY <1>0, <1>1, <1>2, <1>3, <1>4, <1>5, <1>6 DEF Next

LEMMA BooksStep ==
    ASSUME NEW T, Plain(T) PROVE BooksInv(T) /\ [Next]_vars => BooksInv(T)'
<1> SUFFICES ASSUME BooksInv(T), [Next]_vars PROVE BooksInv(T)'
  OBVIOUS
<1>1. /\ NumbersInv /\ RowsInv(T) /\ JobInv /\ IncomeInv(T)
      /\ failures = 0 => DebtInv /\ PaidInv
  BY DEF BooksInv
<1>2. NumbersInv'
  BY <1>1, NumbersStep DEF Plain
<1>3. TypeOK /\ TypeOK'
  BY <1>1, <1>2 DEF NumbersInv, Serial
<1>4. RowsInv(T)'
  BY <1>1, <1>2, RowsStep
<1>5. JobInv'
  BY <1>1, <1>2, <1>4, JobBooksStep
<1>6. IncomeInv(T)'
  BY <1>1, <1>3, IncomeStep
<1>7. failures' = 0 => DebtInv' /\ PaidInv'
  BY <1>1, <1>2, <1>3, <1>4, FailuresCount, DebtStep, PaidStep
<1> QED
  BY <1>2, <1>4, <1>5, <1>6, <1>7 DEF BooksInv

\* Payments are created, paid and refunded one at a time, and the totals fit the column of
\* the income: the payments of every tenant are numbered 1, 2, 3 ..., and where no statement
\* failed no student is shown a debt that is not owed and no payment is paid that was not
\* credited.  (A discount lowers the total of a payment whose debt is already shown and an
\* update moves it to another student: with them the debt is not always covered.)
THEOREM BooksAreInOrderHolds == ASSUME NEW T, Plain(T) PROVE Spec => []BooksAreInOrder
<1>1. BooksInv(T) => BooksAreInOrder
  <2> SUFFICES ASSUME BooksInv(T), Quiet
               PROVE  /\ \A t \in Tenants :
                           {payments[p].number : p \in RowsOf(t)} = 1 .. Cardinality(RowsOf(t))
                      /\ failures = 0 => DebtWithinOwed /\ PaidIsCredited
    BY DEF BooksAreInOrder
  <2>1. \A t \in Tenants : {payments[p].number : p \in RowsOf(t)} = 1 .. Cardinality(RowsOf(t))
    BY DEF BooksInv, NumbersInv, Numbered, Numbers
  <2>2. \A h \in Handlers : ~At(h, "credit")
    BY DEF Quiet, Busy, At
  <2>3. ASSUME failures = 0 PROVE PaidIsCredited
    BY <2>2, <2>3 DEF BooksInv, PaidInv, PaidIsCredited
  <2>4. ASSUME failures = 0, NEW s \in Students
        PROVE  debt[s] <= SumOf({<<p, payments[p].total>> :
                                   p \in UNION {OwedBy(s, t) : t \in Tenants}})
    <3> DEFINE A == OwedOf(s)
    <3>1. debt[s] <= Owing(s)
      BY <2>2, <2>4 DEF BooksInv, DebtInv, Unbooked
    <3>2. RowsInv(T) /\ T \in Nat
      BY DEF BooksInv, Plain
    <3>3. IsFiniteSet(A) /\ A \subseteq PaymentIds /\ A \subseteq Rows
      BY <3>2, OwedIs
    <3>4. \A p \in A : Totals[p] \in Int
      BY <3>2, <3>3, TotalsAre
    <3>5. {<<p, payments[p].total>> : p \in A} = PairsOf(Totals, A)
      BY <3>3 DEF PairsOf, Totals
    <3> HIDE DEF A
    <3>6. PairSum(PairsOf(Totals, A)) = SumOver(Totals, A)
      BY <3>3, <3>4, PairSumOver
    <3>7. SumOf({<<p, payments[p].total>> : p \in A}) = SumOver(Totals, A)
      BY <3>5, <3>6 DEF SumOf, PairSum
    <3> QED
      BY <3>1, <3>7 DEF A, OwedOf, Owing
  <2> QED
    BY <2>1, <2>3, <2>4 DEF DebtWithinOwed
<1> QED
  BY <1>1, InitBooks, BooksStep, PTL DEF Spec
=============================================================================
