--------------------------- MODULE PaymentsLedger ---------------------------
(***************************************************************************)
(* Requests that do not overlap implement BillingLedger: each handler's    *)
(* statements take effect together, at the statement named below.          *)
(*    create          when the invoice is inserted                         *)
(*    pay             when the student is credited                         *)
(*    apply-discount  when the total is written                            *)
(*    overdue job     when the debt is written, payment by payment         *)
(***************************************************************************)
EXTENDS Payments

Doing(p, step) == {h \in Handlers : task[h].p = p /\ At(h, step)}

\* The status before the handler or the job that is on its way with p.
StatusOf(p) ==
    IF Doing(p, "credit") # {} THEN task[CHOOSE h \in Doing(p, "credit") : TRUE].row.status
    ELSE IF job.at \in {"sum", "debt"} /\ \E target \in job.cur : target.p = p THEN "pending"
    ELSE payments[p].status

LedgerBill == [p \in PaymentIds |->
    IF p \notin Rows \/ Doing(p, "invoice") # {}
    THEN [tenant |-> None, student |-> None, total |-> 0, status |-> "absent"]
    ELSE [tenant |-> payments[p].tenant, student |-> payments[p].student,
          total |-> payments[p].total, status |-> StatusOf(p)]]

LedgerInvoice == [p \in PaymentIds |->
    IF Doing(p, "settleInvoice") # {} THEN "paid"
    ELSE IF invoices[p].status = "absent" THEN "none" ELSE invoices[p].status]

LedgerUses == [c \in Codes |->
    [count |-> discounts[c].usedCount
                 + Cardinality({h \in Handlers : At(h, "countUse") /\ task[h].code = c}),
     limit |-> discounts[c].offer.maxUses]]

Ledger == INSTANCE BillingLedger WITH
    bill <- LedgerBill, invoice <- LedgerInvoice, uses <- LedgerUses

\* One request at a time, no failing statement: every handler, with all its
\* separate statements, does exactly one operation of the ledger or nothing.
ImplementsLedger == Ledger!Spec
=============================================================================
