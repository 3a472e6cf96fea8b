---------------------------- MODULE BillingLedger ----------------------------
(***************************************************************************)
(* What billing promises its users, one step per operation: a bill comes   *)
(* with its invoice, settling it marks the bill, books the money and       *)
(* settles the invoice, flagging it brings the student's debt up to date,  *)
(* and a discount code is used at most as often as it allows.              *)
(***************************************************************************)
EXTENDS Integers, FiniteSets, FiniteSetsExt

CONSTANTS Tenants, Students, PaymentIds, Codes, None

VARIABLES
    bill,       \* the bill of a payment: tenant, student, total, status
    invoice,    \* "none", "sent" or "paid"
    debt,       \* what a student owes
    income,     \* what a student has paid
    uses        \* uses of a discount code and how many it allows

vars == <<bill, invoice, debt, income, uses>>

NoBill == [tenant |-> None, student |-> None, total |-> 0, status |-> "absent"]

Positive(x) == IF x < 0 THEN 0 ELSE x

OwedTo(t, s) == {p \in PaymentIds : /\ bill[p].tenant = t /\ bill[p].student = s
                                    /\ bill[p].status \in {"pending", "overdue"}}

Init ==
    /\ bill = [p \in PaymentIds |-> NoBill]
    /\ invoice = [p \in PaymentIds |-> "none"]
    /\ debt = [s \in Students |-> 0]
    /\ income = [s \in Students |-> 0]
    /\ DOMAIN uses = Codes
    /\ \A c \in Codes : uses[c].count = 0

Charge(p) ==
    /\ bill[p].status = "absent"
    /\ bill'[p].status = "pending"
    /\ bill' = [bill EXCEPT ![p] = bill'[p]]
    /\ invoice' = [invoice EXCEPT ![p] = "sent"]
    /\ UNCHANGED <<debt, income, uses>>

Settle(p) ==
    /\ bill[p].status \in {"pending", "overdue", "refunded"}
    /\ bill' = [bill EXCEPT ![p].status = "paid"]
    /\ invoice' = [invoice EXCEPT ![p] = "paid"]
    /\ debt' = [debt EXCEPT ![bill[p].student] = Positive(@ - bill[p].total)]
    /\ income' = [income EXCEPT ![bill[p].student] = @ + bill[p].total]
    /\ UNCHANGED uses

Refund(p) ==
    /\ bill[p].status = "paid"
    /\ bill' = [bill EXCEPT ![p].status = "refunded"]
    /\ UNCHANGED <<invoice, debt, income, uses>>

Flag(p) ==
    LET owed == OwedTo(bill[p].tenant, bill[p].student) IN
    /\ bill[p].status = "pending"
    /\ bill' = [bill EXCEPT ![p].status = "overdue"]
    /\ debt' = [debt EXCEPT ![bill[p].student] =
                  MapThenSumSet(LAMBDA q : bill[q].total, owed)]
    /\ UNCHANGED <<invoice, income, uses>>

Reduce(p, c) ==
    /\ bill[p].status # "absent"
    /\ uses[c].limit # None => uses[c].count < uses[c].limit
    /\ \E total \in 0 .. Positive(bill[p].total) : bill' = [bill EXCEPT ![p].total = total]
    /\ uses' = [uses EXCEPT ![c].count = @ + 1]
    /\ UNCHANGED <<invoice, debt, income>>

Reassign(p) ==
    /\ bill[p].status # "absent"
    /\ \E s \in Students : bill' = [bill EXCEPT ![p].student = s]
    /\ UNCHANGED <<invoice, debt, income, uses>>

Next ==
    \/ \E p \in PaymentIds : Charge(p) \/ Settle(p) \/ Refund(p) \/ Flag(p) \/ Reassign(p)
    \/ \E p \in PaymentIds, c \in Codes : Reduce(p, c)

Spec == Init /\ [][Next]_vars
=============================================================================
