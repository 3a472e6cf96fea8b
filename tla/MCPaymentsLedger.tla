-------------------------- MODULE MCPaymentsLedger --------------------------
(* Values for TLC of the constants of PaymentsLedger.                      *)
EXTENDS PaymentsLedger, TLC

CONSTANTS t1, s1, s2, c1, p1, p2, h1

Offered(type, v, n) == [tenant |-> t1, type |-> type, value |-> v, maxUses |-> n]

NoOffers   == {}
BothOffers == {Offered("percentage", 50, 1), Offered("fixed", 150, 2)}
=============================================================================
