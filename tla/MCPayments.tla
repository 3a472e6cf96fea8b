----------------------------- MODULE MCPayments -----------------------------
(* Values for TLC of the constants of Payments.                            *)
EXTENDS Payments, TLC

CONSTANTS t1, t2, s1, c1, p1, p2, h1, h2

Fixed(t, v, n) == [tenant |-> t, type |-> "fixed", value |-> v, maxUses |-> n]

NoOffers == {}
OneUse   == {Fixed(t1, 50, 1)}

IdSymmetry == Permutations({p1, p2}) \cup Permutations({h1, h2})
=============================================================================
