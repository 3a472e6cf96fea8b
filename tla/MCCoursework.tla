---------------------------- MODULE MCCoursework ----------------------------
(* Values for TLC of the constants of Coursework.                          *)
EXTENDS Coursework, TLC

CONSTANTS e1, w1, s1, s2, a1, a2, a3, q1, q2, h1, h2, c1, c2

TwoEach == [q \in Questions |-> 2]

\* The first question right, and both, the first of them twice.
TwoSheets == {[q \in Questions |-> IF q = q1 THEN 1 ELSE 0],
              [q \in Questions |-> IF q = q1 THEN 2 ELSE 1]}

IdSymmetry == Permutations({h1, h2}) \cup Permutations({a1, a2, a3})
=============================================================================
