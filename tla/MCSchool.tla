------------------------------ MODULE MCSchool ------------------------------
(* Values for TLC of the constants of School.                              *)
EXTENDS School, TLC

CONSTANTS t1, s1, s2, s3, s4, g1, c1, d1, h1, h2

Codes0 == [p \in {t1, s1, s2} |-> IF p = s2 THEN 2 ELSE 1]

Mark(s, status) == [student |-> s, status |-> status]

\* Two sheets that name the students in opposite order, and one of a single student.
ThreeSheets == {<<Mark(s1, "present"), Mark(s2, "absent")>>,
                <<Mark(s2, "present"), Mark(s1, "absent")>>,
                <<Mark(s1, "absent")>>}

IdSymmetry == Permutations({h1, h2}) \cup Permutations({s3, s4})
=============================================================================
