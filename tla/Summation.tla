----------------------------- MODULE Summation ------------------------------
(* Sums over finite sets.                                                  *)
EXTENDS FiniteSetsExt

SumOver(f, S) == MapThenSumSet(LAMBDA x : f[x], S)

\* The sum of all values of a function.
Total(f) == SumOver(f, DOMAIN f)
=============================================================================
