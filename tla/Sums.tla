-------------------------------- MODULE Sums --------------------------------
(***************************************************************************)
(* The SUM(...) of the queries: the values of f at the members of S.       *)
(***************************************************************************)
EXTENDS Integers, FiniteSetsExt

SumOver(f, S) == MapThenSumSet(LAMBDA x : f[x], S)

=============================================================================
