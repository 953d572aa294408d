---------------------------- MODULE MCSalesOrder ----------------------------
(* One small order for SalesOrder. *)
EXTENDS SalesOrder, TLC

CONSTANTS bolt, nut, p1, p2, u1, u2

OneOfEach == [l \in Lines |-> 1]
LineByLine == {[Nothing EXCEPT ![l] = 1] : l \in Lines}
Symmetry == Permutations(Users) \cup Permutations(Pickings) \cup Permutations(Lines)
=============================================================================
