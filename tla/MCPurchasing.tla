---------------------------- MODULE MCPurchasing ----------------------------
(* A small office for Purchasing. *)
EXTENDS Purchasing, TLC

CONSTANTS o1, a1, a2, bolt, nut, c1, b1, b2

One == [d \in Docs \ Orders |-> 1]
NoCost == [s \in Shipments |-> 0]
Plain == [j \in Journals |-> NoDoc]
OneOfEach == [l \in Lines |-> 1]
Symmetry == Permutations(Buyers) \cup Permutations(Lines)
=============================================================================
