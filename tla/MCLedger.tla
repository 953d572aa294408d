------------------------------ MODULE MCLedger ------------------------------
(* A small office for Ledger. *)
EXTENDS Ledger, TLC

CONSTANTS s1, r1, j1, j2, c1, c2, h1, h2

One == [d \in Docs |-> 1]
TwoForShipments == [d \in Docs |-> IF d \in Shipments THEN 2 ELSE 1]

(* The second journal is made out for the shipment *)
ForShipment == [j \in Journals |-> IF j = j2 THEN s1 ELSE NoDoc]

TwoEntries == [s \in Shipments |-> 2]

Symmetry == Permutations(Cashiers) \cup Permutations(Handlers)
=============================================================================
