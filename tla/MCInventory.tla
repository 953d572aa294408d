----------------------------- MODULE MCInventory -----------------------------
(* A small store for Inventory. *)
EXTENDS Inventory, TLC

CONSTANTS so1, wo1, bolt, nut, plant, shop, k1, c1, c2

(* An order and a work order that need the same two products, in opposite *)
(* orders                                                                 *)
Opposite == so1 :> <<bolt, nut>> @@ wo1 :> <<nut, bolt>>
OneEach == [s \in Sources |-> [p \in Products |-> 1]]

(* ... and that need one product *)
Shared == so1 :> <<bolt>> @@ wo1 :> <<bolt>>
TwoEach == [s \in Sources |-> [p \in Products |-> 2]]

Single == [pl \in Places |-> 1]
AllAtPlant == [pl \in Places |-> IF pl[2] = plant THEN 2 ELSE 0]
Symmetry == Permutations(Clerks)

OtherBatch == [s \in WorkOrders |-> IF s = wo1 THEN wo1 ELSE NoSource]
=============================================================================
