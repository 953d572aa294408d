------------------------- MODULE MCDemandFulfilment -------------------------
(* Small factories for DemandFulfilment. *)
EXTENDS DemandFulfilment, TLC

CONSTANTS o1, l1, l2, x1, x2, w1, w2, c1, c2, table, chair

(* Two lines of one order: a made table and a bought chair, or the chairs  *)
(* that the table is made of                                               *)
TwoOwner == l1 :> o1 @@ l2 :> o1
TwoProduct == l1 :> table @@ l2 :> chair
Mixed == table :> "SelfProduced" @@ chair :> "Purchased"
ShareBom == table :> {chair} @@ chair :> {}

(* One line of a product made of nothing                                   *)
OneOwner == l1 :> o1
OneProduct == l1 :> table
OneMade == table :> "SelfProduced"
NoBom == [p \in Products |-> {}]

(* The two id sequences: apart, or in step *)
NoIds == [l \in Lines |-> NoLine]
OneId == l1 :> l1

SymAll == Permutations(Docs) \cup Permutations(Workers) \cup Permutations(Clerks)
=============================================================================
