----------------------------- MODULE MCEventBus -----------------------------
(* Instances of EventBus small enough for TLC. *)
EXTENDS EventBus, TLC

(* Servers are interchangeable: no definition tells one from another. *)
Symmetry == Permutations(Processors)
=============================================================================
