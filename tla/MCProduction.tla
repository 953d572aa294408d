---------------------------- MODULE MCProduction ----------------------------
(* An order of two batches, of two pieces and of one.                       *)
EXTENDS Production, TLC

CONSTANTS b1, b2

MCBatchQty == [b \in Batches |-> IF b = b1 THEN 2 ELSE 1]
Symmetry == Permutations(Workers) \cup Permutations(Pickings)

(* A run starts where Init says, or where every batch has been reported and *)
(* waits for its receipt; the first kind has one batch, by the bound below. *)
AllReported ==
  /\ order = "InProduction"
  /\ status = [b \in Batches |-> "PendingReceipt"]
  /\ current = [b \in Batches |-> Last]
  /\ progress = [b \in Batches |->
                   [s \in Steps |->
                      [status |-> "Completed", qty |-> BatchQty[b], good |-> BatchQty[b]]]]
  /\ reports = [b \in Batches |-> [s \in Steps |-> BatchQty[b]]]
  /\ picking = [p \in Pickings |-> [status |-> "None", batch |-> Free]]
  /\ request = [w \in Workers |-> Free]
  /\ torn = {}

MCSpec == (Init \/ AllReported) /\ [][Next]_vars

(***************************************************************************)
(* Bounds: a run is not followed further once it ...                       *)
(***************************************************************************)

(* ... has torn a batch;                                                    *)
Untorn == torn = {}

(* ... has, beside the first batch, one with steps left;                    *)
OneAtWork == Existing \subseteq {b1} \/ \A b \in Existing : current[b] = Last

(* ... asks for the receipt of a batch that has steps left;                 *)
FirstReported ==
  \A p \in Pickings : picking[p].status = "Draft" => current[picking[p].batch] = Last

(* ... has a second defective piece, or, when there is one, does anything   *)
(* else than report or receive from outsourcing.                            *)
Reporting(w) == Doing(w, "report") \/ Doing(w, "outsourced")
Defective(p) == p.qty - p.good
FlawedSteps == {x \in Batches \X Steps : Defective(progress[x[1]][x[2]]) # 0}
FlawedRequests == {w \in Workers : Reporting(w) /\ Defective(request[w]) # 0}

FewBad ==
  \/ FlawedSteps = {} /\ FlawedRequests = {}
  \/ /\ Cardinality(FlawedSteps) + Cardinality(FlawedRequests) = 1
     /\ \A x \in FlawedSteps : Defective(progress[x[1]][x[2]]) = 1
     /\ \A w \in FlawedRequests : Defective(request[w]) = 1
     /\ \A w \in Workers : request[w] = Free \/ Reporting(w)
     /\ \A p \in Pickings : picking[p].status = "None"
=============================================================================
