-------------------------- MODULE ProductionProofs --------------------------
(***************************************************************************)
(* Proofs about Production, for any batches, routings, receipts, users and *)
(* quantities.  The type invariant comes first, as every other proof rests *)
(* on it; then the order of the steps, their completion and the tolerance  *)
(* of the last one, by one inductive invariant about what a report has     *)
(* read; then the receipts.                                                *)
(***************************************************************************)
EXTENDS Production, TLAPS

(***************************************************************************)
(* Requests                                                                *)
(***************************************************************************)

(* A request in hand has the fields of its kind. *)
LEMMA RequestType ==
  ASSUME TypeOK, NEW w \in Workers
  PROVE  /\ Doing(w, "report") \/ Doing(w, "outsourced") => request[w] \in ReportRequests
         /\ request[w] # Free /\ request[w].op \in HeaderOps => request[w] \in HeaderRequests
         /\ Doing(w, "split") => request[w] \in SplitRequests
         /\ Doing(w, "receive") => request[w] \in ReceiptRequests
         /\ Doing(w, "cancel") => request[w] \in CancelRequests
<1>1. request[w] # Free => request[w] \in Requests
  BY DEF TypeOK
<1>2. \A r \in ReportRequests : r.op \in {"report", "outsourced"}
  BY DEF ReportRequests
<1>3. \A r \in HeaderRequests : r.op \in HeaderOps
  BY DEF HeaderRequests
<1>4. \A r \in SplitRequests : r.op = "split"
  BY DEF SplitRequests
<1>5. \A r \in ReceiptRequests : r.op = "receive"
  BY DEF ReceiptRequests
<1>6. \A r \in CancelRequests : r.op = "cancel"
  BY DEF CancelRequests
<1>7. QED
  BY <1>1, <1>2, <1>3, <1>4, <1>5, <1>6 DEF Doing, Requests, HeaderOps

Reporting(w) == Doing(w, "report") \/ Doing(w, "outsourced")

(* What somebody else's write does to a request: nothing, or the mark of a *)
(* receipt that is no longer alone, or of a report whose step was written.  *)
LEMMA DisturbType ==
  ASSUME TypeOK, NEW w \in Workers, NEW v \in Workers
  PROVE  /\ Disturb(w)[v] = IF Booked(v) /\ ~Booked(w)
                            THEN [request[v] EXCEPT !.alone = FALSE] ELSE request[v]
         /\ Disturb(w)[v] \in {Free} \cup Requests
         /\ Reporting(v) => Disturb(w)[v] = request[v]
<1>1. Disturb(w)[v] = IF Booked(v) /\ ~Booked(w)
                      THEN [request[v] EXCEPT !.alone = FALSE] ELSE request[v]
  BY DEF Disturb
<1>2. CASE Booked(v)
  <2>1. request[v] \in ReceiptRequests
    BY <1>2, RequestType DEF Booked, At
  <2>2. [request[v] EXCEPT !.alone = FALSE] \in ReceiptRequests
    BY <2>1 DEF ReceiptRequests
  <2>3. ~Reporting(v)
    BY <1>2 DEF Booked, At, Doing, Reporting
  <2>4. QED
    BY <1>1, <2>1, <2>2, <2>3 DEF Requests
<1>3. CASE ~Booked(v)
  BY <1>1, <1>3 DEF TypeOK
<1>4. QED
  BY <1>1, <1>2, <1>3

(* v works on the step that w writes, with quantities it has read *)
HasRead(v, w) ==
  /\ v # w /\ Reporting(v)
  /\ request[v].batch = request[w].batch /\ request[v].step = request[w].step
  /\ request[v].at # "read" /\ ~(request[w].tx /\ request[v].tx)

LEMMA DisturbStepType ==
  ASSUME TypeOK, NEW w \in Workers, NEW v \in Workers
  PROVE  /\ DisturbStep(w)[v] = IF HasRead(v, w) THEN [request[v] EXCEPT !.clash = TRUE]
                                ELSE Disturb(w)[v]
         /\ DisturbStep(w)[v] \in {Free} \cup Requests
<1>1. DisturbStep(w)[v] = IF HasRead(v, w) THEN [request[v] EXCEPT !.clash = TRUE]
                          ELSE Disturb(w)[v]
  BY DEF DisturbStep, HasRead, Reporting
<1>2. CASE HasRead(v, w)
  <2>1. request[v] \in ReportRequests
    BY <1>2, RequestType DEF HasRead, Reporting
  <2>2. [request[v] EXCEPT !.clash = TRUE] \in ReportRequests
    BY <2>1 DEF ReportRequests
  <2>3. QED
    BY <1>1, <1>2, <2>2 DEF Requests
<1>3. CASE ~HasRead(v, w)
  BY <1>1, <1>3, DisturbType
<1>4. QED
  BY <1>1, <1>2, <1>3

(***************************************************************************)
(* Types                                                                   *)
(***************************************************************************)

RequestsOK == request \in [Workers -> {Free} \cup Requests]

LEMMA PutType ==
  ASSUME TypeOK, NEW w \in Workers, NEW r \in {Free} \cup Requests, Put(w, r)
  PROVE  RequestsOK'
  BY DEF Put, TypeOK, RequestsOK

LEMMA ReleaseType ==
  ASSUME TypeOK, NEW w \in Workers, Release(w)
  PROVE  RequestsOK'
<1>1. Disturb(w) = [v \in Workers |-> Disturb(w)[v]]
  BY DEF Disturb
<1>2. Disturb(w) \in [Workers -> {Free} \cup Requests]
  BY <1>1, DisturbType
<1>3. QED
  BY <1>2 DEF Release, RequestsOK

LEMMA DisturbedType ==
  ASSUME TypeOK, NEW w \in Workers
  PROVE  /\ Disturb(w) \in [Workers -> {Free} \cup Requests]
         /\ DisturbStep(w) \in [Workers -> {Free} \cup Requests]
<1>1. Disturb(w) = [v \in Workers |-> Disturb(w)[v]]
  BY DEF Disturb
<1>2. DisturbStep(w) = [v \in Workers |-> DisturbStep(w)[v]]
  BY DEF DisturbStep
<1>3. QED
  BY <1>1, <1>2, DisturbType, DisturbStepType

(* The row of a step that a report works on *)
LEMMA StepTypes ==
  ASSUME TypeOK, NEW w \in Workers, Reporting(w)
  PROVE  /\ request[w] \in ReportRequests
         /\ request[w].batch \in Batches /\ request[w].step \in Steps
         /\ request[w].qty \in Nat \ {0} /\ request[w].good \in Nat
         /\ request[w].prev \in Nat /\ request[w].prevGood \in Nat
         /\ progress[request[w].batch][request[w].step] \in Progress
         /\ SteppedTo(request[w]) \in 0..Last
         /\ SteppedStatus(request[w]) \in BatchStatus
<1>1. request[w] \in ReportRequests
  BY RequestType DEF Reporting
<1>2. /\ request[w].batch \in Batches /\ request[w].step \in Steps
      /\ request[w].qty \in Nat \ {0} /\ request[w].good \in Nat
      /\ request[w].prev \in Nat /\ request[w].prevGood \in Nat
  BY <1>1 DEF ReportRequests
<1>3. progress[request[w].batch][request[w].step] \in Progress
  BY <1>2 DEF TypeOK
<1>4. SteppedTo(request[w]) \in 0..Last
  <2>1. request[w].step \in 0..Last
    BY <1>2, ProductionAssumption DEF Steps
  <2>2. current[request[w].batch] \in 0..Last
    BY <1>2 DEF TypeOK
  <2>3. QED
    BY <2>1, <2>2 DEF SteppedTo
<1>5. SteppedStatus(request[w]) \in BatchStatus
  <2>1. status[request[w].batch] \in BatchStatus
    BY <1>2 DEF TypeOK
  <2>2. QED
    BY <2>1 DEF SteppedStatus, BatchStatus
<1>6. QED
  BY <1>1, <1>2, <1>3, <1>4, <1>5

LEMMA TornType ==
  ASSUME TypeOK, NEW r \in ReportRequests
  PROVE  Torn(r) \in SUBSET Batches
  BY DEF Torn, TypeOK, ReportRequests

LEMMA WithReportType ==
  ASSUME TypeOK, NEW r \in ReportRequests
  PROVE  WithReport(r) \in [Batches -> [Steps -> Nat]]
<1>1. r.batch \in Batches /\ r.step \in Steps /\ r.qty \in Nat
  BY DEF ReportRequests
<1>2. reports[r.batch][r.step] + r.qty \in Nat
  BY <1>1 DEF TypeOK
<1>3. QED
  BY <1>1, <1>2 DEF WithReport, TypeOK

LEMMA AddedType ==
  ASSUME TypeOK, NEW r \in ReportRequests
  PROVE  /\ Added(r) \in [Batches -> [Steps -> Progress]]
         /\ Added(r)[r.batch][r.step] = [status |-> progress[r.batch][r.step].status,
                                         qty |-> progress[r.batch][r.step].qty + r.qty,
                                         good |-> progress[r.batch][r.step].good + r.good]
         /\ \A b \in Batches, s \in Steps :
              b # r.batch \/ s # r.step => Added(r)[b][s] = progress[b][s]
<1> DEFINE p == progress[r.batch][r.step]
           n == [status |-> p.status, qty |-> p.qty + r.qty, good |-> p.good + r.good]
<1>1. r.batch \in Batches /\ r.step \in Steps /\ r.qty \in Nat /\ r.good \in Nat
  BY DEF ReportRequests
<1>2. p \in Progress
  BY <1>1 DEF TypeOK
<1>3. n \in Progress
  BY <1>1, <1>2 DEF Progress
<1> DEFINE m == [status |-> p.status, qty |-> p.qty + r.qty, good |-> p.good]
           half == [progress EXCEPT ![r.batch][r.step].qty = @ + r.qty]
<1>4. m \in Progress
  BY <1>1, <1>2 DEF Progress
<1>5. half = [progress EXCEPT ![r.batch][r.step] = m]
  <2>1. [p EXCEPT !.qty = @ + r.qty] = m
    BY <1>2 DEF Progress
  <2>2. half = [progress EXCEPT ![r.batch][r.step] = [p EXCEPT !.qty = @ + r.qty]]
    BY <1>1 DEF TypeOK
  <2>3. QED
    BY <2>1, <2>2
<1>6. half \in [Batches -> [Steps -> Progress]] /\ half[r.batch][r.step] = m
  BY <1>1, <1>4, <1>5 DEF TypeOK
<1>7. Added(r) = [half EXCEPT ![r.batch][r.step] = n]
  <2>1. Added(r) = [half EXCEPT ![r.batch][r.step].good = @ + r.good]
    BY DEF Added
  <2>2. [m EXCEPT !.good = @ + r.good] = n
    OBVIOUS
  <2>3. [half EXCEPT ![r.batch][r.step].good = @ + r.good]
          = [half EXCEPT ![r.batch][r.step] = [m EXCEPT !.good = @ + r.good]]
    <3> HIDE DEF half, m
    <3>1. QED
      BY <1>1, <1>6
  <2>4. QED
    BY <2>1, <2>2, <2>3
<1>8. Added(r) = [progress EXCEPT ![r.batch][r.step] = n]
  <2> HIDE DEF m, n
  <2>1. QED
    BY <1>1, <1>5, <1>6, <1>7 DEF TypeOK
<1>9. QED
  BY <1>1, <1>3, <1>8 DEF TypeOK

LEMMA MarkedType ==
  ASSUME NEW r \in ReportRequests, NEW p \in Progress
  PROVE  /\ MarkedStep(r, p) \in {"Pending", "InProgress", "Completed"}
         /\ [p EXCEPT !.status = MarkedStep(r, p)]
              = [status |-> MarkedStep(r, p), qty |-> p.qty, good |-> p.good]
         /\ [p EXCEPT !.status = MarkedStep(r, p)] \in Progress
<1>1. MarkedStep(r, p) \in {"Pending", "InProgress", "Completed"}
  BY DEF MarkedStep, Progress
<1>2. QED
  BY <1>1 DEF Progress

(* A report, or the write-back of an outsourcing receipt, begins. *)
Begins(w, b, s, q) ==
  \/ \E g \in 0..q, tx \in BOOLEAN : StartReport(w, b, s, q, g, tx)
  \/ StartOutsourced(w, b, s, q)

LEMMA ReportStartTypes ==
  ASSUME TypeOK, NEW w \in Workers, NEW b \in Batches, NEW s \in Steps, NEW q \in 1..MaxReport,
         Begins(w, b, s, q)
  PROVE  TypeOK'
<1>1. q \in Nat \ {0}
  BY ProductionAssumption
<1>2. status[b] \in BatchStatus /\ progress[b][s].qty \in Nat /\ progress[b][s].good \in Nat
  BY DEF TypeOK, Progress
<1>3. ASSUME NEW g \in 0..q, NEW tx \in BOOLEAN, StartReport(w, b, s, q, g, tx)
      PROVE  TypeOK'
  <2> DEFINE r == [op |-> "report", tx |-> tx, at |-> "read", batch |-> b, step |-> s, qty |-> q,
                   good |-> g, seen |-> status[b], prev |-> 0, prevGood |-> 0,
                   first |-> FALSE, clash |-> FALSE]
  <2>1. r \in Requests
    BY <1>1, <1>2 DEF Requests, ReportRequests
  <2>2. RequestsOK'
    BY <1>3, <2>1, PutType DEF StartReport
  <2>3. QED
    BY <1>3, <2>2 DEF TypeOK, RequestsOK, StartReport, floor
<1>4. CASE StartOutsourced(w, b, s, q)
  <2> DEFINE r == [op |-> "outsourced", tx |-> FALSE, at |-> "counted", batch |-> b, step |-> s,
                   qty |-> q, good |-> q, seen |-> status[b], prev |-> progress[b][s].qty,
                   prevGood |-> progress[b][s].good, first |-> progress[b][s].status = "Pending",
                   clash |-> FALSE]
  <2>1. r \in Requests
    BY <1>1, <1>2 DEF Requests, ReportRequests
  <2>2. RequestsOK'
    BY <1>4, <2>1, PutType DEF StartOutsourced
  <2>3. QED
    BY <1>4, <2>2 DEF TypeOK, RequestsOK, StartOutsourced, floor
<1>5. QED
  BY <1>3, <1>4 DEF Begins

LEMMA CountTypes ==
  ASSUME TypeOK, NEW w \in Workers, Count(w)
  PROVE  TypeOK'
<1> DEFINE r == request[w]
           p == progress[r.batch][r.step]
<1>1. Reporting(w)
  BY DEF Count, At, Reporting
<1>2. r \in ReportRequests /\ r.batch \in Batches /\ p \in Progress
  BY <1>1, StepTypes
<1>3. [r EXCEPT !.at = "counted", !.prev = p.qty, !.prevGood = p.good,
                       !.first = p.status = "Pending"] \in Requests
  BY <1>2 DEF ReportRequests, Requests, Progress
<1>4. RequestsOK'
  BY <1>3, PutType DEF Count
<1>5. reports' \in [Batches -> [Steps -> Nat]]
  BY <1>2, WithReportType DEF Count, TypeOK
<1>6. torn' \in SUBSET Batches
  BY <1>2 DEF Count, TypeOK
<1>7. QED
  BY <1>4, <1>5, <1>6 DEF TypeOK, RequestsOK, Count

LEMMA OrderTypes ==
  ASSUME TypeOK, NEW r \in ReportRequests
  PROVE  OrderAfter(r) \in OrderStatus
  BY DEF OrderAfter, TypeOK, OrderStatus

LEMMA FinalTypes ==
  ASSUME NEW r \in ReportRequests, NEW now \in BatchStatus
  PROVE  FinalStatus(r, now) \in BatchStatus
  BY DEF FinalStatus, BatchStatus

(* The write of a report, at once or statement by statement *)
LEMMA CommitReportTypes ==
  ASSUME TypeOK, NEW w \in Workers, CommitReport(w)
  PROVE  TypeOK'
<1> DEFINE r == request[w]
           a == Added(r)[r.batch][r.step]
<1>1. Reporting(w)
  BY DEF CommitReport, At, Reporting
<1>2. r \in ReportRequests /\ r.batch \in Batches /\ r.step \in Steps
  BY <1>1, StepTypes
<1>3. a \in Progress
  BY ZenonT(40), <1>2, AddedType
<1>4. progress' \in [Batches -> [Steps -> Progress]]
  <2>1. [a EXCEPT !.status = MarkedStep(r, a)] \in Progress
    BY <1>2, <1>3, MarkedType
  <2>2. progress' = [progress EXCEPT ![r.batch][r.step] = [a EXCEPT !.status = MarkedStep(r, a)]]
    BY DEF CommitReport
  <2>3. QED
    BY <1>2, <2>1, <2>2 DEF TypeOK
<1>5. reports' \in [Batches -> [Steps -> Nat]]
  BY <1>2, WithReportType DEF CommitReport
<1>6. current' \in [Batches -> 0..Last]
  BY <1>1, StepTypes DEF CommitReport, TypeOK
<1>7. status' \in [Batches -> BatchStatus]
  <2>1. FinalStatus(r, SteppedStatus(r)) \in BatchStatus
    BY <1>1, <1>2, StepTypes, FinalTypes
  <2>2. QED
    BY <2>1 DEF CommitReport, TypeOK
<1>8. order' \in OrderStatus /\ torn' \in SUBSET Batches
  BY <1>2, OrderTypes, TornType DEF CommitReport
<1>9. RequestsOK'
  BY DisturbedType DEF CommitReport, RequestsOK
<1>10. QED
  BY <1>4, <1>5, <1>6, <1>7, <1>8, <1>9 DEF CommitReport, TypeOK, RequestsOK

LEMMA StatementTypes ==
  ASSUME TypeOK, NEW w \in Workers, Add(w) \/ Mark(w) \/ StepOn(w) \/ Finish(w)
  PROVE  TypeOK'
<1> DEFINE r == request[w]
           p == progress[r.batch][r.step]
<1>1. Reporting(w)
  BY DEF Add, Mark, StepOn, Finish, Underway, Reporting
<1>2. r \in ReportRequests /\ r.batch \in Batches /\ r.step \in Steps /\ p \in Progress
  BY <1>1, StepTypes
<1>3. \A at \in {"added", "marked", "stepped"} : [r EXCEPT !.at = at] \in Requests
  BY <1>2 DEF ReportRequests, Requests
<1>4. CASE Add(w)
  <2>1. RequestsOK'
    BY <1>3, <1>4, DisturbedType DEF Add, RequestsOK
  <2>2. progress' \in [Batches -> [Steps -> Progress]]
    BY <1>2, <1>4, AddedType DEF Add
  <2>3. QED
    BY <1>4, <2>1, <2>2 DEF Add, TypeOK, RequestsOK
<1>5. CASE Mark(w)
  <2>1. RequestsOK'
    BY <1>3, <1>5, DisturbedType DEF Mark, RequestsOK
  <2>2. progress' \in [Batches -> [Steps -> Progress]]
    <3>1. [p EXCEPT !.status = MarkedStep(r, p)] \in Progress
      BY <1>2, MarkedType
    <3>2. progress' = [progress EXCEPT ![r.batch][r.step] =
                         [p EXCEPT !.status = MarkedStep(r, p)]]
      BY <1>2, <1>5 DEF Mark, TypeOK
    <3>3. QED
      BY <1>2, <3>1, <3>2 DEF TypeOK
  <2>3. torn' \in SUBSET Batches
    BY <1>2, <1>5, TornType DEF Mark
  <2>4. QED
    BY <1>5, <2>1, <2>2, <2>3 DEF Mark, TypeOK, RequestsOK
<1>6. CASE StepOn(w)
  <2>1. RequestsOK'
    BY <1>3, <1>6, DisturbedType DEF StepOn, RequestsOK
  <2>2. status' \in [Batches -> BatchStatus] /\ current' \in [Batches -> 0..Last]
    BY <1>1, <1>6, StepTypes DEF StepOn, TypeOK
  <2>3. QED
    BY <1>6, <2>1, <2>2 DEF StepOn, TypeOK, RequestsOK
<1>7. CASE Finish(w)
  <2>1. RequestsOK'
    BY <1>7, ReleaseType DEF Finish
  <2>2. FinalStatus(r, status[r.batch]) \in BatchStatus
    BY <1>2, FinalTypes DEF TypeOK
  <2>3. status' \in [Batches -> BatchStatus]
    BY <1>2, <1>7, <2>2 DEF Finish, TypeOK
  <2>4. order' \in OrderStatus
    BY <1>2, <1>7, OrderTypes DEF Finish
  <2>5. QED
    BY <1>7, <2>1, <2>3, <2>4 DEF Finish, TypeOK, RequestsOK
<1>8. QED
  BY <1>4, <1>5, <1>6, <1>7

LEMMA HeaderTypes ==
  ASSUME TypeOK, NEW w \in Workers, HeaderSteps(w)
  PROVE  TypeOK'
<1>1. ASSUME NEW op \in HeaderOps, NEW b \in Batches, ReadHeader(w, op, b)  PROVE TypeOK'
  <2>1. [op |-> op, batch |-> b] \in Requests
    BY DEF Requests, HeaderRequests
  <2>2. RequestsOK'
    BY <1>1, <2>1, PutType DEF ReadHeader
  <2>3. QED
    BY <1>1, <2>2 DEF ReadHeader, TypeOK, RequestsOK, floor
<1>2. CASE WriteHeader(w)
  <2>1. RequestsOK'
    BY <1>2, ReleaseType DEF WriteHeader
  <2>2. To(request[w].op) \in BatchStatus
    BY DEF To, BatchStatus
  <2>3. QED
    BY <1>2, <2>1, <2>2 DEF WriteHeader, TypeOK, RequestsOK
<1>3. ASSUME NEW bs \in SUBSET Batches, StartSplit(w, bs)  PROVE TypeOK'
  <2>1. [op |-> "split", batches |-> bs] \in Requests
    BY DEF Requests, SplitRequests
  <2>2. RequestsOK'
    BY <1>3, <2>1, PutType DEF StartSplit
  <2>3. QED
    BY <1>3, <2>2 DEF StartSplit, TypeOK, RequestsOK, floor
<1>4. CASE FinishSplit(w)
  <2>1. RequestsOK'
    BY <1>4, ReleaseType DEF FinishSplit
  <2>2. status' \in [Batches -> BatchStatus]
    BY <1>4 DEF FinishSplit, TypeOK, BatchStatus
  <2>3. QED
    BY <1>4, <2>1, <2>2 DEF FinishSplit, TypeOK, RequestsOK
<1>5. CASE StartCancel(w)
  <2>1. [op |-> "cancel", seen |-> order] \in Requests
    BY DEF Requests, CancelRequests, TypeOK
  <2>2. RequestsOK'
    BY <1>5, <2>1, PutType DEF StartCancel
  <2>3. QED
    BY <1>5, <2>2 DEF StartCancel, TypeOK, RequestsOK, floor
<1>6. CASE FinishCancel(w)
  <2>1. RequestsOK'
    BY <1>6, ReleaseType DEF FinishCancel
  <2>2. status' \in [Batches -> BatchStatus] /\ order' \in OrderStatus
    BY <1>6 DEF FinishCancel, TypeOK, BatchStatus, OrderStatus
  <2>3. QED
    BY <1>6, <2>1, <2>2 DEF FinishCancel, TypeOK, RequestsOK
<1>7. QED
  BY <1>1, <1>2, <1>3, <1>4, <1>5, <1>6 DEF HeaderSteps

LEMMA ReceiptTypes ==
  ASSUME TypeOK, NEW w \in Workers, ReceiptSteps(w)
  PROVE  TypeOK'
<1>1. ASSUME NEW p \in Pickings, StartReceive(w, p)  PROVE TypeOK'
  <2>1. [op |-> "receive", at |-> "read", picking |-> p, last |-> FALSE, alone |-> TRUE]
          \in Requests
    BY DEF Requests, ReceiptRequests
  <2>2. RequestsOK'
    BY <1>1, <2>1, PutType DEF StartReceive
  <2>3. QED
    BY <1>1, <2>2 DEF StartReceive, TypeOK, RequestsOK, floor
<1>2. CASE Book(w)
  <2> DEFINE r == request[w]
             l == NoneActive(picking[r.picking].batch)
  <2>1. r \in ReceiptRequests
    BY <1>2, RequestType DEF Book, At
  <2>2. l \in BOOLEAN
    BY DEF NoneActive
  <2>3. [r EXCEPT !.at = "booked", !.last = l] \in Requests
    BY <2>1, <2>2 DEF ReceiptRequests, Requests
  <2>4. RequestsOK'
    BY <1>2, <2>3, PutType DEF Book
  <2>5. QED
    BY <1>2, <2>4 DEF Book, TypeOK, RequestsOK, floor
<1>3. CASE CommitReceipt(w)
  <2>1. RequestsOK'
    BY <1>3, ReleaseType DEF CommitReceipt
  <2>2. status' \in [Batches -> BatchStatus] /\ order' \in OrderStatus
    BY <1>3 DEF CommitReceipt, TypeOK, BatchStatus, OrderStatus
  <2>3. QED
    BY ZenonT(40), <1>3, <2>1, <2>2 DEF CommitReceipt, TypeOK, RequestsOK
<1>4. QED
  BY <1>1, <1>2, <1>3 DEF ReceiptSteps

LEMMA AbortTypes ==
  ASSUME TypeOK, NEW w \in Workers, Abort(w)
  PROVE  TypeOK'
<1>1. RequestsOK'
  BY PutType DEF Abort
<1>2. Underway(w) => request[w].batch \in Batches
  BY StepTypes DEF Underway, Reporting
<1>3. QED
  BY <1>1, <1>2 DEF Abort, TypeOK, RequestsOK, floor

(* Every variable of Production keeps its type: for any batches, routings,  *)
(* receipts, users and quantities, whatever overlaps and fails.             *)
THEOREM TypeInvariance == Spec => []TypeOK
<1>1. Init => TypeOK
  BY ProductionAssumption DEF Init, TypeOK, OrderStatus, BatchStatus, Progress, Steps
<1>2. TypeOK /\ [Next]_vars => TypeOK'
  <2> SUFFICES ASSUME TypeOK, [Next]_vars  PROVE TypeOK'
    OBVIOUS
  <2>1. ASSUME NEW w \in Workers, ReportSteps(w)  PROVE TypeOK'
    BY <2>1, ReportStartTypes, CountTypes, CommitReportTypes, StatementTypes DEF ReportSteps, Begins
  <2>2. ASSUME NEW p \in Pickings, NEW b \in Batches, AskReceipt(p, b)  PROVE TypeOK'
    BY <2>2 DEF AskReceipt, TypeOK, floor
  <2>3. CASE UNCHANGED vars
    BY <2>3 DEF vars, floor, TypeOK
  <2>4. QED
    BY <2>1, <2>2, <2>3, HeaderTypes, ReceiptTypes, AbortTypes DEF Next
<1>3. QED
  BY <1>1, <1>2, PTL DEF Spec

(***************************************************************************)
(* What a step does to the others                                          *)
(***************************************************************************)

Step(w) == ReportSteps(w) \/ HeaderSteps(w) \/ ReceiptSteps(w) \/ Abort(w)

(* The writes of the quantity or the status of a step *)
Writes(w) == CommitReport(w) \/ Add(w) \/ Mark(w)

(* The other steps that write a batch *)
Moves(w) ==
  StepOn(w) \/ Finish(w) \/ WriteHeader(w) \/ FinishSplit(w) \/ FinishCancel(w) \/ CommitReceipt(w)

Starts(w) ==
  \/ \E b \in Batches, s \in Steps, q \in 1..MaxReport : Begins(w, b, s, q)
  \/ Count(w)
  \/ \E op \in HeaderOps, b \in Batches : ReadHeader(w, op, b)
  \/ \E bs \in SUBSET Batches : StartSplit(w, bs)
  \/ StartCancel(w)
  \/ \E p \in Pickings : StartReceive(w, p)
  \/ Book(w)
  \/ Abort(w)

LEMMA StepKinds ==
  ASSUME NEW w \in Workers, Step(w)
  PROVE  Starts(w) \/ Writes(w) \/ Moves(w)
<1>1. ReportSteps(w) => Starts(w) \/ Writes(w) \/ Moves(w)
  BY DEF ReportSteps, Begins, Starts, Writes, Moves
<1>2. HeaderSteps(w) => Starts(w) \/ Writes(w) \/ Moves(w)
  BY DEF HeaderSteps, Starts, Writes, Moves
<1>3. ReceiptSteps(w) \/ Abort(w) => Starts(w) \/ Writes(w) \/ Moves(w)
  BY DEF ReceiptSteps, Starts, Writes, Moves
<1>4. QED
  BY <1>1, <1>2, <1>3 DEF Step

(* A step of w that only reads, or gives up, leaves the others alone. *)
LEMMA StartsLeave ==
  ASSUME TypeOK, NEW w \in Workers, Starts(w), NEW v \in Workers \ {w}
  PROVE  /\ request'[v] = request[v]
         /\ UNCHANGED <<status, current, progress>>
<1>1. ASSUME NEW x, Put(w, x)  PROVE request'[v] = request[v]
  BY <1>1 DEF Put, TypeOK
<1>2. ASSUME NEW b \in Batches, NEW s \in Steps, NEW q \in 1..MaxReport, Begins(w, b, s, q)
      PROVE  request'[v] = request[v] /\ UNCHANGED <<status, current, progress>>
  <2>1. CASE StartOutsourced(w, b, s, q)
    BY <1>1, <2>1 DEF StartOutsourced, floor
  <2>2. ASSUME NEW g \in 0..q, NEW tx \in BOOLEAN, StartReport(w, b, s, q, g, tx)
        PROVE  request'[v] = request[v] /\ UNCHANGED <<status, current, progress>>
    BY <1>1, <2>2 DEF StartReport, floor
  <2>3. QED
    BY <1>2, <2>1, <2>2 DEF Begins
<1>3. Count(w) => request'[v] = request[v] /\ UNCHANGED <<status, current, progress>>
  BY <1>1 DEF Count
<1>4. \A op \in HeaderOps, b \in Batches :
        ReadHeader(w, op, b) => request'[v] = request[v] /\ UNCHANGED <<status, current, progress>>
  BY <1>1 DEF ReadHeader, floor
<1>5. \A bs \in SUBSET Batches :
        StartSplit(w, bs) => request'[v] = request[v] /\ UNCHANGED <<status, current, progress>>
  BY <1>1 DEF StartSplit, floor
<1>6. StartCancel(w) \/ Book(w) \/ Abort(w)
        => request'[v] = request[v] /\ UNCHANGED <<status, current, progress>>
  BY <1>1 DEF StartCancel, Book, Abort, floor
<1>7. \A p \in Pickings :
        StartReceive(w, p) => request'[v] = request[v] /\ UNCHANGED <<status, current, progress>>
  BY <1>1 DEF StartReceive, floor
<1>8. QED
  BY <1>2, <1>3, <1>4, <1>5, <1>6, <1>7 DEF Starts

LEMMA Writer ==
  ASSUME NEW w \in Workers
  PROVE  /\ Writes(w) => Reporting(w) /\ ~Booked(w) /\ request[w].at \in {"counted", "added"}
         /\ StepOn(w) \/ Finish(w) => Reporting(w) /\ ~Booked(w)
         /\ Add(w) \/ Mark(w) \/ StepOn(w) \/ Finish(w) => ~request[w].tx
<1>1. Writes(w) => Reporting(w) /\ ~Booked(w) /\ request[w].at \in {"counted", "added"}
  BY DEF Writes, CommitReport, Add, Mark, Underway, At, Doing, Booked, Reporting
<1>2. StepOn(w) \/ Finish(w) => Reporting(w) /\ ~Booked(w)
  BY DEF StepOn, Finish, Underway, At, Doing, Booked, Reporting
<1>3. Add(w) \/ Mark(w) \/ StepOn(w) \/ Finish(w) => ~request[w].tx
  BY DEF Add, Mark, StepOn, Finish, Underway
<1>4. QED
  BY <1>1, <1>2, <1>3

(* A write of a step marks those who have read it. *)
LEMMA WritesMark ==
  ASSUME TypeOK, NEW w \in Workers, Writes(w), NEW v \in Workers \ {w}
  PROVE  /\ HasRead(v, w) => request'[v] = [request[v] EXCEPT !.clash = TRUE]
         /\ ~HasRead(v, w) => request'[v] = Disturb(w)[v]
<1>1. DisturbStep(w) \in [Workers -> {Free} \cup Requests]
  BY DisturbedType
<1>2. request'[v] = DisturbStep(w)[v]
  BY <1>1 DEF Writes, CommitReport, Add, Mark
<1>3. QED
  BY <1>2, DisturbStepType

(* The other steps that write a batch mark only receipts. *)
LEMMA MovesMark ==
  ASSUME TypeOK, NEW w \in Workers, Moves(w), NEW v \in Workers \ {w}
  PROVE  /\ request'[v] = Disturb(w)[v]
         /\ UNCHANGED <<progress, reports, torn>>
<1>1. Disturb(w) \in [Workers -> {Free} \cup Requests]
  BY DisturbedType
<1>2. Release(w) => request'[v] = Disturb(w)[v]
  BY <1>1 DEF Release
<1>3. StepOn(w) => request'[v] = Disturb(w)[v] /\ UNCHANGED <<progress, reports, torn>>
  BY <1>1 DEF StepOn
<1>4. Finish(w) \/ WriteHeader(w) \/ FinishSplit(w)
        => request'[v] = Disturb(w)[v] /\ UNCHANGED <<progress, reports, torn>>
  BY <1>2 DEF Finish, WriteHeader, FinishSplit
<1>5. FinishCancel(w) \/ CommitReceipt(w)
        => request'[v] = Disturb(w)[v] /\ UNCHANGED <<progress, reports, torn>>
  BY <1>2 DEF FinishCancel, CommitReceipt
<1>6. QED
  BY <1>3, <1>4, <1>5 DEF Moves

(* All that a step of w does to another report is to mark a clash. *)
LEMMA ReportsKept ==
  ASSUME TypeOK, NEW w \in Workers, Step(w), NEW v \in Workers \ {w}
  PROVE  /\ Doing(v, "report")' <=> Doing(v, "report")
         /\ Doing(v, "outsourced")' <=> Doing(v, "outsourced")
         /\ Reporting(v) => \/ request'[v] = request[v]
                            \/ HasRead(v, w) /\ request'[v] = [request[v] EXCEPT !.clash = TRUE]
         /\ Writes(w) /\ HasRead(v, w) => request'[v] = [request[v] EXCEPT !.clash = TRUE]
<1>1. \/ request'[v] = request[v]
      \/ request'[v] = Disturb(w)[v]
      \/ HasRead(v, w) /\ request'[v] = [request[v] EXCEPT !.clash = TRUE]
  BY StepKinds, StartsLeave, WritesMark, MovesMark
<1>2. CASE request'[v] = request[v]
  BY <1>2, WritesMark DEF Doing
<1>3. CASE HasRead(v, w) /\ request'[v] = [request[v] EXCEPT !.clash = TRUE]
  <2>1. request[v] \in ReportRequests /\ request[v] # Free
    BY <1>3, RequestType DEF HasRead, Reporting, Doing
  <2>2. request'[v] \in ReportRequests /\ request'[v].op = request[v].op
    BY <1>3, <2>1 DEF ReportRequests
  <2>3. request'[v] # Free
    BY <2>2, FreeAssumption DEF Requests
  <2>4. QED
    BY <1>3, <2>1, <2>2, <2>3 DEF Doing
<1>4. CASE request'[v] = Disturb(w)[v] /\ request'[v] # request[v]
  <2>1. Booked(v) /\ request'[v] = [request[v] EXCEPT !.alone = FALSE]
    BY <1>4, DisturbType
  <2>2. request[v] \in ReceiptRequests /\ request[v].op = "receive"
    BY <2>1, RequestType DEF Booked, At, Doing
  <2>3. request'[v].op = "receive"
    BY <2>1, <2>2 DEF ReceiptRequests
  <2>4. ~Reporting(v) /\ ~HasRead(v, w)
    BY <2>2 DEF Reporting, Doing, HasRead
  <2>5. QED
    BY <2>2, <2>3, <2>4 DEF Doing, Reporting
<1>5. QED
  BY <1>1, <1>2, <1>3, <1>4

(***************************************************************************)
(* Receipts                                                                *)
(***************************************************************************)

Receiving(w) == Doing(w, "receive") => picking[request[w].picking].status # "None"

PickingHasBatch == \A p \in Pickings : picking[p].status # "None" => picking[p].batch \in Batches

OneBooked == \A v, w \in Workers : Booked(v) /\ Booked(w) => v = w

(* What a receipt has found out stays true as long as it is alone. *)
LastIsLast ==
  \A w \in Workers : Booked(w) /\ request[w].alone =>
    (request[w].last <=> NoneActive(picking[request[w].picking].batch))

ReceiptInv ==
  PickingHasBatch /\ (\A w \in Workers : Receiving(w)) /\ OneBooked /\ LastIsLast

(* Another's receipt is as it was, but for the mark that it is not alone. *)
LEMMA ReceiptsKept ==
  ASSUME TypeOK, NEW w \in Workers, Step(w), NEW v \in Workers \ {w}
  PROVE  /\ Doing(v, "receive")' => Doing(v, "receive")
         /\ Doing(v, "receive") => request'[v].picking = request[v].picking
         /\ Booked(v)' => Booked(v)
         /\ Booked(v) => request'[v] = request[v] \/ ~request'[v].alone
         /\ Booked(v) /\ ~Booked(w) /\ request'[v].alone => status' = status
<1>1. CASE Starts(w)
  BY <1>1, StartsLeave DEF Doing, Booked, At
<1>2. CASE HasRead(v, w) /\ request'[v] = [request[v] EXCEPT !.clash = TRUE]
  <2>1. Reporting(v)
    BY <1>2 DEF HasRead
  <2>2. Doing(v, "report")' \/ Doing(v, "outsourced")'
    BY <2>1, ReportsKept DEF Reporting
  <2>3. QED
    BY <2>1, <2>2 DEF Reporting, Doing, Booked, At
<1>3. CASE request'[v] = Disturb(w)[v]
  <2>1. CASE Booked(v) /\ ~Booked(w)
    <3>1. request'[v] = [request[v] EXCEPT !.alone = FALSE]
      BY <1>3, <2>1, DisturbType
    <3>2. request[v] \in ReceiptRequests
      BY <2>1, RequestType DEF Booked, At
    <3>3. /\ request'[v].picking = request[v].picking
          /\ request'[v].alone = FALSE
      BY <3>1, <3>2 DEF ReceiptRequests
    <3>4. QED
      BY <2>1, <3>3 DEF Booked, At
  <2>2. CASE ~(Booked(v) /\ ~Booked(w))
    <3>1. request'[v] = request[v]
      BY <1>3, <2>2, DisturbType
    <3>2. QED
      BY <2>2, <3>1 DEF Doing, Booked, At
  <2>3. QED
    BY <2>1, <2>2
<1>4. QED
  BY <1>1, <1>2, <1>3, StepKinds, WritesMark, MovesMark

(* A receipt that was asked for keeps its batch, and is never unasked for. *)
LEMMA PickingKept ==
  ASSUME TypeOK, NEW w \in Workers, Step(w), \A v \in Workers : Receiving(v),
         NEW p \in Pickings
  PROVE  /\ picking'[p].batch = picking[p].batch
         /\ picking'[p].status = "None" <=> picking[p].status = "None"
         /\ picking'[p] # picking[p] => CommitReceipt(w) /\ request[w].picking = p
<1>1. CASE CommitReceipt(w)
  <2> DEFINE q == request[w].picking
  <2>1. Doing(w, "receive") /\ q \in Pickings
    BY <1>1, RequestType DEF CommitReceipt, Booked, At, ReceiptRequests
  <2>2. picking[q].status # "None"
    BY <2>1 DEF Receiving
  <2>3. picking' = [picking EXCEPT ![q].status = "Done"]
    BY <1>1 DEF CommitReceipt
  <2>4. picking'[p] = IF p = q THEN [picking[p] EXCEPT !.status = "Done"] ELSE picking[p]
    BY <2>3 DEF TypeOK
  <2>5. p = q => picking'[p].status = "Done" /\ picking'[p].batch = picking[p].batch
    BY <2>4 DEF TypeOK
  <2>6. QED
    BY <1>1, <2>2, <2>4, <2>5
<1>2. CASE ~CommitReceipt(w)
  <2>1. ReportSteps(w) => picking' = picking
    BY ZenonT(40) DEF ReportSteps, Begins, StartReport, StartOutsourced, Count, CommitReport, Add,
                      Mark, StepOn, Finish
  <2>2. HeaderSteps(w) => picking' = picking
    BY DEF HeaderSteps, ReadHeader, WriteHeader, StartSplit, FinishSplit, StartCancel, FinishCancel
  <2>3. ReceiptSteps(w) \/ Abort(w) => picking' = picking
    BY <1>2 DEF ReceiptSteps, StartReceive, Book, Abort
  <2>4. QED
    BY <2>1, <2>2, <2>3 DEF Step
<1>3. QED
  BY <1>1, <1>2

LEMMA ReceiptStep ==
  ASSUME TypeOK, ReceiptInv, NEW w \in Workers, Step(w)
  PROVE  ReceiptInv'
<1>1. /\ PickingHasBatch /\ OneBooked /\ LastIsLast
      /\ \A v \in Workers : Receiving(v)
  BY DEF ReceiptInv
<1>2. PickingHasBatch'
  BY <1>1, PickingKept DEF PickingHasBatch
(* w is receiving afterwards if it was, or has just started. *)
<1>3. Doing(w, "receive")' => \/ \E p \in Pickings : StartReceive(w, p)
                              \/ Book(w)
  <2>1. ASSUME NEW x, Put(w, x)  PROVE request'[w] = x
    BY <2>1 DEF Put, TypeOK
  <2>2. ASSUME Release(w)  PROVE request'[w] = Free
    BY <2>2, DisturbedType DEF Release
  <2>3. ASSUME Reporting(w)'  PROVE ~Doing(w, "receive")'
    BY <2>3 DEF Reporting, Doing
  <2>4. ASSUME NEW x, request' = [DisturbStep(w) EXCEPT ![w] = x]
                      \/ request' = [Disturb(w) EXCEPT ![w] = x]
        PROVE request'[w] = x
    BY <2>4, DisturbedType
  <2>5. ASSUME NEW b \in Batches, NEW s \in Steps, NEW q \in 1..MaxReport,
               Begins(w, b, s, q)
        PROVE ~Doing(w, "receive")'
    <3>1. CASE StartOutsourced(w, b, s, q)
      BY <2>1, <3>1 DEF StartOutsourced, Doing
    <3>2. ASSUME NEW g \in 0..q, NEW tx \in BOOLEAN, StartReport(w, b, s, q, g, tx)
          PROVE  ~Doing(w, "receive")'
      BY <2>1, <3>2 DEF StartReport, Doing
    <3>3. QED
      BY <2>5, <3>1, <3>2 DEF Begins
  <2>6. Reporting(w) /\ request[w] \in ReportRequests
          => \A at \in {"counted", "added", "marked", "stepped"} :
               [request[w] EXCEPT !.at = at].op # "receive"
    BY DEF ReportRequests, Reporting, Doing
  <2>7. Count(w) => ~Doing(w, "receive")'
    <3>1. SUFFICES ASSUME Count(w)  PROVE ~Doing(w, "receive")'
      OBVIOUS
    <3>2. request[w] \in ReportRequests
      BY <3>1, StepTypes DEF Count, At, Reporting
    <3>3. \A x, y, z : [request[w] EXCEPT !.at = "counted", !.prev = x, !.prevGood = y,
                                          !.first = z].op # "receive"
      BY <3>2 DEF ReportRequests
    <3>4. PICK x, y, z : \/ Put(w, [request[w] EXCEPT !.at = "counted", !.prev = x,
                                                      !.prevGood = y, !.first = z])
                         \/ Put(w, Free)
      BY <3>1 DEF Count
    <3>5. QED
      BY <2>1, <3>3, <3>4 DEF Doing
  <2>8. Writes(w) \/ StepOn(w) \/ Finish(w) => ~Doing(w, "receive")'
    <3>1. Writes(w) \/ StepOn(w) => Reporting(w) /\ request[w] \in ReportRequests
      BY Writer, StepTypes
    <3>2. CommitReport(w) => request'[w] = Free
      BY <2>4 DEF CommitReport
    <3>3. Add(w) => request'[w] = [request[w] EXCEPT !.at = "added"]
      BY <2>4 DEF Add
    <3>4. Mark(w) => request'[w] = [request[w] EXCEPT !.at = "marked"]
      BY <2>4 DEF Mark
    <3>5. StepOn(w) => request'[w] \in {Free, [request[w] EXCEPT !.at = "stepped"]}
      BY <2>4 DEF StepOn
    <3>6. Finish(w) => request'[w] = Free
      BY <2>2 DEF Finish
    <3>7. QED
      BY <2>6, <3>1, <3>2, <3>3, <3>4, <3>5, <3>6 DEF Writes, Doing
  <2>9. HeaderSteps(w) => ~Doing(w, "receive")'
    <3>1. \A op \in HeaderOps, b \in Batches : ReadHeader(w, op, b) => ~Doing(w, "receive")'
      BY <2>1 DEF ReadHeader, Doing, HeaderOps
    <3>2. \A bs \in SUBSET Batches : StartSplit(w, bs) => ~Doing(w, "receive")'
      BY <2>1 DEF StartSplit, Doing
    <3>3. StartCancel(w) => ~Doing(w, "receive")'
      BY <2>1 DEF StartCancel, Doing
    <3>4. WriteHeader(w) \/ FinishSplit(w) \/ FinishCancel(w) => ~Doing(w, "receive")'
      BY <2>2 DEF WriteHeader, FinishSplit, FinishCancel, Doing
    <3>5. QED
      BY <3>1, <3>2, <3>3, <3>4 DEF HeaderSteps
  <2>10. CommitReceipt(w) \/ Abort(w) => ~Doing(w, "receive")'
    BY <2>1, <2>2 DEF CommitReceipt, Abort, Doing
  <2>11. ReportSteps(w) => ~Doing(w, "receive")'
    BY <2>5, <2>7, <2>8 DEF ReportSteps, Begins, Writes
  <2>12. QED
    BY <2>9, <2>10, <2>11 DEF Step, ReceiptSteps
(* ... and then its receipt exists. *)
<1>4. \A v \in Workers : Receiving(v)'
  <2>1. ASSUME NEW v \in Workers \ {w}  PROVE Receiving(v)'
    <3>1. Doing(v, "receive") => request[v].picking \in Pickings
      BY RequestType DEF ReceiptRequests
    <3>2. QED
      BY <1>1, <3>1, ReceiptsKept, PickingKept DEF Receiving
  <2>2. Receiving(w)'
    <3>1. ASSUME NEW p \in Pickings, StartReceive(w, p)  PROVE Receiving(w)'
      BY <3>1 DEF StartReceive, Put, TypeOK, Receiving
    <3>2. ASSUME Book(w)  PROVE Receiving(w)'
      <4>1. request[w] \in ReceiptRequests
        BY <3>2, RequestType DEF Book, At
      <4>2. request'[w].picking = request[w].picking
        BY <3>2, <4>1 DEF Book, Put, TypeOK, ReceiptRequests
      <4>3. QED
        BY <1>1, <3>2, <4>2 DEF Book, At, Receiving
    <3>3. QED
      BY <1>3, <3>1, <3>2 DEF Receiving
  <2>3. QED
    BY <2>1, <2>2
<1>5. Booked(w)' => Book(w)
  <2>1. ASSUME NEW p \in Pickings, StartReceive(w, p)  PROVE ~Booked(w)'
    BY <2>1 DEF StartReceive, Put, TypeOK, Booked, At
  <2>2. QED
    BY <1>3, <2>1 DEF Booked, At
<1>6. Book(w) => \A v \in Workers \ {w} : ~Booked(v)'
  BY ReceiptsKept DEF Book, BackflushFree
<1>7. OneBooked'
  <2>1. SUFFICES ASSUME NEW v \in Workers, NEW u \in Workers, Booked(v)', Booked(u)'
                 PROVE  v = u
    BY DEF OneBooked
  <2>2. CASE v # w /\ u # w
    BY <1>1, <2>1, <2>2, ReceiptsKept DEF OneBooked
  <2>3. CASE v = w \/ u = w
    BY <1>5, <1>6, <2>1, <2>3
  <2>4. QED
    BY <2>2, <2>3
<1>8. LastIsLast'
  <2>1. SUFFICES ASSUME NEW v \in Workers, Booked(v)', request'[v].alone
                 PROVE  request'[v].last <=> NoneActive(picking[request[v].picking].batch)'
    BY DEF LastIsLast
  <2>2. CASE v = w
    <3>1. Book(w)
      BY <1>5, <2>1, <2>2
    <3>2. request[w] \in ReceiptRequests
      BY <3>1, RequestType DEF Book, At
    <3>3. /\ request'[w].picking = request[w].picking
          /\ request'[w].last = NoneActive(picking[request[w].picking].batch)
      BY <3>1, <3>2 DEF Book, Put, TypeOK, ReceiptRequests
    <3>4. UNCHANGED <<status, picking>>
      BY <3>1 DEF Book, floor
    <3>5. QED
      BY <2>2, <3>3, <3>4 DEF NoneActive, Existing
  <2>3. CASE v # w
    <3>1. Booked(v) /\ request'[v] = request[v]
      BY <2>1, <2>3, ReceiptsKept
    <3>2. CASE Booked(w)
      BY <1>1, <2>3, <3>1, <3>2 DEF OneBooked
    <3>3. CASE ~Booked(w)
      <4>1. status' = status
        BY <2>1, <2>3, <3>1, <3>3, ReceiptsKept
      <4>2. request[v].picking \in Pickings
        BY <3>1, RequestType DEF Booked, At, ReceiptRequests
      <4>3. picking'[request[v].picking].batch = picking[request[v].picking].batch
        BY <1>1, <4>2, PickingKept
      <4>4. NoneActive(picking[request[v].picking].batch)
              <=> NoneActive(picking[request[v].picking].batch)'
        BY <3>1, <4>1, <4>3 DEF NoneActive, Existing
      <4>5. QED
        BY <1>1, <2>1, <3>1, <4>4 DEF LastIsLast
    <3>4. QED
      BY <3>2, <3>3
  <2>4. QED
    BY <2>2, <2>3
<1>9. QED
  BY <1>2, <1>4, <1>7, <1>8 DEF ReceiptInv

LEMMA AskStep ==
  ASSUME TypeOK, ReceiptInv, NEW p \in Pickings, NEW b \in Batches, AskReceipt(p, b)
  PROVE  /\ ReceiptInv'
         /\ \A w \in Workers : Doing(w, "receive") =>
               picking'[request[w].picking] = picking[request[w].picking]
<1>1. /\ UNCHANGED <<status, request>>
      /\ picking[p].status = "None"
      /\ picking' = [picking EXCEPT ![p] = [status |-> "Draft", batch |-> b]]
  BY DEF AskReceipt, floor
<1>2. \A q \in Pickings : picking'[q] = IF q = p THEN [status |-> "Draft", batch |-> b]
                                        ELSE picking[q]
  BY <1>1 DEF TypeOK
<1>3. ASSUME NEW w \in Workers, Doing(w, "receive")
      PROVE  /\ picking'[request[w].picking] = picking[request[w].picking]
             /\ picking[request[w].picking].status # "None"
  <2>1. request[w].picking \in Pickings
    BY <1>3, RequestType DEF ReceiptRequests
  <2>2. picking[request[w].picking].status # "None"
    BY <1>3 DEF ReceiptInv, Receiving
  <2>3. QED
    BY <1>1, <1>2, <2>1, <2>2
<1>4. PickingHasBatch'
  BY <1>2 DEF ReceiptInv, PickingHasBatch
<1>5. \A w \in Workers : Receiving(w)'
  BY <1>1, <1>3 DEF Receiving, Doing
<1>6. OneBooked'
  BY <1>1 DEF ReceiptInv, OneBooked, Booked, At, Doing
<1>7. LastIsLast'
  <2>1. SUFFICES ASSUME NEW w \in Workers, Booked(w)', request'[w].alone
                 PROVE  request'[w].last <=> NoneActive(picking[request[w].picking].batch)'
    BY DEF LastIsLast
  <2>2. Booked(w) /\ request[w].alone
    BY <1>1, <2>1 DEF Booked, At, Doing
  <2>3. picking'[request[w].picking] = picking[request[w].picking]
    BY <1>3, <2>2 DEF Booked, At
  <2>4. NoneActive(picking[request[w].picking].batch)
          <=> NoneActive(picking[request[w].picking].batch)'
    BY <1>1, <2>3 DEF NoneActive, Existing
  <2>5. QED
    BY <1>1, <2>2, <2>4 DEF ReceiptInv, LastIsLast
<1>8. QED
  BY <1>3, <1>4, <1>5, <1>6, <1>7 DEF ReceiptInv

LEMMA ReceiptStutter ==
  ASSUME ReceiptInv, UNCHANGED vars
  PROVE  ReceiptInv'
<1>1. UNCHANGED <<status, picking, request>>
  BY DEF vars, floor
<1>2. PickingHasBatch' /\ \A w \in Workers : Receiving(w)'
  BY <1>1 DEF ReceiptInv, PickingHasBatch, Receiving, Doing
<1>3. OneBooked'
  BY <1>1 DEF ReceiptInv, OneBooked, Booked, At, Doing
<1>4. LastIsLast'
  <2>1. \A b : NoneActive(b) <=> NoneActive(b)'
    BY <1>1 DEF NoneActive, Existing
  <2>2. \A w \in Workers : Booked(w)' <=> Booked(w)
    BY <1>1 DEF Booked, At, Doing
  <2>3. QED
    BY <1>1, <2>1, <2>2 DEF ReceiptInv, LastIsLast
<1>5. QED
  BY <1>2, <1>3, <1>4 DEF ReceiptInv

(* The commit of a receipt that is alone closes the order just when it      *)
(* leaves no batch unfinished.                                              *)
LEMMA ClosesStep ==
  ASSUME TypeOK, ReceiptInv, [Next]_vars, NEW v \in Workers,
         Booked(v), request[v].alone, order = "InProduction",
         picking'[request[v].picking] # picking[request[v].picking]
  PROVE  order' = "Closed" <=> \A b \in Batches : status'[b] \in Finished \cup {"None"}
<1> DEFINE q == request[v].picking
           b0 == picking[q].batch
<1>1. q \in Pickings
  BY RequestType DEF Booked, At, ReceiptRequests
<1>2. \A w \in Workers : Receiving(w)
  BY DEF ReceiptInv
<1>3. Doing(v, "receive")
  BY DEF Booked, At
<1>4. PICK w \in Workers : Step(w)
  <2>1. ~UNCHANGED vars
    BY DEF vars
  <2>2. \A p \in Pickings, b \in Batches : ~AskReceipt(p, b)
    BY <1>3, AskStep
  <2>3. QED
    BY <2>1, <2>2 DEF Next, Step
<1>5. CommitReceipt(w)
  BY <1>1, <1>2, <1>4, PickingKept
<1>6. w = v
  BY <1>5 DEF CommitReceipt, ReceiptInv, OneBooked
<1>7. status' = [status EXCEPT ![b0] = "Completed"]
  BY <1>5, <1>6 DEF CommitReceipt
<1>8. b0 \in Batches
  BY <1>1, <1>2, <1>3 DEF ReceiptInv, PickingHasBatch, Receiving
<1>9. order' = "Closed" <=> request[v].last
  BY <1>5, <1>6 DEF CommitReceipt
<1>10. request[v].last <=> NoneActive(b0)
  BY DEF ReceiptInv, LastIsLast
<1>11. \A b \in Batches : status'[b] = IF b = b0 THEN "Completed" ELSE status[b]
  BY <1>7, <1>8 DEF TypeOK
<1>12. NoneActive(b0) <=> \A b \in Batches \ {b0} : status[b] \in Finished \cup {"None"}
  BY DEF NoneActive, Existing
<1>13. "Completed" \in Finished
  BY DEF Finished
<1>14. QED
  BY <1>9, <1>10, <1>11, <1>12, <1>13

(* A receipt closes its order if and only if it leaves no batch unfinished, *)
(* for any number of overlapping receipts: the number of the backflush lets *)
(* them compare the batches one after the other.                            *)
THEOREM ReceiptsClose == Spec => ClosesWithLastReceipt
<1>1. Init => ReceiptInv
  BY DEF Init, ReceiptInv, PickingHasBatch, OneBooked, LastIsLast, Receiving, Booked, At, Doing
<1>2. TypeOK /\ ReceiptInv /\ [Next]_vars => ReceiptInv'
  BY ReceiptStep, AskStep, ReceiptStutter DEF Next, Step
<1>3. TypeOK /\ ReceiptInv /\ [Next]_vars =>
        [\A w \in Workers :
           /\ Booked(w) /\ request[w].alone /\ order = "InProduction"
           /\ picking'[request[w].picking] # picking[request[w].picking]
           => (order' = "Closed" <=> \A b \in Batches : status'[b] \in Finished \cup {"None"})]_vars
  BY ClosesStep
<1>4. QED
  BY <1>1, <1>2, <1>3, TypeInvariance, PTL DEF Spec, ClosesWithLastReceipt

(***************************************************************************)
(* Reports: the inductive invariant                                        *)
(***************************************************************************)

(* A report that is in doubt: between its count and its mark, on a bare     *)
(* connection, and somebody has written its step since.  It tears its batch *)
(* whether it goes on or fails.                                             *)
InDoubt(w) ==
  /\ Reporting(w) /\ ~request[w].tx /\ request[w].at \in {"counted", "added"}
  /\ request[w].clash

Doomed(b) == b \in torn \/ \E w \in Workers : InDoubt(w) /\ request[w].batch = b

Passed(b, s) ==
  \/ progress[b][s].status = "Completed"
  \/ \E t \in Outsourced : t > s /\ progress[b][t].status = "Completed"

(* What a report has read of its step, against what is there now.           *)
ReadBefore(w) ==
  LET r == request[w]
      p == progress[r.batch][r.step]
  IN /\ r.at = "counted" => p.qty >= r.prev /\ (~r.clash => p.qty = r.prev)
     /\ r.at = "added" => p.qty >= r.prev + r.qty /\ (~r.clash => p.qty = r.prev + r.qty)
     /\ r.at = "counted" /\ ~r.clash => p.good = r.prevGood
     /\ r.at = "added" /\ ~r.clash => p.good = r.prevGood + r.good
     /\ r.at \in {"counted", "added"} /\ r.first /\ ~r.clash => p.status = "Pending"

Shape(w) ==
  LET r == request[w]
  IN /\ r.tx => r.op = "report" /\ r.at \in {"read", "counted"}
     /\ r.good <= r.qty /\ r.prevGood <= r.prev
     /\ r.op = "outsourced" => r.at # "read" /\ r.step \in Outsourced
     /\ r.op = "report" /\ r.step = Last /\ r.at = "counted"
          => r.prev + r.qty <= BatchQty[r.batch] + Allowance

ReadsHold == \A w \in Workers : Reporting(w) => ReadBefore(w) /\ Shape(w)

HasNumber(w) == At(w, "report", "counted") /\ request[w].tx

OneNumber == \A v, w \in Workers : HasNumber(v) /\ HasNumber(w) => v = w

Adding(w, b, s) ==
  Reporting(w) /\ request[w].at = "added" /\ request[w].batch = b /\ request[w].step = s

MarkedIsDone ==
  \A w \in Workers :
    LET r == request[w]
    IN Reporting(w) /\ r.at = "marked" /\ StepDone(r) /\ r.batch \notin torn
         => progress[r.batch][r.step].status = "Completed"

(* Steps before one that is reported, or about to be, are passed.           *)
Ahead(b, s) ==
  \/ s <= current[b]
  \/ \E t \in Steps : t > s /\ reports[b][t] > 0
  \/ \E w \in Workers : Doing(w, "report") /\ request[w].batch = b /\ s < request[w].step

InOrder == \A b \in Batches \ torn, s \in Steps : Ahead(b, s) => Passed(b, s)

DoneIsEnough ==
  \A b \in Batches, s \in Steps :
    progress[b][s].status = "Completed" => progress[b][s].qty >= BatchQty[b]

(* Good pieces count for everybody, bad ones only for a report.             *)
Enough(b, s) ==
  \/ progress[b][s].good >= BatchQty[b]
  \/ s \notin Outsourced /\ progress[b][s].qty >= BatchQty[b]

EnoughIsDone ==
  \A b \in Batches, s \in Steps :
    /\ ~Doomed(b) /\ \A w \in Workers : ~Adding(w, b, s)
    /\ Enough(b, s)
    => progress[b][s].status = "Completed"

(* A bare report of the last step whose pieces are in work_reports, but not *)
(* yet in the progress of the step.                                         *)
Counting(w, b) ==
  At(w, "report", "counted") /\ ~request[w].tx /\ request[w].batch = b /\ request[w].step = Last

CountedOnce ==
  \A b \in Batches :
    ~Doomed(b) =>
      /\ (\A w \in Workers : ~Counting(w, b)) =>
           /\ reports[b][Last] <= progress[b][Last].qty
           /\ reports[b][Last] <= BatchQty[b] + Allowance
      /\ \A w \in Workers :
           Counting(w, b) /\ (\A v \in Workers \ {w} : ~Counting(v, b)) =>
             reports[b][Last] <= progress[b][Last].qty + request[w].qty

GoodAmongAll == \A b \in Batches, s \in Steps : progress[b][s].good <= progress[b][s].qty

ReportInv ==
  /\ GoodAmongAll /\ ReadsHold /\ OneNumber /\ MarkedIsDone
  /\ InOrder /\ DoneIsEnough /\ EnoughIsDone /\ CountedOnce

(* What w writes of a step: its status, its quantity or both; only of the   *)
(* step that it reports.                                                    *)
Before(w) == progress[request[w].batch][request[w].step]

WrittenAs(w, st, q, g) ==
  /\ progress'[request[w].batch][request[w].step].status = st
  /\ progress'[request[w].batch][request[w].step].qty = Before(w).qty + q
  /\ progress'[request[w].batch][request[w].step].good = Before(w).good + g

LEMMA Written ==
  ASSUME TypeOK, NEW w \in Workers, Writes(w)
  PROVE  /\ CommitReport(w) => WrittenAs(w, MarkedStep(request[w], Before(w)),
                                         request[w].qty, request[w].good)
         /\ Add(w) => WrittenAs(w, Before(w).status, request[w].qty, request[w].good)
         /\ Mark(w) => WrittenAs(w, MarkedStep(request[w], Before(w)), 0, 0)
         /\ \A b \in Batches, s \in Steps :
              b # request[w].batch \/ s # request[w].step => progress'[b][s] = progress[b][s]
<1> DEFINE r == request[w]
           p == progress[r.batch][r.step]
           a == Added(r)[r.batch][r.step]
           m == MarkedStep(r, p)
<1>1. r \in ReportRequests /\ r.batch \in Batches /\ r.step \in Steps
      /\ r.qty \in Nat /\ r.good \in Nat /\ p \in Progress
  BY Writer, StepTypes
<1>2. a = [status |-> p.status, qty |-> p.qty + r.qty, good |-> p.good + r.good] /\ a \in Progress
  BY <1>1, AddedType
<1>3. ASSUME NEW n, progress' = [progress EXCEPT ![r.batch][r.step] = n]
      PROVE  /\ progress'[r.batch][r.step] = n
             /\ \A b \in Batches, s \in Steps :
                  b # r.batch \/ s # r.step => progress'[b][s] = progress[b][s]
  BY <1>1, <1>3 DEF TypeOK
<1>4. CASE CommitReport(w)
  <2> DEFINE n == [status |-> m, qty |-> p.qty + r.qty, good |-> p.good + r.good]
  <2>1. [a EXCEPT !.status = MarkedStep(r, a)] = n
    <3>1. [a EXCEPT !.status = MarkedStep(r, a)]
            = [status |-> MarkedStep(r, a), qty |-> a.qty, good |-> a.good]
      BY <1>1, <1>2, MarkedType
    <3>2. a.status = p.status /\ a.qty = p.qty + r.qty /\ a.good = p.good + r.good
      BY <1>2
    <3>3. MarkedStep(r, a) = m
      BY <3>2 DEF MarkedStep
    <3>4. QED
      BY <3>1, <3>2, <3>3
  <2>2. progress' = [progress EXCEPT ![r.batch][r.step] = n]
    BY <1>4, <2>1 DEF CommitReport
  <2>3. ~Add(w) /\ ~Mark(w)
    BY <1>4 DEF CommitReport, Add, Mark, Underway
  <2>4. progress'[r.batch][r.step] = n
    BY <1>3, <2>2
  <2>5. WrittenAs(w, m, r.qty, r.good)
    BY <2>4 DEF WrittenAs, Before
  <2>6. QED
    BY <1>3, <2>2, <2>3, <2>5 DEF Before
<1>5. CASE Add(w)
  <2>1. progress' = Added(r)
    BY <1>5 DEF Add
  <2>2. progress'[r.batch][r.step] = a
    BY <2>1
  <2>3. ~CommitReport(w) /\ ~Mark(w)
    BY <1>5 DEF CommitReport, Add, Mark, Underway
  <2>4. WrittenAs(w, p.status, r.qty, r.good)
    BY <1>2, <2>2 DEF WrittenAs, Before
  <2>5. \A b \in Batches, s \in Steps :
          b # r.batch \/ s # r.step => progress'[b][s] = progress[b][s]
    BY <1>1, <2>1, AddedType
  <2>6. QED
    BY <2>3, <2>4, <2>5 DEF Before
<1>6. CASE Mark(w)
  <2> DEFINE n == [status |-> m, qty |-> p.qty, good |-> p.good]
  <2>1. progress' = [progress EXCEPT ![r.batch][r.step] = [p EXCEPT !.status = m]]
    BY <1>1, <1>6 DEF Mark, TypeOK
  <2>2. [p EXCEPT !.status = m] = n
    BY <1>1, MarkedType
  <2>3. ~CommitReport(w) /\ ~Add(w)
    BY <1>6 DEF CommitReport, Add, Mark, Underway
  <2>4. progress'[r.batch][r.step] = n
    BY <1>3, <2>1, <2>2
  <2>5. WrittenAs(w, m, 0, 0)
    BY <1>1, <2>4 DEF WrittenAs, Before, Progress
  <2>6. QED
    BY <1>3, <2>1, <2>3, <2>5 DEF Before
<1>7. QED
  BY <1>4, <1>5, <1>6 DEF Writes

LEMMA Unwritten ==
  ASSUME TypeOK, NEW w \in Workers, Step(w), ~Writes(w)
  PROVE  progress' = progress
<1>1. ASSUME NEW b \in Batches, NEW s \in Steps, NEW q \in 1..MaxReport,
             Begins(w, b, s, q)
      PROVE  progress' = progress
  BY <1>1 DEF Begins, StartReport, StartOutsourced, floor
<1>2. ReportSteps(w) => progress' = progress
  BY <1>1 DEF ReportSteps, Begins, Count, StepOn, Finish, Writes
<1>3. HeaderSteps(w) => progress' = progress
  BY DEF HeaderSteps, ReadHeader, WriteHeader, StartSplit, FinishSplit, StartCancel, FinishCancel, floor
<1>4. ReceiptSteps(w) \/ Abort(w) => progress' = progress
  BY DEF ReceiptSteps, StartReceive, Book, CommitReceipt, Abort, floor
<1>5. QED
  BY <1>2, <1>3, <1>4 DEF Step

(* No step takes pieces away. *)
LEMMA QtyGrows ==
  ASSUME TypeOK, NEW w \in Workers, Step(w), NEW b \in Batches, NEW s \in Steps
  PROVE  progress'[b][s].qty >= progress[b][s].qty
<1>1. progress[b][s].qty \in Nat
  BY DEF TypeOK, Progress
<1>2. Writes(w) => request[w].qty \in Nat
  BY Writer, StepTypes
<1>3. CASE Writes(w) /\ request[w].batch = b /\ request[w].step = s
  <2>1. progress'[b][s].qty \in {progress[b][s].qty, progress[b][s].qty + request[w].qty}
    <3>1. CommitReport(w) \/ Add(w) => progress'[b][s].qty = progress[b][s].qty + request[w].qty
      BY <1>3, Written DEF WrittenAs, Before
    <3>2. Mark(w) => progress'[b][s].qty = progress[b][s].qty
      BY <1>1, <1>3, Written DEF WrittenAs, Before
    <3>3. QED
      BY <1>3, <3>1, <3>2 DEF Writes
  <2>2. QED
    BY <1>1, <1>2, <1>3, <2>1
<1>4. CASE ~(Writes(w) /\ request[w].batch = b /\ request[w].step = s)
  <2>1. progress'[b][s] = progress[b][s]
    BY <1>4, Written, Unwritten
  <2>2. QED
    BY <1>1, <2>1
<1>5. QED
  BY <1>3, <1>4

(* The report of w, as a step of its own leaves it.                         *)
Carries(w) ==
  /\ Reporting(w)
  /\ request'[w].op = request[w].op /\ request'[w].tx = request[w].tx
  /\ request'[w].batch = request[w].batch /\ request'[w].step = request[w].step
  /\ request'[w].qty = request[w].qty /\ request'[w].good = request[w].good
  /\ request'[w].clash = request[w].clash

CarriesReads(w) ==
  /\ Carries(w)
  /\ request'[w].prev = request[w].prev /\ request'[w].prevGood = request[w].prevGood
  /\ request'[w].first = request[w].first

ReportStarted(w) ==
  \E b \in Batches, s \in Steps, q \in 1..MaxReport : \E g \in 0..q, tx \in BOOLEAN :
    /\ StartReport(w, b, s, q, g, tx)
    /\ request'[w] = [op |-> "report", tx |-> tx, at |-> "read", batch |-> b, step |-> s, qty |-> q,
                      good |-> g, seen |-> status[b], prev |-> 0, prevGood |-> 0, first |-> FALSE,
                      clash |-> FALSE]

OutsourcedStarted(w) ==
  \E b \in Batches, s \in Steps, q \in 1..MaxReport :
    /\ StartOutsourced(w, b, s, q)
    /\ request'[w].op = "outsourced" /\ ~request'[w].tx /\ request'[w].at = "counted"
    /\ request'[w].batch = b /\ request'[w].step = s
    /\ request'[w].qty = q /\ request'[w].good = q
    /\ request'[w].prev = progress[b][s].qty /\ request'[w].prevGood = progress[b][s].good
    /\ request'[w].first => progress[b][s].status = "Pending"

Counted(w) ==
  LET p == progress[request[w].batch][request[w].step]
  IN /\ Count(w) /\ Carries(w) /\ WithinTolerance(request[w])
     /\ request'[w].at = "counted"
     /\ request'[w].prev = p.qty /\ request'[w].prevGood = p.good
     /\ request'[w].first = (p.status = "Pending")

LEMMA Own ==
  ASSUME TypeOK, NEW w \in Workers, Step(w), Reporting(w)'
  PROVE  \/ ReportStarted(w) \/ OutsourcedStarted(w) \/ Counted(w)
         \/ Add(w) /\ CarriesReads(w) /\ request'[w].at = "added"
         \/ Mark(w) /\ CarriesReads(w) /\ request'[w].at = "marked"
         \/ StepOn(w) /\ CarriesReads(w) /\ request'[w].at = "stepped"
<1> DEFINE r == request[w]
           p == progress[r.batch][r.step]
<1>1. ASSUME NEW x, Put(w, x)  PROVE request'[w] = x
  BY <1>1 DEF Put, TypeOK
<1>2. ASSUME Release(w)  PROVE request'[w] = Free
  BY <1>2, DisturbedType DEF Release
<1>3. ASSUME NEW x, \/ request' = [DisturbStep(w) EXCEPT ![w] = x]
                    \/ request' = [Disturb(w) EXCEPT ![w] = x]
      PROVE request'[w] = x
  BY <1>3, DisturbedType
<1>4. /\ request'[w] # Free
      /\ request'[w].op \in {"report", "outsourced"}
  BY DEF Reporting, Doing
<1>5. ASSUME NEW at, r \in ReportRequests, Reporting(w), request'[w] = [r EXCEPT !.at = at]
      PROVE  CarriesReads(w) /\ request'[w].at = at
  BY <1>5 DEF CarriesReads, Carries, ReportRequests
<1>6. ASSUME NEW b \in Batches, NEW s \in Steps, NEW q \in 1..MaxReport,
             \E g \in 0..q, tx \in BOOLEAN : StartReport(w, b, s, q, g, tx)
      PROVE  ReportStarted(w)
  BY <1>1, <1>6 DEF StartReport, ReportStarted
<1>7. ASSUME NEW b \in Batches, NEW s \in Steps, NEW q \in 1..MaxReport,
             StartOutsourced(w, b, s, q)
      PROVE  OutsourcedStarted(w)
  <2> DEFINE f == progress[b][s].status = "Pending"
             x == [op |-> "outsourced", tx |-> FALSE, at |-> "counted", batch |-> b, step |-> s,
                   qty |-> q, good |-> q, seen |-> status[b], prev |-> progress[b][s].qty,
                   prevGood |-> progress[b][s].good, first |-> f, clash |-> FALSE]
  <2>1. request'[w] = x
    BY <1>1, <1>7 DEF StartOutsourced
  <2>2. x.first => f
    <3> HIDE DEF f
    <3>1. x.first = f
      OBVIOUS
    <3>2. QED
      BY <3>1
  <2>3. QED
    BY <1>7, <2>1, <2>2 DEF OutsourcedStarted
<1>8. ASSUME Count(w)  PROVE Counted(w)
  <2>1. Reporting(w) /\ r \in ReportRequests
    BY <1>8, StepTypes DEF Count, At, Reporting
  <2>2. Put(w, [r EXCEPT !.at = "counted", !.prev = p.qty, !.prevGood = p.good,
                       !.first = p.status = "Pending"])
        /\ WithinTolerance(r)
    BY <1>1, <1>4, <1>8 DEF Count
  <2>3. request'[w] = [r EXCEPT !.at = "counted", !.prev = p.qty, !.prevGood = p.good,
                       !.first = p.status = "Pending"]
    BY <1>1, <2>2
  <2>4. QED
    BY <1>8, <2>1, <2>2, <2>3 DEF Counted, Carries, ReportRequests
<1>9. Writes(w) \/ StepOn(w) => Reporting(w) /\ r \in ReportRequests
  BY Writer, StepTypes
<1>10. ~CommitReport(w) /\ ~Finish(w)
  BY <1>2, <1>3, <1>4 DEF CommitReport, Finish
<1>11. Add(w) => CarriesReads(w) /\ request'[w].at = "added"
  BY <1>3, <1>5, <1>9 DEF Add, Writes
<1>12. Mark(w) => CarriesReads(w) /\ request'[w].at = "marked"
  BY <1>3, <1>5, <1>9 DEF Mark, Writes
<1>13. StepOn(w) => CarriesReads(w) /\ request'[w].at = "stepped"
  <2>1. StepOn(w) => request'[w] = Free \/ request'[w] = [r EXCEPT !.at = "stepped"]
    BY <1>3 DEF StepOn
  <2>2. QED
    BY <1>4, <1>5, <1>9, <2>1
<1>14. ~HeaderSteps(w)
  <2>1. \A op \in HeaderOps, b \in Batches : ~ReadHeader(w, op, b)
    BY <1>1, <1>4 DEF ReadHeader, HeaderOps
  <2>2. \A bs \in SUBSET Batches : ~StartSplit(w, bs)
    BY <1>1, <1>4 DEF StartSplit
  <2>3. ~StartCancel(w)
    BY <1>1, <1>4 DEF StartCancel
  <2>4. ~WriteHeader(w) /\ ~FinishSplit(w) /\ ~FinishCancel(w)
    BY <1>2, <1>4 DEF WriteHeader, FinishSplit, FinishCancel
  <2>5. QED
    BY <2>1, <2>2, <2>3, <2>4 DEF HeaderSteps
<1>15. ~ReceiptSteps(w)
  <2>1. \A q \in Pickings : ~StartReceive(w, q)
    BY <1>1, <1>4 DEF StartReceive
  <2>2. ~Book(w)
    <3>1. SUFFICES ASSUME Book(w)  PROVE FALSE
      OBVIOUS
    <3>2. r \in ReceiptRequests
      BY <3>1, RequestType DEF Book, At
    <3>3. \A x : [r EXCEPT !.at = "booked", !.last = x].op = "receive"
      BY <3>2 DEF ReceiptRequests
    <3>4. QED
      BY <1>1, <1>4, <3>1, <3>3 DEF Book
  <2>3. ~CommitReceipt(w)
    BY <1>2, <1>4 DEF CommitReceipt
  <2>4. QED
    BY <2>1, <2>2, <2>3 DEF ReceiptSteps
<1>16. ~Abort(w)
  BY <1>1, <1>4 DEF Abort
<1>17. ReportSteps(w)
  BY <1>14, <1>15, <1>16 DEF Step
<1>18. QED
  BY <1>6, <1>7, <1>8, <1>10, <1>11, <1>12, <1>13, <1>17 DEF ReportSteps, Begins

(* What is torn stays torn; who writes on old reads tears his batch, and so *)
(* does who gives up half way; and who is in doubt stays so until then.     *)
LEMMA TornGrows ==
  ASSUME TypeOK, NEW w \in Workers, Step(w)
  PROVE  /\ torn \subseteq torn'
         /\ CommitReport(w) \/ Mark(w) => torn' = Torn(request[w])
         /\ Reporting(w) /\ ~request[w].tx /\ request[w].at \in {"counted", "added"}
              => Add(w) \/ Mark(w) \/ (Abort(w) /\ request[w].batch \in torn')
<1>1. CommitReport(w) \/ Mark(w) => torn' = Torn(request[w])
  BY DEF CommitReport, Mark
<1>2. torn \subseteq torn'
  <2>1. ASSUME NEW b \in Batches, NEW s \in Steps, NEW q \in 1..MaxReport,
               Begins(w, b, s, q)
        PROVE  torn \subseteq torn'
    BY <2>1 DEF Begins, StartReport, StartOutsourced
  <2>2. Writes(w) \/ Count(w) => torn \subseteq torn'
    BY <1>1 DEF Writes, Torn, Add, Count
  <2>3. ReportSteps(w) => torn \subseteq torn'
    BY <2>1, <2>2 DEF ReportSteps, Begins, Writes, StepOn, Finish
  <2>4. HeaderSteps(w) => torn \subseteq torn'
    BY DEF HeaderSteps, ReadHeader, WriteHeader, StartSplit, FinishSplit, StartCancel, FinishCancel
  <2>5. ReceiptSteps(w) \/ Abort(w) => torn \subseteq torn'
    BY DEF ReceiptSteps, StartReceive, Book, CommitReceipt, Abort
  <2>6. QED
    BY <2>3, <2>4, <2>5 DEF Step
<1>3. ASSUME Reporting(w), ~request[w].tx, request[w].at \in {"counted", "added"}
      PROVE  Add(w) \/ Mark(w) \/ (Abort(w) /\ request[w].batch \in torn')
  <2>1. request[w] # Free /\ request[w].op \in {"report", "outsourced"}
    BY <1>3 DEF Reporting, Doing
  <2>2. \A b \in Batches, s \in Steps, q \in 1..MaxReport :
          ~Begins(w, b, s, q)
    <3>1. \A b \in Batches, s \in Steps, q \in 1..MaxReport : ~StartOutsourced(w, b, s, q)
      BY <2>1 DEF StartOutsourced
    <3>2. \A b \in Batches, s \in Steps, q \in 1..MaxReport :
            \A g \in 0..q, tx \in BOOLEAN : ~StartReport(w, b, s, q, g, tx)
      BY <2>1 DEF StartReport
    <3>3. QED
      BY <3>1, <3>2 DEF Begins
  <2>3. ~Count(w) /\ ~CommitReport(w) /\ ~StepOn(w) /\ ~Finish(w)
    BY <1>3 DEF Count, CommitReport, StepOn, Finish, At
  <2>4. ~HeaderSteps(w)
    BY <2>1 DEF HeaderSteps, ReadHeader, WriteHeader, StartSplit, FinishSplit, StartCancel,
                FinishCancel, HeaderOps, Doing
  <2>5. ~ReceiptSteps(w)
    BY <2>1 DEF ReceiptSteps, StartReceive, Book, CommitReceipt, Booked, At, Doing
  <2>6. Abort(w) => request[w].batch \in torn'
    BY <1>3 DEF Abort, Underway, Reporting
  <2>7. QED
    BY <2>2, <2>3, <2>4, <2>5, <2>6 DEF Step, ReportSteps, Begins
<1>4. QED
  BY <1>1, <1>2, <1>3

(* Another's report keeps its fields, and is marked when its step is.       *)
LEMMA KeptFields ==
  ASSUME TypeOK, NEW w \in Workers, Step(w), NEW v \in Workers \ {w}
  PROVE  /\ Reporting(v)' <=> Reporting(v)
         /\ Reporting(v) =>
              /\ request'[v].op = request[v].op /\ request'[v].tx = request[v].tx
              /\ request'[v].at = request[v].at
              /\ request'[v].batch = request[v].batch /\ request'[v].step = request[v].step
              /\ request'[v].qty = request[v].qty /\ request'[v].good = request[v].good
              /\ request'[v].prev = request[v].prev /\ request'[v].prevGood = request[v].prevGood
              /\ request'[v].first = request[v].first
              /\ request[v].clash => request'[v].clash
              /\ Writes(w) /\ HasRead(v, w) => request'[v].clash
<1>1. Reporting(v)' <=> Reporting(v)
  BY ReportsKept DEF Reporting
<1>2. SUFFICES ASSUME Reporting(v)
      PROVE  /\ request'[v].op = request[v].op /\ request'[v].tx = request[v].tx
             /\ request'[v].at = request[v].at
             /\ request'[v].batch = request[v].batch /\ request'[v].step = request[v].step
             /\ request'[v].qty = request[v].qty /\ request'[v].good = request[v].good
             /\ request'[v].prev = request[v].prev /\ request'[v].prevGood = request[v].prevGood
             /\ request'[v].first = request[v].first
             /\ request[v].clash => request'[v].clash
             /\ Writes(w) /\ HasRead(v, w) => request'[v].clash
  BY <1>1
<1>3. request[v] \in ReportRequests
  BY <1>2, StepTypes
<1>4. CASE request'[v] = [request[v] EXCEPT !.clash = TRUE]
  BY <1>3, <1>4 DEF ReportRequests
<1>5. CASE request'[v] = request[v] /\ ~(Writes(w) /\ HasRead(v, w))
  BY <1>5
<1>6. QED
  BY <1>2, <1>4, <1>5, ReportsKept

LEMMA DoomGrows ==
  ASSUME TypeOK, NEW w \in Workers, Step(w), NEW b \in Batches, Doomed(b)
  PROVE  Doomed(b)'
<1>1. CASE b \in torn
  BY <1>1, TornGrows DEF Doomed
<1>2. ASSUME NEW v \in Workers, InDoubt(v), request[v].batch = b
      PROVE  Doomed(b)'
  <2>1. CASE v # w
    <3>1. InDoubt(v)' /\ request'[v].batch = b
      BY <1>2, <2>1, KeptFields DEF InDoubt
    <3>2. QED
      BY <3>1 DEF Doomed
  <2>2. CASE v = w
    <3>1. Add(w) \/ Mark(w) \/ b \in torn'
      BY <1>2, <2>2, TornGrows DEF InDoubt
    <3>2. CASE Mark(w)
      BY <1>2, <2>2, <3>2, TornGrows DEF Torn, InDoubt, Doomed
    <3>3. CASE Add(w)
      <4>1. request'[w] = [request[w] EXCEPT !.at = "added"]
        BY <3>3, DisturbedType DEF Add
      <4>2. request[w] \in ReportRequests
        BY <3>3, Writer, StepTypes DEF Writes
      <4>3. InDoubt(w)' /\ request'[w].batch = b
        <5>1. /\ request'[w] \in ReportRequests /\ request'[w].op = request[w].op
              /\ request'[w].at = "added" /\ request'[w].tx = request[w].tx
              /\ request'[w].batch = request[w].batch /\ request'[w].clash = request[w].clash
          BY <4>1, <4>2 DEF ReportRequests
        <5>2. request'[w] # Free
          BY <5>1, FreeAssumption DEF Requests
        <5>3. QED
          BY <1>2, <2>2, <5>1, <5>2 DEF InDoubt, Reporting, Doing
      <4>4. QED
        BY <4>3 DEF Doomed
    <3>4. QED
      BY <3>1, <3>2, <3>3 DEF Doomed
  <2>3. QED
    BY <2>1, <2>2
<1>3. QED
  BY <1>1, <1>2 DEF Doomed

(* A complete step of a batch that is not torn stays complete: whoever sets *)
(* it back took it for untouched, and it was written since.                 *)
LEMMA CompleteStays ==
  ASSUME TypeOK, ReadsHold, NEW w \in Workers, Step(w), NEW b \in Batches, b \notin torn',
         NEW s \in Steps, progress[b][s].status = "Completed"
  PROVE  progress'[b][s].status = "Completed"
<1>1. CASE Writes(w) /\ request[w].batch = b /\ request[w].step = s
  <2>1. Before(w).status = "Completed"
    BY <1>1 DEF Before
  <2>2. CASE Add(w)
    BY <1>1, <2>1, <2>2, Written DEF WrittenAs
  <2>3. CASE CommitReport(w) \/ Mark(w)
    <3>1. ~request[w].clash
      BY <1>1, <2>3, TornGrows DEF Torn
    <3>2. ReadBefore(w) /\ request[w].at \in {"counted", "added"}
      BY <1>1, Writer DEF ReadsHold
    <3>3. ~request[w].first
      BY <2>1, <3>1, <3>2 DEF ReadBefore, Before
    <3>4. MarkedStep(request[w], Before(w)) = "Completed"
      BY <2>1, <3>3 DEF MarkedStep
    <3>5. QED
      BY <1>1, <2>3, <3>4, Written DEF WrittenAs
  <2>4. QED
    BY <1>1, <2>2, <2>3 DEF Writes
<1>2. CASE ~(Writes(w) /\ request[w].batch = b /\ request[w].step = s)
  BY <1>2, Written, Unwritten
<1>3. QED
  BY <1>1, <1>2

LEMMA PassedStays ==
  ASSUME TypeOK, ReadsHold, NEW w \in Workers, Step(w), NEW b \in Batches, b \notin torn',
         NEW s \in Steps, Passed(b, s)
  PROVE  Passed(b, s)'
<1>1. Outsourced \subseteq Steps
  BY ProductionAssumption
<1>2. QED
  BY <1>1, CompleteStays DEF Passed

LEMMA Stages ==
  ASSUME NEW w \in Workers
  PROVE  /\ ReportStarted(w) => request'[w].at = "read"
         /\ OutsourcedStarted(w) => request'[w].at = "counted" /\ request'[w].op = "outsourced"
         /\ Counted(w) => request'[w].at = "counted" /\ request[w].op = "report"
<1>1. ReportStarted(w) => request'[w].at = "read"
  BY DEF ReportStarted
<1>2. OutsourcedStarted(w) => request'[w].at = "counted" /\ request'[w].op = "outsourced"
  BY DEF OutsourcedStarted
<1>3. Counted(w) => request'[w].at = "counted" /\ request[w].op = "report"
  BY DEF Counted, Count, At, Doing
<1>4. QED
  BY <1>1, <1>2, <1>3

LEMMA OneNumberStep ==
  ASSUME TypeOK, OneNumber, NEW w \in Workers, Step(w)
  PROVE  OneNumber'
<1>1. ASSUME NEW v \in Workers \ {w}, HasNumber(v)'  PROVE HasNumber(v)
  BY <1>1, ReportsKept, KeptFields DEF HasNumber, At, Reporting
<1>2. HasNumber(w)' => \A v \in Workers \ {w} : ~HasNumber(v)
  <2>1. SUFFICES ASSUME HasNumber(w)'  PROVE \A v \in Workers \ {w} : ~HasNumber(v)
    OBVIOUS
  <2>2. Reporting(w)' /\ request'[w].at = "counted" /\ request'[w].tx /\ request'[w].op = "report"
    BY <2>1 DEF HasNumber, At, Doing, Reporting
  <2>3. Counted(w)
    BY <2>2, Own, Stages
  <2>4. QED
    BY <2>3 DEF Counted, Count, NumberFree, HasNumber
<1>3. QED
  BY <1>1, <1>2 DEF OneNumber

LEMMA GoodStep ==
  ASSUME TypeOK, GoodAmongAll, ReadsHold, NEW w \in Workers, Step(w)
  PROVE  GoodAmongAll'
<1>1. SUFFICES ASSUME NEW b \in Batches, NEW s \in Steps
               PROVE  progress'[b][s].good <= progress'[b][s].qty
  BY DEF GoodAmongAll
<1>2. /\ progress[b][s].good \in Nat /\ progress[b][s].qty \in Nat
      /\ progress[b][s].good <= progress[b][s].qty
  BY DEF TypeOK, Progress, GoodAmongAll
<1>3. CASE Writes(w) /\ request[w].batch = b /\ request[w].step = s
  <2>1. /\ request[w].good \in Nat /\ request[w].qty \in Nat
        /\ request[w].good <= request[w].qty
    BY <1>3, Writer, StepTypes DEF ReadsHold, Shape
  <2>2. CASE CommitReport(w) \/ Add(w)
    <3>1. /\ progress'[b][s].good = progress[b][s].good + request[w].good
          /\ progress'[b][s].qty = progress[b][s].qty + request[w].qty
      BY <1>3, <2>2, Written DEF WrittenAs, Before
    <3>2. QED
      BY <1>2, <2>1, <3>1
  <2>3. CASE Mark(w)
    <3>1. /\ progress'[b][s].good = progress[b][s].good + 0
          /\ progress'[b][s].qty = progress[b][s].qty + 0
      BY <1>3, <2>3, Written DEF WrittenAs, Before
    <3>2. QED
      BY <1>2, <3>1
  <2>4. QED
    BY <1>3, <2>2, <2>3 DEF Writes
<1>4. CASE ~(Writes(w) /\ request[w].batch = b /\ request[w].step = s)
  <2>1. progress'[b][s] = progress[b][s]
    BY <1>4, Written, Unwritten
  <2>2. QED
    BY <1>2, <2>1
<1>5. QED
  BY <1>3, <1>4

LEMMA ReadsStep ==
  ASSUME TypeOK, GoodAmongAll, ReadsHold, OneNumber, NEW w \in Workers, Step(w)
  PROVE  ReadsHold'
<1>1. ASSUME NEW v \in Workers \ {w}, Reporting(v)'  PROVE ReadBefore(v)' /\ Shape(v)'
  <2> DEFINE b == request[v].batch
             s == request[v].step
  <2>1. /\ Reporting(v) /\ ReadBefore(v) /\ Shape(v)
        /\ b \in Batches /\ s \in Steps
        /\ request[v].qty \in Nat /\ request[v].prev \in Nat
        /\ request[v].good \in Nat /\ request[v].prevGood \in Nat
    BY <1>1, KeptFields, StepTypes DEF ReadsHold
  <2>2. Shape(v)'
    BY <2>1, KeptFields DEF Shape
  <2>3. /\ request'[v].batch = b /\ request'[v].step = s /\ request'[v].at = request[v].at
        /\ request'[v].qty = request[v].qty /\ request'[v].prev = request[v].prev
        /\ request'[v].good = request[v].good /\ request'[v].prevGood = request[v].prevGood
        /\ request'[v].first = request[v].first /\ (request[v].clash => request'[v].clash)
    BY <2>1, KeptFields
  <2>4. CASE progress'[b][s] = progress[b][s]
    BY <2>1, <2>2, <2>3, <2>4 DEF ReadBefore
  <2>5. CASE progress'[b][s] # progress[b][s]
    <3>1. Writes(w) /\ request[w].batch = b /\ request[w].step = s
      BY <2>1, <2>5, Written, Unwritten
    <3>2. CASE request[v].at = "read"
      BY <2>2, <2>3, <3>2 DEF ReadBefore
    <3>3. CASE request[v].at # "read"
      <4>1. ~(request[w].tx /\ request[v].tx)
        <5>1. SUFFICES ASSUME request[w].tx, request[v].tx  PROVE FALSE
          OBVIOUS
        <5>2. HasNumber(v)
          BY <2>1, <3>3, <5>1 DEF Shape, HasNumber, At, Reporting, Doing
        <5>3. Reporting(w) /\ request[w].at \in {"counted", "added"} /\ Shape(w)
          BY <3>1, Writer DEF ReadsHold
        <5>4. HasNumber(w)
          BY <5>1, <5>3 DEF Shape, HasNumber, At, Reporting, Doing
        <5>5. QED
          BY <5>2, <5>4 DEF OneNumber
      <4>2. HasRead(v, w)
        BY <2>1, <3>1, <3>3, <4>1 DEF HasRead
      <4>3. request'[v].clash
        BY <2>1, <3>1, <4>2, KeptFields
      <4>4. progress'[b][s].qty >= progress[b][s].qty
        BY <2>1, QtyGrows
      <4>5. progress[b][s].qty \in Nat
        BY <2>1 DEF TypeOK, Progress
      <4>6. progress'[b][s].qty \in Nat
        <5>1. request[w].qty \in Nat
          BY <3>1, Writer, StepTypes
        <5>2. QED
          <6>1. progress[request[w].batch][request[w].step].qty \in Nat
            BY <3>1, Writer, StepTypes DEF TypeOK, Progress
          <6>2. \E x \in Nat : progress'[request[w].batch][request[w].step].qty
                                 = progress[request[w].batch][request[w].step].qty + x
            BY <3>1, <5>1, Written DEF Writes, WrittenAs, Before
          <6>3. QED
            BY <2>1, <3>1, <4>5, <6>1, <6>2, Written
      <4>7. QED
        BY <2>1, <2>2, <2>3, <4>3, <4>4, <4>5, <4>6 DEF ReadBefore
    <3>4. QED
      BY <3>2, <3>3
  <2>6. QED
    BY <2>2, <2>4, <2>5
<1>2. ASSUME Reporting(w)'  PROVE ReadBefore(w)' /\ Shape(w)'
  <2> DEFINE b == request[w].batch
             s == request[w].step
  <2>1. CASE ReportStarted(w)
    BY <2>1 DEF ReportStarted, ReadBefore, Shape
  <2>2. CASE OutsourcedStarted(w)
    <3>1. PICK c \in Batches, t \in Steps, q \in 1..MaxReport :
            /\ StartOutsourced(w, c, t, q)
            /\ request'[w].op = "outsourced" /\ ~request'[w].tx /\ request'[w].at = "counted"
            /\ request'[w].batch = c /\ request'[w].step = t
            /\ request'[w].qty = q /\ request'[w].good = q
            /\ request'[w].prev = progress[c][t].qty /\ request'[w].prevGood = progress[c][t].good
            /\ request'[w].first => progress[c][t].status = "Pending"
      BY <2>2 DEF OutsourcedStarted
    <3>2. progress' = progress /\ t \in Outsourced
      BY <3>1 DEF StartOutsourced, floor
    <3>3. progress[c][t].qty \in Nat /\ progress[c][t].good \in Nat /\ q \in Nat
      BY ProductionAssumption DEF TypeOK, Progress
    <3>4. progress[c][t].good <= progress[c][t].qty
      BY DEF GoodAmongAll
    <3>5. QED
      BY <3>1, <3>2, <3>3, <3>4 DEF ReadBefore, Shape
  <2>3. CASE Counted(w)
    <3>1. progress' = progress /\ Doing(w, "report") /\ Reporting(w) /\ request[w].op = "report"
      BY <2>3 DEF Counted, Count, At, Doing, Reporting
    <3>2. /\ progress[b][s].qty \in Nat /\ progress[b][s].good \in Nat
          /\ progress[b][s].good <= progress[b][s].qty
      BY <3>1, StepTypes DEF Progress, GoodAmongAll
    <3>3. Shape(w)
      BY <3>1 DEF ReadsHold
    <3>4. Shape(w)'
      BY <2>3, <3>1, <3>2, <3>3 DEF Counted, Carries, Shape, WithinTolerance
    <3>5. ReadBefore(w)'
      <4>1. /\ request'[w].batch = b /\ request'[w].step = s /\ request'[w].at = "counted"
            /\ request'[w].prev = progress[b][s].qty /\ request'[w].prevGood = progress[b][s].good
            /\ request'[w].first => progress[b][s].status = "Pending"
        BY <2>3 DEF Counted, Carries
      <4>2. QED
        BY <3>1, <3>2, <4>1 DEF ReadBefore
    <3>6. QED
      BY <3>4, <3>5
  <2>4. CASE Add(w) /\ CarriesReads(w) /\ request'[w].at = "added"
    <3>1. Reporting(w) /\ ReadBefore(w) /\ Shape(w) /\ request[w].at = "counted" /\ ~request[w].tx
      BY <2>4 DEF Add, Underway, CarriesReads, Carries, ReadsHold
    <3>2. /\ progress'[b][s].qty = progress[b][s].qty + request[w].qty
          /\ progress'[b][s].good = progress[b][s].good + request[w].good
          /\ progress'[b][s].status = progress[b][s].status
      BY <2>4, Written DEF Writes, WrittenAs, Before
    <3>3. /\ progress[b][s].qty \in Nat /\ request[w].prev \in Nat /\ request[w].qty \in Nat
          /\ progress[b][s].good \in Nat /\ request[w].prevGood \in Nat /\ request[w].good \in Nat
      BY <3>1, StepTypes DEF Progress
    <3>4. ReadBefore(w)'
      BY <2>4, <3>1, <3>2, <3>3 DEF CarriesReads, Carries, ReadBefore
    <3>5. Shape(w)'
      BY <2>4, <3>1 DEF CarriesReads, Carries, Shape
    <3>6. QED
      BY <3>4, <3>5
  <2>5. CASE /\ Mark(w) \/ StepOn(w)
             /\ CarriesReads(w)
             /\ request'[w].at \in {"marked", "stepped"}
    <3>1. Reporting(w) /\ Shape(w) /\ ~request[w].tx
      BY <2>5, Writer DEF CarriesReads, Carries, ReadsHold
    <3>2. QED
      BY <2>5, <3>1 DEF CarriesReads, Carries, ReadBefore, Shape
  <2>6. QED
    BY <1>2, <2>1, <2>2, <2>3, <2>4, <2>5, Own
<1>3. QED
  BY <1>1, <1>2 DEF ReadsHold

LEMMA MarkedStepInv ==
  ASSUME TypeOK, ReadsHold, MarkedIsDone, NEW w \in Workers, Step(w)
  PROVE  MarkedIsDone'
<1>1. SUFFICES ASSUME NEW v \in Workers, Reporting(v)', request'[v].at = "marked",
                      StepDone(request'[v]), request'[v].batch \notin torn'
               PROVE  progress'[request'[v].batch][request'[v].step].status = "Completed"
  BY DEF MarkedIsDone, StepDone
<1>2. CASE v # w
  <2>1. /\ Reporting(v) /\ request[v].at = "marked" /\ StepDone(request[v])
        /\ request'[v].batch = request[v].batch /\ request'[v].step = request[v].step
    BY <1>1, <1>2, KeptFields DEF StepDone
  <2>2. request[v].batch \in Batches /\ request[v].step \in Steps
    BY <2>1, StepTypes
  <2>3. request[v].batch \notin torn
    BY <1>1, <2>1, TornGrows
  <2>4. QED
    BY <1>1, <2>1, <2>2, <2>3, CompleteStays DEF MarkedIsDone
<1>3. CASE v = w
  <2>1. Mark(w) /\ CarriesReads(w)
    BY <1>1, <1>3, Own, Stages
  <2>2. StepDone(request[w])
    BY <1>1, <1>3, <2>1 DEF CarriesReads, Carries, StepDone
  <2>3. MarkedStep(request[w], Before(w)) = "Completed"
    BY <2>2 DEF MarkedStep
  <2>4. QED
    BY <1>3, <2>1, <2>3, Written DEF Writes, WrittenAs, CarriesReads, Carries
<1>4. QED
  BY <1>2, <1>3

LEMMA DoneStep ==
  ASSUME TypeOK, ReadsHold, DoneIsEnough, NEW w \in Workers, Step(w)
  PROVE  DoneIsEnough'
<1>1. SUFFICES ASSUME NEW b \in Batches, NEW s \in Steps, progress'[b][s].status = "Completed"
               PROVE  progress'[b][s].qty >= BatchQty[b]
  BY DEF DoneIsEnough
<1>2. progress[b][s].qty \in Nat /\ BatchQty[b] \in Nat
  BY ProductionAssumption DEF TypeOK, Progress
<1>3. progress'[b][s].qty >= progress[b][s].qty
  BY QtyGrows
<1>4. CASE progress[b][s].status = "Completed"
  <2>1. progress[b][s].qty >= BatchQty[b]
    BY <1>4 DEF DoneIsEnough
  <2>2. CASE progress'[b][s] = progress[b][s]
    BY <2>1, <2>2
  <2>3. CASE Writes(w) /\ request[w].batch = b /\ request[w].step = s
    <3>1. progress'[b][s].qty \in Nat
      BY <1>2, <2>3, Writer, StepTypes, Written DEF Writes, WrittenAs, Before
    <3>2. QED
      BY <1>2, <1>3, <2>1, <3>1
  <2>4. QED
    BY <2>2, <2>3, Written, Unwritten
<1>5. CASE progress[b][s].status # "Completed"
  <2>1. Writes(w) /\ request[w].batch = b /\ request[w].step = s
    BY <1>1, <1>5, Written, Unwritten
  <2>2. CommitReport(w) \/ Mark(w)
    BY <1>1, <1>5, <2>1, Written DEF Writes, WrittenAs, Before
  <2>3. MarkedStep(request[w], Before(w)) = "Completed"
    BY <1>1, <2>1, <2>2, Written DEF WrittenAs
  <2>4. StepDone(request[w])
    BY <1>5, <2>1, <2>3 DEF MarkedStep, Before
  <2>5. ReadBefore(w) /\ request[w].qty \in Nat /\ request[w].prev \in Nat
    BY <2>1, Writer, StepTypes DEF ReadsHold
  <2>6. progress'[b][s].qty >= request[w].prev + request[w].qty
    <3>1. CASE CommitReport(w)
      <4>1. progress[b][s].qty >= request[w].prev
        BY <2>1, <2>5, <3>1 DEF CommitReport, At, ReadBefore
      <4>2. progress'[b][s].qty = progress[b][s].qty + request[w].qty
        BY <2>1, <3>1, Written DEF WrittenAs, Before
      <4>3. QED
        BY <1>2, <2>5, <4>1, <4>2
    <3>2. CASE Mark(w)
      <4>1. progress[b][s].qty >= request[w].prev + request[w].qty
        BY <2>1, <2>5, <3>2 DEF Mark, ReadBefore
      <4>2. progress'[b][s].qty = progress[b][s].qty
        BY <1>2, <2>1, <3>2, Written DEF WrittenAs, Before
      <4>3. QED
        BY <4>1, <4>2
    <3>3. QED
      BY <2>2, <3>1, <3>2
  <2>7. progress'[b][s].qty \in Nat
    BY <1>2, <2>1, <2>5, Written DEF Writes, WrittenAs, Before
  <2>8. request[w].prev + request[w].qty >= BatchQty[b]
    <3>1. request[w].prevGood \in Nat /\ request[w].prevGood <= request[w].prev
      BY <2>1, Writer, StepTypes DEF ReadsHold, Shape
    <3>2. QED
      BY <1>2, <2>1, <2>4, <2>5, <3>1 DEF StepDone
  <2>9. QED
    BY <1>2, <2>5, <2>6, <2>7, <2>8
<1>6. QED
  BY <1>4, <1>5

LEMMA EnoughStep ==
  ASSUME TypeOK, ReadsHold, EnoughIsDone, NEW w \in Workers, Step(w)
  PROVE  EnoughIsDone'
<1>1. SUFFICES ASSUME NEW b \in Batches, NEW s \in Steps, ~Doomed(b)',
                      \A v \in Workers : ~Adding(v, b, s)', Enough(b, s)'
               PROVE  progress'[b][s].status = "Completed"
  BY DEF EnoughIsDone
<1>2. ~Doomed(b) /\ b \notin torn'
  BY <1>1, DoomGrows DEF Doomed
<1>3. \A v \in Workers \ {w} : ~Adding(v, b, s)
  BY <1>1, KeptFields DEF Adding
<1>4. Adding(w, b, s) => Mark(w)
  <2>1. SUFFICES ASSUME Adding(w, b, s)  PROVE Mark(w)
    OBVIOUS
  <2>2. ~request[w].tx
    BY <2>1 DEF Adding, ReadsHold, Shape
  <2>3. ~Add(w)
    BY <2>1 DEF Adding, Add
  <2>4. QED
    BY <1>2, <2>1, <2>2, <2>3, TornGrows DEF Adding
<1>5. CASE (CommitReport(w) \/ Mark(w)) /\ request[w].batch = b /\ request[w].step = s
  <2>1. ~request[w].clash
    BY <1>2, <1>5, TornGrows DEF Torn
  <2>2. /\ ReadBefore(w) /\ Shape(w) /\ Reporting(w)
        /\ request[w].qty \in Nat /\ request[w].prev \in Nat
        /\ request[w].good \in Nat /\ request[w].prevGood \in Nat
        /\ progress[b][s].qty \in Nat /\ progress[b][s].good \in Nat
    BY <1>5, Writer, StepTypes DEF ReadsHold, Writes, Progress
  <2>3. /\ progress'[b][s].qty = request[w].prev + request[w].qty
        /\ progress'[b][s].good = request[w].prevGood + request[w].good
    <3>1. CASE CommitReport(w)
      <4>1. progress[b][s].qty = request[w].prev /\ progress[b][s].good = request[w].prevGood
        BY <1>5, <2>1, <2>2, <3>1 DEF CommitReport, At, ReadBefore
      <4>2. QED
        BY <1>5, <3>1, <4>1, Written DEF Writes, WrittenAs, Before
    <3>2. CASE Mark(w)
      <4>1. /\ progress[b][s].qty = request[w].prev + request[w].qty
            /\ progress[b][s].good = request[w].prevGood + request[w].good
        BY <1>5, <2>1, <2>2, <3>2 DEF Mark, ReadBefore
      <4>2. progress'[b][s].qty = progress[b][s].qty /\ progress'[b][s].good = progress[b][s].good
        BY <1>5, <2>2, <3>2, Written DEF Writes, WrittenAs, Before
      <4>3. QED
        BY <4>1, <4>2
    <3>3. QED
      BY <1>5, <3>1, <3>2
  <2>4. StepDone(request[w])
    <3>1. BatchQty[b] \in Nat
      BY ProductionAssumption
    <3>2. request[w].good <= request[w].qty /\ request[w].prevGood <= request[w].prev
      BY <2>2 DEF Shape
    <3>3. CASE progress'[b][s].good >= BatchQty[b]
      BY <1>5, <2>2, <2>3, <3>1, <3>2, <3>3 DEF StepDone
    <3>4. CASE s \notin Outsourced /\ progress'[b][s].qty >= BatchQty[b]
      <4>1. request[w].op = "report"
        BY <1>5, <2>2, <3>4 DEF Shape, Reporting, Doing
      <4>2. QED
        BY <1>5, <2>3, <3>4, <4>1 DEF StepDone
    <3>5. QED
      BY <1>1, <3>3, <3>4 DEF Enough
  <2>5. QED
    BY <1>5, <2>4, Written DEF Writes, WrittenAs, MarkedStep
<1>6. CASE Add(w) /\ request[w].batch = b /\ request[w].step = s
  <2>1. CarriesReads(w) /\ request'[w].at = "added" /\ Reporting(w)'
    <3>1. request'[w] = [request[w] EXCEPT !.at = "added"]
      BY <1>6, DisturbedType DEF Add
    <3>2. Reporting(w) /\ request[w] \in ReportRequests
      BY <1>6, Writer, StepTypes DEF Writes
    <3>3. request'[w] \in ReportRequests
      BY <3>1, <3>2 DEF ReportRequests
    <3>4. request'[w] # Free
      BY <3>3, FreeAssumption DEF Requests
    <3>5. CarriesReads(w) /\ request'[w].at = "added"
      BY <3>1, <3>2 DEF CarriesReads, Carries, ReportRequests
    <3>6. QED
      BY <3>4, <3>5 DEF Reporting, Doing, CarriesReads, Carries
  <2>2. Adding(w, b, s)'
    BY <1>6, <2>1 DEF Adding, CarriesReads, Carries
  <2>3. QED
    BY <1>1, <2>2
<1>7. CASE ~(Writes(w) /\ request[w].batch = b /\ request[w].step = s)
  <2>1. progress'[b][s] = progress[b][s]
    BY <1>7, Written, Unwritten
  <2>2. ~Adding(w, b, s)
    BY <1>4, <1>7 DEF Writes, Adding
  <2>3. Enough(b, s)
    BY <1>1, <2>1 DEF Enough
  <2>4. QED
    BY <1>1, <1>2, <1>3, <2>1, <2>2, <2>3 DEF EnoughIsDone
<1>8. QED
  BY <1>5, <1>6, <1>7 DEF Writes

(* Who adds to the work_reports of a step: its report, when it is counted   *)
(* or commits.                                                              *)
LEMMA ReportsStep ==
  ASSUME TypeOK, NEW w \in Workers, Step(w), NEW b \in Batches, NEW s \in Steps,
         reports'[b][s] # reports[b][s]
  PROVE  /\ Doing(w, "report") /\ request[w].batch = b /\ request[w].step = s
         /\ reports'[b][s] = reports[b][s] + request[w].qty
         /\ \/ CommitReport(w)
            \/ Count(w) /\ request[w].at = "read" /\ ~request[w].tx
<1>1. ASSUME NEW c \in Batches, NEW t \in Steps, NEW q \in 1..MaxReport,
             Begins(w, c, t, q)
      PROVE  reports' = reports
  BY <1>1 DEF Begins, StartReport, StartOutsourced, floor
<1>2. ReportSteps(w) => Count(w) \/ CommitReport(w)
  BY <1>1 DEF ReportSteps, Begins, Add, Mark, StepOn, Finish
<1>3. ~HeaderSteps(w)
  BY DEF HeaderSteps, ReadHeader, WriteHeader, StartSplit, FinishSplit, StartCancel,
         FinishCancel, floor
<1>4. ~ReceiptSteps(w) /\ ~Abort(w)
  BY DEF ReceiptSteps, StartReceive, Book, CommitReceipt, Abort, floor
<1>5. Count(w) \/ CommitReport(w)
  BY <1>2, <1>3, <1>4 DEF Step
<1>6. Doing(w, "report")
  BY <1>5 DEF Count, CommitReport, At
<1>7. request[w].batch \in Batches /\ request[w].step \in Steps
  BY <1>6, StepTypes DEF Reporting
<1>8. reports' = WithReport(request[w])
  BY <1>5 DEF Count, CommitReport
<1>9. request[w].batch = b /\ request[w].step = s
      /\ reports'[b][s] = reports[b][s] + request[w].qty
  BY <1>7, <1>8 DEF WithReport, TypeOK
<1>10. CommitReport(w) \/ (Count(w) /\ request[w].at = "read" /\ ~request[w].tx)
  BY <1>5 DEF Count, At
<1>11. QED
  BY <1>6, <1>9, <1>10

(* Nobody gets ahead of a step that is not passed. *)
LEMMA AheadOnly ==
  ASSUME TypeOK, ReadsHold, MarkedIsDone, NEW w \in Workers, Step(w),
         NEW b \in Batches, b \notin torn', NEW s \in Steps, Ahead(b, s)'
  PROVE  Ahead(b, s) \/ Passed(b, s) \/ Passed(b, s)'
<1> DEFINE r == request[w]
<1>1. Last \in Nat /\ Outsourced \subseteq Steps /\ s \in Nat
  BY ProductionAssumption DEF Steps
<1>2. b \notin torn
  BY TornGrows
<1>3. Reporting(w) => /\ r \in ReportRequests /\ r.batch \in Batches /\ r.step \in Steps
                      /\ Shape(w) /\ r.step \in Nat
  BY StepTypes, ProductionAssumption DEF ReadsHold, Steps
<1>4. CASE s <= current'[b] /\ ~(s <= current[b])
  <2>1. current' # current
    BY <1>4
  <2>2. CommitReport(w) \/ StepOn(w)
    <3>1. ASSUME NEW c \in Batches, NEW t \in Steps, NEW q \in 1..MaxReport,
                 Begins(w, c, t, q)
          PROVE  current' = current
      BY <3>1 DEF Begins, StartReport, StartOutsourced, floor
    <3>2. ReportSteps(w) => CommitReport(w) \/ StepOn(w)
      BY <2>1, <3>1 DEF ReportSteps, Begins, Count, Add, Mark, Finish
    <3>3. ~HeaderSteps(w)
      BY <2>1 DEF HeaderSteps, ReadHeader, WriteHeader, StartSplit, FinishSplit, StartCancel,
                  FinishCancel, floor
    <3>4. ~ReceiptSteps(w) /\ ~Abort(w)
      BY <2>1 DEF ReceiptSteps, StartReceive, Book, CommitReceipt, Abort, floor
    <3>5. QED
      BY <3>2, <3>3, <3>4 DEF Step
  <2>3. Reporting(w)
    BY <2>2, Writer DEF Writes
  <2>4. current' = [current EXCEPT ![r.batch] = SteppedTo(r)]
    BY <2>2 DEF CommitReport, StepOn
  <2>5. r.batch = b /\ StepDone(r) /\ current'[b] = r.step
    BY <1>3, <1>4, <2>3, <2>4 DEF SteppedTo, TypeOK
  <2>6. s < r.step \/ s = r.step
    BY <1>1, <1>3, <1>4, <2>3, <2>5
  <2>7. CASE s < r.step /\ r.op = "report"
    BY <2>3, <2>5, <2>7 DEF Ahead, Reporting, Doing
  <2>8. CASE s < r.step /\ r.op = "outsourced"
    <3>1. StepOn(w)
      BY <2>2, <2>8 DEF CommitReport, At, Doing
    <3>2. progress[b][r.step].status = "Completed"
      BY <1>2, <2>3, <2>5, <3>1 DEF StepOn, MarkedIsDone
    <3>3. r.step \in Outsourced
      BY <1>3, <2>3, <2>8 DEF Shape
    <3>4. QED
      BY <2>8, <3>2, <3>3 DEF Passed
  <2>9. CASE s = r.step
    <3>1. CASE StepOn(w)
      BY <1>2, <2>3, <2>5, <2>9, <3>1 DEF StepOn, MarkedIsDone, Passed
    <3>2. CASE CommitReport(w)
      BY <2>5, <2>9, <3>2, Written DEF Writes, WrittenAs, MarkedStep, Passed
    <3>3. QED
      BY <2>2, <3>1, <3>2
  <2>10. QED
    BY <2>3, <2>6, <2>7, <2>8, <2>9 DEF Reporting, Doing
<1>5. CASE \E t \in Steps : t > s /\ reports'[b][t] > 0
  <2>1. PICK t \in Steps : t > s /\ reports'[b][t] > 0
    BY <1>5
  <2>2. CASE reports'[b][t] = reports[b][t]
    BY <2>1, <2>2 DEF Ahead
  <2>3. CASE reports'[b][t] # reports[b][t]
    <3>1. Doing(w, "report") /\ r.batch = b /\ r.step = t
      BY <2>1, <2>3, ReportsStep
    <3>2. QED
      BY <2>1, <3>1 DEF Ahead
  <2>4. QED
    BY <2>2, <2>3
<1>6. ASSUME NEW v \in Workers, Doing(v, "report")', request'[v].batch = b, s < request'[v].step
      PROVE  Ahead(b, s)
  <2>1. CASE v # w
    <3>1. Doing(v, "report")
      BY <1>6, <2>1, ReportsKept
    <3>2. request[v].batch = b /\ s < request[v].step
      BY <1>6, <2>1, <3>1, KeptFields DEF Reporting
    <3>3. QED
      BY <3>1, <3>2 DEF Ahead
  <2>2. CASE v = w
    <3>1. Reporting(w)' /\ request'[w].op = "report"
      BY <1>6, <2>2 DEF Reporting, Doing
    <3>2. CASE ReportStarted(w)
      <4>1. PICK c \in Batches, t \in Steps, q \in 1..MaxReport :
              \E g \in 0..q, tx \in BOOLEAN :
                /\ StartReport(w, c, t, q, g, tx)
                /\ request'[w].batch = c /\ request'[w].step = t
        BY <3>2 DEF ReportStarted
      <4>2. current[b] = t - 1 /\ s < t /\ t \in Nat
        BY <1>6, <2>2, <4>1, ProductionAssumption DEF StartReport, NextStep, Steps
      <4>3. s <= current[b]
        BY <1>1, <4>2
      <4>4. QED
        BY <4>3 DEF Ahead
    <3>3. CASE Carries(w)
      <4>1. Doing(w, "report") /\ request[w].batch = b /\ s < request[w].step
        BY <1>6, <2>2, <3>1, <3>3 DEF Carries, Reporting, Doing
      <4>2. QED
        BY <4>1 DEF Ahead
    <3>4. QED
      BY <3>1, <3>2, <3>3, Own, Stages DEF Counted, CarriesReads
  <2>3. QED
    BY <2>1, <2>2
<1>7. QED
  BY <1>4, <1>5, <1>6 DEF Ahead

LEMMA InOrderStep ==
  ASSUME TypeOK, ReadsHold, MarkedIsDone, InOrder, NEW w \in Workers, Step(w)
  PROVE  InOrder'
<1>1. SUFFICES ASSUME NEW b \in Batches, b \notin torn', NEW s \in Steps, Ahead(b, s)'
               PROVE  Passed(b, s)'
  BY DEF InOrder
<1>2. Passed(b, s) \/ Passed(b, s)'
  BY <1>1, AheadOnly, TornGrows DEF InOrder
<1>3. QED
  BY <1>1, <1>2, PassedStays

(* Who is counting the last step of a batch that nobody is in doubt about   *)
(* goes on, unless he adds his pieces.                                      *)
LEMMA CountingStep ==
  ASSUME TypeOK, ReadsHold, NEW w \in Workers, Step(w), NEW b \in Batches, ~Doomed(b)'
  PROVE  /\ \A v \in Workers \ {w} : /\ Counting(v, b)' <=> Counting(v, b)
                                     /\ Counting(v, b) => request'[v].qty = request[v].qty
         /\ Counting(w, b)' => /\ Count(w) /\ request[w].batch = b /\ request[w].step = Last
                               /\ ~request[w].tx /\ request[w].at = "read"
                               /\ request'[w].qty = request[w].qty
         /\ Counting(w, b) => Add(w)
         /\ \A v \in Workers \ {w} :
              Writes(w) /\ request[w].batch = b /\ request[w].step = Last => ~Counting(v, b)
<1>1. ASSUME NEW v \in Workers \ {w}
      PROVE  /\ Counting(v, b)' <=> Counting(v, b)
             /\ Counting(v, b) => request'[v].qty = request[v].qty
  <2>1. Doing(v, "report")' <=> Doing(v, "report")
    BY ReportsKept
  <2>2. Doing(v, "report") =>
          /\ request'[v].at = request[v].at /\ request'[v].tx = request[v].tx
          /\ request'[v].batch = request[v].batch /\ request'[v].step = request[v].step
          /\ request'[v].qty = request[v].qty
    BY KeptFields DEF Reporting
  <2>3. QED
    BY <2>1, <2>2 DEF Counting, At
<1>2. Counting(w, b)' => /\ Count(w) /\ request[w].batch = b /\ request[w].step = Last
                         /\ ~request[w].tx /\ request[w].at = "read"
                         /\ request'[w].qty = request[w].qty
  <2>1. SUFFICES ASSUME Counting(w, b)'
        PROVE  /\ Count(w) /\ request[w].batch = b /\ request[w].step = Last
               /\ ~request[w].tx /\ request[w].at = "read"
               /\ request'[w].qty = request[w].qty
    OBVIOUS
  <2>2. /\ Reporting(w)' /\ request'[w].at = "counted" /\ request'[w].op = "report"
        /\ ~request'[w].tx /\ request'[w].batch = b /\ request'[w].step = Last
    BY <2>1 DEF Counting, At, Reporting, Doing
  <2>3. Counted(w)
    BY <2>2, Own, Stages
  <2>4. QED
    BY <2>2, <2>3 DEF Counted, Carries, Count, At
<1>3. Counting(w, b) => Add(w)
  <2>1. SUFFICES ASSUME Counting(w, b)  PROVE Add(w)
    OBVIOUS
  <2>2. Reporting(w) /\ ~request[w].tx /\ request[w].at = "counted" /\ request[w].batch = b
    BY <2>1 DEF Counting, At, Reporting
  <2>3. ~Mark(w)
    BY <2>2 DEF Mark
  <2>4. b \notin torn'
    BY DEF Doomed
  <2>5. QED
    BY <2>2, <2>3, <2>4, TornGrows
<1>4. ASSUME NEW v \in Workers \ {w}, Writes(w), request[w].batch = b, request[w].step = Last,
             Counting(v, b)
      PROVE  FALSE
  <2>1. /\ Reporting(v) /\ ~request[v].tx /\ request[v].at = "counted"
        /\ request[v].batch = b /\ request[v].step = Last
    BY <1>4 DEF Counting, At, Reporting
  <2>2. HasRead(v, w)
    BY <1>4, <2>1 DEF HasRead
  <2>3. InDoubt(v)' /\ request'[v].batch = b
    BY <1>4, <2>1, <2>2, KeptFields DEF InDoubt
  <2>4. QED
    BY <2>3 DEF Doomed
<1>5. QED
  BY <1>1, <1>2, <1>3, <1>4

LEMMA CountedStep ==
  ASSUME TypeOK, ReadsHold, CountedOnce, NEW w \in Workers, Step(w)
  PROVE  CountedOnce'
<1>1. SUFFICES ASSUME NEW b \in Batches, ~Doomed(b)'
               PROVE  /\ (\A v \in Workers : ~Counting(v, b)') =>
                           /\ reports'[b][Last] <= progress'[b][Last].qty
                           /\ reports'[b][Last] <= BatchQty[b] + Allowance
                      /\ \A v \in Workers :
                           Counting(v, b)' /\ (\A u \in Workers \ {v} : ~Counting(u, b)') =>
                             reports'[b][Last] <= progress'[b][Last].qty + request'[v].qty
  BY DEF CountedOnce
<1> DEFINE L == reports[b][Last]
           P == progress[b][Last].qty
           Cap == BatchQty[b] + Allowance
           q == request[w].qty
           here == request[w].batch = b /\ request[w].step = Last
<1>2. ~Doomed(b) /\ b \notin torn'
  BY <1>1, DoomGrows DEF Doomed
<1>3. /\ (\A v \in Workers : ~Counting(v, b)) => L <= P /\ L <= Cap
      /\ \A v \in Workers :
           Counting(v, b) /\ (\A u \in Workers \ {v} : ~Counting(u, b)) => L <= P + request[v].qty
  BY <1>2 DEF CountedOnce
<1>4. Last \in Steps /\ L \in Nat /\ P \in Nat /\ Cap \in Nat
  BY ProductionAssumption DEF Steps, TypeOK, Progress
<1>5. Reporting(w) => q \in Nat /\ request[w].prev \in Nat
  BY StepTypes
(* A bare report writes its pieces into work_reports. *)
<1>6. CASE Count(w) /\ ~request[w].tx /\ here
  <2>1. progress'[b][Last] = progress[b][Last]
    BY <1>6, Unwritten DEF Count, Writes, CommitReport, Add, Mark, Underway, At
  <2>2. reports'[b][Last] = L + q /\ q \in Nat
    <3>1. Doing(w, "report") /\ reports' = WithReport(request[w])
      BY <1>6 DEF Count, At
    <3>2. QED
      BY <1>4, <1>5, <1>6, <3>1 DEF WithReport, TypeOK, Reporting
  <2>3. Counting(w, b)' /\ request'[w].qty = q
    <3> DEFINE p == progress[request[w].batch][request[w].step]
               n == [request[w] EXCEPT !.at = "counted", !.prev = p.qty, !.prevGood = p.good,
                                       !.first = p.status = "Pending"]
    <3>1. Put(w, n)
      BY <1>2, <1>6 DEF Count
    <3>2. request'[w] = n
      BY <3>1 DEF Put, TypeOK
    <3>3. Doing(w, "report") /\ request[w] \in ReportRequests /\ p \in Progress
      BY <1>6, StepTypes DEF Count, At, Reporting
    <3>4. n \in ReportRequests
      BY <3>3 DEF ReportRequests, Progress
    <3>5. /\ n.op = "report" /\ n.at = "counted" /\ ~n.tx
          /\ n.batch = b /\ n.step = Last /\ n.qty = q
      BY <1>6, <3>3 DEF ReportRequests, Doing
    <3>6. n # Free
      BY <3>4, FreeAssumption DEF Requests
    <3>7. QED
      BY <3>2, <3>5, <3>6 DEF Counting, At, Doing
  <2>4. ~Counting(w, b)
    BY <1>6 DEF Count, Counting, At
  <2>5. ASSUME NEW v \in Workers, Counting(v, b)', \A u \in Workers \ {v} : ~Counting(u, b)'
        PROVE  reports'[b][Last] <= progress'[b][Last].qty + request'[v].qty
    <3>1. v = w
      BY <2>3, <2>5
    <3>2. \A u \in Workers : ~Counting(u, b)
      BY <1>1, <2>4, <2>5, <3>1, CountingStep
    <3>3. L <= P
      BY <1>3, <3>2
    <3>4. QED
      BY <1>4, <2>1, <2>2, <2>3, <3>1, <3>3
  <2>6. QED
    BY <2>3, <2>5
(* He adds them to the step, and whoever is counting it too is in doubt. *)
<1>7. CASE Add(w) /\ here /\ Counting(w, b)
  <2>1. progress'[b][Last].qty = P + q /\ q \in Nat
    BY <1>5, <1>7, Writer, Written DEF Writes, WrittenAs, Before
  <2>2. reports'[b][Last] = L
    BY <1>4, <1>7, ReportsStep DEF Add, CommitReport, Count, At, Underway
  <2>3. \A v \in Workers \ {w} : ~Counting(v, b)
    BY <1>1, <1>7, CountingStep DEF Writes
  <2>4. L <= P + q
    BY <1>3, <1>7, <2>3
  <2>5. P + q <= Cap
    <3>1. Reporting(w) /\ ~request[w].tx /\ request[w].at = "counted" /\ request[w].op = "report"
      BY <1>7 DEF Counting, At, Doing, Reporting
    <3>2. ~request[w].clash
      BY <1>2, <1>7, <3>1 DEF Doomed, InDoubt
    <3>3. ReadBefore(w) /\ Shape(w)
      BY <3>1 DEF ReadsHold
    <3>4. P = request[w].prev
      BY <1>7, <3>1, <3>2, <3>3 DEF ReadBefore
    <3>5. request[w].prev + q <= Cap
      BY <1>7, <3>1, <3>3 DEF Shape
    <3>6. QED
      BY <3>4, <3>5
  <2>6. \A v \in Workers : ~Counting(v, b)'
    BY <1>1, <1>7, <2>3, CountingStep DEF Add, Count, At
  <2>7. QED
    BY <1>4, <2>1, <2>2, <2>4, <2>5, <2>6
(* An outsourcing receipt adds pieces that are in no report. *)
<1>8. CASE Add(w) /\ here /\ ~Counting(w, b)
  <2>1. progress'[b][Last].qty = P + q /\ q \in Nat
    BY <1>5, <1>8, Writer, Written DEF Writes, WrittenAs, Before
  <2>2. reports'[b][Last] = L
    BY <1>4, <1>8, ReportsStep DEF Add, CommitReport, Count, At, Underway
  <2>3. \A v \in Workers : ~Counting(v, b)
    BY <1>1, <1>8, CountingStep DEF Writes
  <2>4. \A v \in Workers : ~Counting(v, b)'
    BY <1>1, <1>8, <2>3, CountingStep DEF Add, Count, At
  <2>5. QED
    BY <1>3, <1>4, <2>1, <2>2, <2>3, <2>4
(* In a transaction both are written at once. *)
<1>9. CASE CommitReport(w) /\ here
  <2>1. progress'[b][Last].qty = P + q /\ q \in Nat
    BY <1>5, <1>9, Writer, Written DEF Writes, WrittenAs, Before
  <2>2. reports'[b][Last] = L + q
    <3>1. reports' = WithReport(request[w])
      BY <1>9 DEF CommitReport
    <3>2. QED
      BY <1>4, <1>9, <3>1 DEF WithReport, TypeOK
  <2>3. \A v \in Workers : ~Counting(v, b)
    BY <1>1, <1>9, CountingStep DEF Writes, Counting, CommitReport
  <2>4. \A v \in Workers : ~Counting(v, b)'
    <3>1. ~Count(w)
      BY <1>9 DEF CommitReport, Count, At
    <3>2. QED
      BY <1>1, <2>3, <3>1, CountingStep
  <2>5. P + q <= Cap
    <3>1. Reporting(w) /\ request[w].at = "counted" /\ request[w].op = "report"
      BY <1>9 DEF CommitReport, At, Doing, Reporting
    <3>2. ~request[w].clash
      BY <1>2, <1>9, TornGrows DEF Torn
    <3>3. ReadBefore(w) /\ Shape(w)
      BY <3>1 DEF ReadsHold
    <3>4. P = request[w].prev
      BY <1>9, <3>1, <3>2, <3>3 DEF ReadBefore
    <3>5. request[w].prev + q <= Cap
      BY <1>9, <3>1, <3>3 DEF Shape
    <3>6. QED
      BY <3>4, <3>5
  <2>6. QED
    BY <1>3, <1>4, <2>1, <2>2, <2>3, <2>4, <2>5
(* Any other step leaves the sums, and who is counting, as they are. *)
<1>10. CASE /\ ~(Count(w) /\ ~request[w].tx /\ here)
            /\ ~(Add(w) /\ here) /\ ~(CommitReport(w) /\ here)
  <2>1. reports'[b][Last] = L
    BY <1>4, <1>10, ReportsStep
  <2>2. progress'[b][Last].qty = P
    <3>1. CASE ~Writes(w)
      BY <3>1, Unwritten
    <3>2. CASE Writes(w) /\ ~here
      BY <1>4, <3>2, Written
    <3>3. CASE Writes(w) /\ here
      <4>1. Mark(w)
        BY <1>10, <3>3 DEF Writes
      <4>2. progress'[b][Last].qty = P + 0
        BY <3>3, <4>1, Written DEF WrittenAs, Before
      <4>3. QED
        BY <1>4, <4>2
    <3>4. QED
      BY <3>1, <3>2, <3>3
  <2>3. ~Counting(w, b) /\ ~Counting(w, b)'
    <3>1. ~Counting(w, b)
      BY <1>1, <1>10, CountingStep DEF Counting
    <3>2. ~Counting(w, b)'
      BY <1>1, <1>10, CountingStep
    <3>3. QED
      BY <3>1, <3>2
  <2>4. \A v \in Workers : /\ Counting(v, b)' <=> Counting(v, b)
                           /\ Counting(v, b) => request'[v].qty = request[v].qty
    BY <1>1, <2>3, CountingStep
  <2>5. QED
    BY <1>3, <2>1, <2>2, <2>4
<1>11. QED
  BY <1>6, <1>7, <1>8, <1>9, <1>10

LEMMA ReportStep ==
  ASSUME TypeOK, ReportInv, NEW w \in Workers, Step(w)
  PROVE  ReportInv'
<1>1. /\ GoodAmongAll /\ ReadsHold /\ OneNumber /\ MarkedIsDone
      /\ InOrder /\ DoneIsEnough /\ EnoughIsDone /\ CountedOnce
  BY DEF ReportInv
<1>2. GoodAmongAll' /\ ReadsHold' /\ OneNumber'
  BY <1>1, GoodStep, ReadsStep, OneNumberStep
<1>3. MarkedIsDone' /\ InOrder'
  BY <1>1, MarkedStepInv, InOrderStep
<1>4. DoneIsEnough' /\ EnoughIsDone' /\ CountedOnce'
  BY <1>1, DoneStep, EnoughStep, CountedStep
<1>5. QED
  BY <1>2, <1>3, <1>4 DEF ReportInv

(* Who asks for a receipt touches nothing that a report reads. *)
LEMMA ReportStutter ==
  ASSUME ReportInv, UNCHANGED <<floor, request, torn>>
  PROVE  ReportInv'
<1>1. UNCHANGED <<current, progress, reports, request, torn>>
  BY DEF floor
<1>2. ReadsHold' /\ OneNumber' /\ MarkedIsDone'
  <2>1. ReadsHold'
    BY <1>1 DEF ReportInv, ReadsHold, ReadBefore, Shape, Doing, Reporting
  <2>2. OneNumber'
    BY <1>1 DEF ReportInv, OneNumber, HasNumber, At, Doing
  <2>3. MarkedIsDone'
    BY <1>1 DEF ReportInv, MarkedIsDone, Doing, Reporting
  <2>4. QED
    BY <2>1, <2>2, <2>3
<1>3. InOrder'
  BY <1>1 DEF ReportInv, InOrder, Ahead, Passed, Doing
<1>4. \A b \in Batches : Doomed(b)' <=> Doomed(b)
  BY <1>1 DEF Doomed, InDoubt, Reporting, Doing
<1>5. GoodAmongAll' /\ DoneIsEnough' /\ EnoughIsDone'
  BY <1>1, <1>4 DEF ReportInv, GoodAmongAll, DoneIsEnough, EnoughIsDone, Enough, Adding,
                    Reporting, Doing
<1>6. CountedOnce'
  BY <1>1, <1>4 DEF ReportInv, CountedOnce, Counting, At, Doing
<1>7. QED
  BY <1>2, <1>3, <1>5, <1>6 DEF ReportInv

LEMMA ReportInit ==
  ASSUME Init
  PROVE  ReportInv
<1>1. \A w \in Workers : ~Reporting(w)
  BY DEF Init, Reporting, Doing
<1>2. Last \in Steps /\ BatchQty \in [Batches -> Nat \ {0}] /\ Allowance \in Nat
  BY ProductionAssumption DEF Steps
<1>3. \A b \in Batches, s \in Steps :
        /\ progress[b][s].status = "Pending" /\ reports[b][s] = 0
        /\ progress[b][s].qty = 0 /\ progress[b][s].good = 0
  BY DEF Init
<1>4. ReadsHold /\ OneNumber /\ MarkedIsDone
  BY <1>1 DEF ReadsHold, OneNumber, HasNumber, At, Reporting, MarkedIsDone
<1>5. InOrder
  <2>1. SUFFICES ASSUME NEW b \in Batches, NEW s \in Steps, Ahead(b, s)  PROVE FALSE
    BY DEF InOrder
  <2>2. current[b] = 0 /\ s \in 1..Last
    BY DEF Init, Steps
  <2>3. QED
    BY <1>1, <1>3, <2>1, <2>2, ProductionAssumption DEF Ahead, Reporting
<1>6. GoodAmongAll /\ DoneIsEnough /\ EnoughIsDone
  BY <1>2, <1>3 DEF GoodAmongAll, DoneIsEnough, EnoughIsDone, Enough
<1>7. CountedOnce
  BY <1>1, <1>2, <1>3 DEF CountedOnce, Counting, At, Reporting
<1>8. QED
  BY <1>4, <1>5, <1>6, <1>7 DEF ReportInv

THEOREM ReportsHold == Spec => []ReportInv
<1>1. Init => ReportInv
  BY ReportInit
<1>2. TypeOK /\ ReportInv /\ [Next]_vars => ReportInv'
  <2> SUFFICES ASSUME TypeOK, ReportInv, [Next]_vars  PROVE ReportInv'
    OBVIOUS
  <2>1. ASSUME NEW p \in Pickings, NEW b \in Batches, AskReceipt(p, b)
        PROVE  UNCHANGED <<floor, request, torn>>
    BY <2>1 DEF AskReceipt
  <2>2. CASE UNCHANGED vars
    BY <2>2, ReportStutter DEF vars
  <2>3. QED
    BY <2>1, <2>2, ReportStep, ReportStutter DEF Next, Step
<1>3. QED
  BY <1>1, <1>2, TypeInvariance, PTL DEF Spec

(* The guard against skipping a step holds under every interleaving.        *)
THEOREM OrderOfSteps == Spec => []StepsInOrder
<1>1. ReportInv => StepsInOrder
  BY DEF ReportInv, InOrder, Ahead, Passed, StepsInOrder
<1>2. QED
  BY <1>1, ReportsHold, PTL

(* Nobody's report is the last one of a step without noticing; only the     *)
(* bad pieces of a step that goes to outsourcing are not counted by all.    *)
THEOREM Completion == Spec => []CompleteWhenDone
<1>1. ASSUME ReportInv, NEW b \in Batches, NEW s \in Steps, Whole(b), Enough(b, s)
      PROVE  progress[b][s].status = "Completed"
  <2>1. ~Doomed(b)
    BY <1>1 DEF Whole, Doomed, InDoubt, Underway, Reporting
  <2>2. \A w \in Workers : ~Adding(w, b, s)
    BY <1>1 DEF ReportInv, ReadsHold, Shape, Whole, Adding, Underway, Reporting
  <2>3. QED
    BY <1>1, <2>1, <2>2 DEF ReportInv, EnoughIsDone
<1>2. ReportInv => CompleteWhenDone
  BY <1>1 DEF CompleteWhenDone, ReportInv, DoneIsEnough, Enough
<1>3. QED
  BY <1>2, ReportsHold, PTL

(* The tolerance is checked on quantities that may be old, and holds.       *)
THEOREM Tolerance == Spec => []LastStepWithinTolerance
<1>1. ASSUME ReportInv, NEW b \in Batches, Whole(b)
      PROVE  reports[b][Last] <= BatchQty[b] + Allowance
  <2>1. ~Doomed(b) /\ \A w \in Workers : ~Counting(w, b)
    BY <1>1 DEF Whole, Doomed, InDoubt, Counting, At, Underway, Reporting
  <2>2. QED
    BY <1>1, <2>1 DEF ReportInv, CountedOnce
<1>2. ReportInv => LastStepWithinTolerance
  BY <1>1 DEF LastStepWithinTolerance
<1>3. QED
  BY <1>2, ReportsHold, PTL
=============================================================================
