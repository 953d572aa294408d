----------------------------- MODULE Production -----------------------------
(***************************************************************************)
(* One work order on the shop floor: its batches, the reports of their     *)
(* steps and their receipt into stock (abt-core/src/mes/production_batch,  *)
(* mes/outsourcing_received_handler.rs, receive_production of              *)
(* wms/picking).                                                           *)
(*                                                                         *)
(* No row is locked when it is read, and no status is compared when it is  *)
(* written, so a request reads in one step and writes in a later one.      *)
(* What orders them is the document number that a report and a receipt     *)
(* draw: in a transaction the counter's row stays locked until it commits. *)
(* The work center reports in a transaction; the page of a batch reports   *)
(* on a bare connection, where each statement commits for itself and the   *)
(* request may fail between any two.                                       *)
(***************************************************************************)
EXTENDS Integers, FiniteSets, FiniteSetsExt

CONSTANTS
  Batches,      \* rows split_work_order may create
  BatchQty,     \* batch_qty of each
  Planned,      \* planned_qty of the order with its tolerance
  Last,         \* number of routing steps
  Inspected,    \* steps with is_inspection_point
  Outsourced,   \* steps an outsourcing order may be received for
  Allowance,    \* over_completion_tolerance, in pieces
  Pickings,     \* receipts that may be asked for
  Workers, Free,
  MaxReport,    \* bound: pieces in one report
  MaxPieces     \* bound: no report of a step that has as many

Steps == 1..Last

ASSUME ProductionAssumption ==
  /\ Last \in Nat \ {0} /\ MaxReport \in Nat \ {0} /\ MaxPieces \in Nat
  /\ Planned \in Nat /\ Allowance \in Nat
  /\ BatchQty \in [Batches -> Nat \ {0}]
  /\ Inspected \subseteq Steps /\ Outsourced \subseteq Steps

VARIABLES
  order,      \* work_orders.status
  status,     \* production_batches.status; None: not created
  current,    \* production_batches.current_step
  progress,   \* batch_routing_progress: status and quantity of each step
  reports,    \* pieces in the work_reports of each step
  picking,    \* receipts: status and batch
  request,    \* what a user's request is doing
  torn        \* history: batches whose progress a bare request left half written

floor == <<status, current, progress, reports>>
vars == <<order, floor, picking, request, torn>>

OrderStatus == {"Released", "InProduction", "Closed", "Cancelled"}
BatchStatus == {"None", "Pending", "InProgress", "Suspended", "PendingReceipt",
                "Completed", "Cancelled"}

(* qty: all pieces that were processed; good: completed_qty, those that are *)
(* not defective                                                            *)
Progress == [status : {"Pending", "InProgress", "Completed"}, qty : Nat, good : Nat]

Finished == {"Completed", "Cancelled"}
Existing == {b \in Batches : status[b] # "None"}

HeaderOps == {"start", "suspend", "resume", "scrap", "advance"}

(* tx: in a transaction; seen: the status it read; prev, prevGood, first:   *)
(* quantities of the step, and whether it was Pending, when they were read; *)
(* clash (history): the step was written since; last: it is to close the    *)
(* order; alone (history): no batch was written since                       *)
ReportRequests ==
  [op : {"report", "outsourced"}, tx : BOOLEAN,
   at : {"read", "counted", "added", "marked", "stepped"},
   batch : Batches, step : Steps, qty : Nat \ {0}, good : Nat, seen : BatchStatus,
   prev : Nat, prevGood : Nat, first : BOOLEAN, clash : BOOLEAN]
HeaderRequests == [op : HeaderOps, batch : Batches]
SplitRequests == [op : {"split"}, batches : SUBSET Batches]
ReceiptRequests ==
  [op : {"receive"}, at : {"read", "booked"}, picking : Pickings,
   last : BOOLEAN, alone : BOOLEAN]
CancelRequests == [op : {"cancel"}, seen : OrderStatus]

Requests ==
  ReportRequests \cup HeaderRequests \cup SplitRequests \cup ReceiptRequests \cup CancelRequests

ASSUME FreeAssumption == Free \notin Requests \cup Batches

Doing(w, op) == request[w] # Free /\ request[w].op = op
At(w, op, stage) == Doing(w, op) /\ request[w].at = stage

(* A report or an outsourcing receipt between two statements of a bare      *)
(* connection                                                               *)
Underway(w) ==
  /\ Doing(w, "report") \/ Doing(w, "outsourced")
  /\ ~request[w].tx /\ request[w].at # "read"

Booked(w) == At(w, "receive", "booked")
BatchLocked(b) == \E w \in Workers : Booked(w) /\ picking[request[w].picking].batch = b

(* The other requests when w has written a batch: a receipt that has        *)
(* compared the batches is not alone, unless w waited for its number        *)
Disturb(w) ==
  [v \in Workers |->
     IF Booked(v) /\ ~Booked(w) THEN [request[v] EXCEPT !.alone = FALSE] ELSE request[v]]

(* ... and when w has written quantity or status of a step: whoever has     *)
(* read them writes on old ones                                             *)
DisturbStep(w) ==
  LET r == request[w]
  IN [v \in Workers |->
        IF /\ v # w /\ (Doing(v, "report") \/ Doing(v, "outsourced"))
           /\ request[v].batch = r.batch /\ request[v].step = r.step
           /\ request[v].at # "read" /\ ~(r.tx /\ request[v].tx)
        THEN [request[v] EXCEPT !.clash = TRUE]
        ELSE Disturb(w)[v]]

Put(w, r) == request' = [request EXCEPT ![w] = r]
Release(w) == request' = [Disturb(w) EXCEPT ![w] = Free]

(***************************************************************************)
(* confirm_routing_step                                                    *)
(***************************************************************************)

(* Mutant: a step may be reported whatever step the batch is at. *)
AnyStep(b, s) == b \in Batches /\ s \in Steps

NextStep(b, s) == current[b] = s - 1

(* Of q pieces g are good                                                   *)
StartReport(w, b, s, q, g, tx) ==
  /\ request[w] = Free
  /\ status[b] \in {"Pending", "InProgress"}
  /\ NextStep(b, s)
  /\ reports[b][s] < MaxPieces
  /\ Put(w, [op |-> "report", tx |-> tx, at |-> "read", batch |-> b, step |-> s, qty |-> q,
             good |-> g, seen |-> status[b], prev |-> 0, prevGood |-> 0, first |-> FALSE,
             clash |-> FALSE])
  /\ UNCHANGED <<order, floor, picking, torn>>

(* Mutant: what was reported before is forgotten. *)
OwnQuantity(r) == r.step = Last => r.qty <= BatchQty[r.batch] + Allowance

WithinTolerance(r) ==
  r.step = Last => progress[r.batch][r.step].qty + r.qty <= BatchQty[r.batch] + Allowance

(* Mutant: reports draw their number without waiting for each other. *)
NumberAtOnce(w) == w \in Workers

NumberFree(w) ==
  \A v \in Workers \ {w} : ~(At(v, "report", "counted") /\ request[v].tx)

WithReport(r) == [reports EXCEPT ![r.batch][r.step] = @ + r.qty]

(* The number, the work_reports row, then the progress of the step is read  *)
Count(w) ==
  LET r == request[w]
      p == progress[r.batch][r.step]
  IN /\ At(w, "report", "read")
     /\ NumberFree(w)
     /\ reports' = IF r.tx THEN reports ELSE WithReport(r)
     /\ \/ /\ WithinTolerance(r)
           /\ Put(w, [r EXCEPT !.at = "counted", !.prev = p.qty, !.prevGood = p.good,
                               !.first = p.status = "Pending"])
           /\ UNCHANGED torn
        \/ /\ ~WithinTolerance(r)
           /\ Put(w, Free)
           /\ torn' = IF r.tx THEN torn ELSE torn \cup {r.batch}
     /\ UNCHANGED <<order, status, current, progress, picking>>

(* A report counts good and bad pieces, an outsourcing receipt is added to  *)
(* the good ones                                                            *)
StepDone(r) ==
  (IF r.op = "report" THEN r.prev ELSE r.prevGood) + r.qty >= BatchQty[r.batch]

(* f2: the quantities are added to what is there                            *)
Added(r) ==
  [progress EXCEPT ![r.batch][r.step].qty = @ + r.qty, ![r.batch][r.step].good = @ + r.good]

(* g1, g3                                                                   *)
MarkedStep(r, p) ==
  IF StepDone(r) THEN "Completed" ELSE IF r.first THEN "InProgress" ELSE p.status

(* h, i: an inspection suspends the batch; update_current_step of the first *)
(* step starts it again                                                     *)
SteppedStatus(r) ==
  IF StepDone(r) /\ r.step = 1 THEN "InProgress"
  ELSE IF r.op = "report" /\ r.step \in Inspected THEN "Suspended"
  ELSE status[r.batch]

(* Mutant: one step on from where the batch is. *)
OneStepOn(r) == IF StepDone(r) THEN current[r.batch] + 1 ELSE current[r.batch]

SteppedTo(r) == IF StepDone(r) THEN r.step ELSE current[r.batch]

(* k                                                                        *)
FinalStatus(r, now) ==
  IF r.step = Last /\ StepDone(r)
  THEN IF r.step \in Inspected THEN now ELSE "PendingReceipt"
  ELSE IF r.seen = "Pending" THEN "InProgress" ELSE now

(* k2: mark_in_production, of the first report                              *)
OrderAfter(r) ==
  IF r.seen = "Pending" /\ order = "Released" THEN "InProduction" ELSE order

Torn(r) == IF r.clash THEN torn \cup {r.batch} ELSE torn

(* In a transaction all of it becomes visible at once                       *)
CommitReport(w) ==
  LET r == request[w]
      a == Added(r)[r.batch][r.step]
  IN /\ At(w, "report", "counted") /\ r.tx
     /\ ~BatchLocked(r.batch)
     /\ reports' = WithReport(r)
     /\ progress' = [progress EXCEPT ![r.batch][r.step] =
                       [a EXCEPT !.status = MarkedStep(r, a)]]
     /\ current' = [current EXCEPT ![r.batch] = SteppedTo(r)]
     /\ status' = [status EXCEPT ![r.batch] = FinalStatus(r, SteppedStatus(r))]
     /\ order' = OrderAfter(r)
     /\ torn' = Torn(r)
     /\ request' = [DisturbStep(w) EXCEPT ![w] = Free]
     /\ UNCHANGED picking

(* On a bare connection it takes four steps                                 *)
Add(w) ==
  LET r == request[w]
  IN /\ Underway(w) /\ r.at = "counted"
     /\ progress' = Added(r)
     /\ request' = [DisturbStep(w) EXCEPT ![w] = [r EXCEPT !.at = "added"]]
     /\ UNCHANGED <<order, status, current, reports, picking, torn>>

Mark(w) ==
  LET r == request[w]
      p == progress[r.batch][r.step]
  IN /\ Underway(w) /\ r.at = "added"
     /\ progress' = [progress EXCEPT ![r.batch][r.step].status = MarkedStep(r, p)]
     /\ torn' = Torn(r)
     /\ request' = [DisturbStep(w) EXCEPT ![w] = [r EXCEPT !.at = "marked"]]
     /\ UNCHANGED <<order, status, current, reports, picking>>

StepOn(w) ==
  LET r == request[w]
  IN /\ Underway(w) /\ r.at = "marked"
     /\ ~BatchLocked(r.batch)
     /\ status' = [status EXCEPT ![r.batch] = SteppedStatus(r)]
     /\ current' = [current EXCEPT ![r.batch] = SteppedTo(r)]
     /\ request' = [Disturb(w) EXCEPT ![w] =
          IF r.op = "report" THEN [r EXCEPT !.at = "stepped"] ELSE Free]
     /\ UNCHANGED <<order, progress, reports, picking, torn>>

Finish(w) ==
  LET r == request[w]
  IN /\ Underway(w) /\ r.at = "stepped"
     /\ ~BatchLocked(r.batch)
     /\ status' = [status EXCEPT ![r.batch] = FinalStatus(r, @)]
     /\ order' = OrderAfter(r)
     /\ Release(w)
     /\ UNCHANGED <<current, progress, reports, picking, torn>>

(* OutsourcingReceivedHandler.writeback: the tail of a report of good       *)
(* pieces, always on a bare connection, and whatever step the batch is at   *)
StartOutsourced(w, b, s, q) ==
  LET p == progress[b][s]
  IN /\ request[w] = Free
     /\ s \in Outsourced /\ b \in Existing
     /\ p.status # "Completed" /\ p.qty < MaxPieces
     /\ Put(w, [op |-> "outsourced", tx |-> FALSE, at |-> "counted", batch |-> b, step |-> s,
                qty |-> q, good |-> q, seen |-> status[b], prev |-> p.qty, prevGood |-> p.good,
                first |-> p.status = "Pending", clash |-> FALSE])
     /\ UNCHANGED <<order, floor, picking, torn>>

(***************************************************************************)
(* start_batch, suspend, resume, scrap, advance_to_receipt                 *)
(***************************************************************************)

From(op) ==
  CASE op = "start" -> {"Pending"}
    [] op = "suspend" -> {"InProgress"}
    [] op = "resume" -> {"Suspended"}
    [] OTHER -> {"InProgress", "Suspended"}

To(op) ==
  CASE op = "suspend" -> "Suspended"
    [] op = "scrap" -> "Cancelled"
    [] op = "advance" -> "PendingReceipt"
    [] OTHER -> "InProgress"

ReadHeader(w, op, b) ==
  /\ request[w] = Free
  /\ status[b] \in From(op)
  /\ op = "advance" => progress[b][Last].status = "Completed"
  /\ Put(w, [op |-> op, batch |-> b])
  /\ UNCHANGED <<order, floor, picking, torn>>

WriteHeader(w) ==
  /\ request[w] # Free /\ request[w].op \in HeaderOps
  /\ ~BatchLocked(request[w].batch)
  /\ status' = [status EXCEPT ![request[w].batch] = To(request[w].op)]
  /\ Release(w)
  /\ UNCHANGED <<order, current, progress, reports, picking, torn>>

(***************************************************************************)
(* split_work_order, and cancel of the work order                          *)
(***************************************************************************)

Pieces(bs) == MapThenSumSet(LAMBDA b : BatchQty[b], bs)

StartSplit(w, bs) ==
  /\ request[w] = Free
  /\ order \in {"Released", "InProduction"}
  /\ bs # {} /\ bs \cap Existing = {}
  /\ \A v \in Workers : Doing(v, "split") => bs \cap request[v].batches = {}
  /\ Pieces(Existing \cup bs) <= Planned
  /\ Put(w, [op |-> "split", batches |-> bs])
  /\ UNCHANGED <<order, floor, picking, torn>>

FinishSplit(w) ==
  /\ Doing(w, "split")
  /\ status' = [b \in Batches |-> IF b \in request[w].batches THEN "Pending" ELSE status[b]]
  /\ Release(w)
  /\ UNCHANGED <<order, current, progress, reports, picking, torn>>

(* Not once goods were received                                             *)
StartCancel(w) ==
  /\ request[w] = Free
  /\ order \in {"Released", "InProduction"}
  /\ \A p \in Pickings : picking[p].status # "Done"
  /\ Put(w, [op |-> "cancel", seen |-> order])
  /\ UNCHANGED <<order, floor, picking, torn>>

(* The version is compared; the batches' rows are waited for                *)
FinishCancel(w) ==
  /\ Doing(w, "cancel")
  /\ request[w].seen = order
  /\ \A b \in Batches : ~BatchLocked(b)
  /\ order' = "Cancelled"
  /\ status' = [b \in Batches |-> IF b \in Existing THEN "Cancelled" ELSE "None"]
  /\ Release(w)
  /\ UNCHANGED <<current, progress, reports, picking, torn>>

(***************************************************************************)
(* Receipt                                                                 *)
(***************************************************************************)

(* The status of the batch is not looked at                                 *)
AskReceipt(p, b) ==
  /\ picking[p].status = "None"
  /\ b \in Existing
  /\ picking' = [picking EXCEPT ![p] = [status |-> "Draft", batch |-> b]]
  /\ UNCHANGED <<order, floor, request, torn>>

StartReceive(w, p) ==
  /\ request[w] = Free
  /\ picking[p].status = "Draft"
  /\ order # "Cancelled"
  /\ Put(w, [op |-> "receive", at |-> "read", picking |-> p, last |-> FALSE, alone |-> TRUE])
  /\ UNCHANGED <<order, floor, picking, torn>>

(* Mutant: receipts are not ordered by the number of their backflush. *)
BackflushAtOnce(w) == w \in Workers

BackflushFree(w) == \A v \in Workers \ {w} : ~Booked(v)

NoneActive(b) == \A c \in Existing \ {b} : status[c] \in Finished

(* The goods are booked and backflushed, the batch is completed, and the    *)
(* batches are read                                                         *)
Book(w) ==
  LET r == request[w]
  IN /\ At(w, "receive", "read")
     /\ BackflushFree(w)
     /\ Put(w, [r EXCEPT !.at = "booked", !.last = NoneActive(picking[r.picking].batch)])
     /\ UNCHANGED <<order, floor, picking, torn>>

CommitReceipt(w) ==
  LET r == request[w]
      p == r.picking
  IN /\ Booked(w)
     /\ status' = [status EXCEPT ![picking[p].batch] = "Completed"]
     /\ order' = IF r.last /\ order = "InProduction" THEN "Closed" ELSE order
     /\ picking' = [picking EXCEPT ![p].status = "Done"]
     /\ Release(w)
     /\ UNCHANGED <<current, progress, reports, torn>>

(* A request fails or is refused; a bare one leaves what it has written     *)
Abort(w) ==
  /\ request[w] # Free
  /\ torn' = IF Underway(w) THEN torn \cup {request[w].batch} ELSE torn
  /\ Put(w, Free)
  /\ UNCHANGED <<order, floor, picking>>

(***************************************************************************)
(* Specification                                                           *)
(***************************************************************************)

Init ==
  /\ order = "Released"
  /\ status = [b \in Batches |-> "None"]
  /\ current = [b \in Batches |-> 0]
  /\ progress = [b \in Batches |-> [s \in Steps |-> [status |-> "Pending", qty |-> 0, good |-> 0]]]
  /\ reports = [b \in Batches |-> [s \in Steps |-> 0]]
  /\ picking = [p \in Pickings |-> [status |-> "None", batch |-> Free]]
  /\ request = [w \in Workers |-> Free]
  /\ torn = {}

ReportSteps(w) ==
  \/ \E b \in Batches, s \in Steps, q \in 1..MaxReport :
       \/ \E g \in 0..q, tx \in BOOLEAN : StartReport(w, b, s, q, g, tx)
       \/ StartOutsourced(w, b, s, q)
  \/ Count(w) \/ CommitReport(w)
  \/ Add(w) \/ Mark(w) \/ StepOn(w) \/ Finish(w)

HeaderSteps(w) ==
  \/ \E op \in HeaderOps, b \in Batches : ReadHeader(w, op, b)
  \/ WriteHeader(w)
  \/ \E bs \in SUBSET Batches : StartSplit(w, bs)
  \/ FinishSplit(w)
  \/ StartCancel(w) \/ FinishCancel(w)

ReceiptSteps(w) ==
  \/ \E p \in Pickings : StartReceive(w, p)
  \/ Book(w) \/ CommitReceipt(w)

Next ==
  \/ \E w \in Workers : ReportSteps(w) \/ HeaderSteps(w) \/ ReceiptSteps(w) \/ Abort(w)
  \/ \E p \in Pickings, b \in Batches : AskReceipt(p, b)

Spec == Init /\ [][Next]_vars

(***************************************************************************)
(* Properties                                                              *)
(***************************************************************************)

TypeOK ==
  /\ order \in OrderStatus
  /\ status \in [Batches -> BatchStatus]
  /\ current \in [Batches -> 0..Last]
  /\ progress \in [Batches -> [Steps -> Progress]]
  /\ reports \in [Batches -> [Steps -> Nat]]
  /\ picking \in [Pickings -> [status : {"None", "Draft", "Done"}, batch : Batches \cup {Free}]]
  /\ request \in [Workers -> {Free} \cup Requests]
  /\ torn \in SUBSET Batches

(* No bare request is between two statements on the batch, or has torn it   *)
Whole(b) == b \notin torn /\ \A w \in Workers : Underway(w) => request[w].batch # b

(* Before a step is complete the batch does not move past it and no later   *)
(* step is reported: the guard against skipping reads current_step without  *)
(* a lock, and still no interleaving of reports, in transactions or         *)
(* statement by statement, gets past it.  Only an outsourcing receipt is    *)
(* booked whatever step the batch is at, and only overlapping requests on   *)
(* bare connections set a complete step back.                               *)
StepsInOrder ==
  \A b \in Batches, s \in Steps :
    /\ b \notin torn
    /\ progress[b][s].status # "Completed"
    /\ s <= current[b] \/ \E t \in Steps : t > s /\ reports[b][t] > 0
    => \E t \in Outsourced : t > s /\ progress[b][t].status = "Completed"

(* A step is complete only when as many pieces were processed as the batch  *)
(* has, and it is complete when as many good ones were, though reports and  *)
(* outsourcing receipts of one step overlap: nobody's report is the last    *)
(* one without noticing.  Reports also count the bad pieces; a step that an *)
(* outsourcing receipt fills up beside them stays open, because the receipt *)
(* does not.  Otherwise only a request on a bare connection that fails half *)
(* way, or overlaps another, leaves a step open.                            *)
CompleteWhenDone ==
  \A b \in Batches, s \in Steps :
    LET p == progress[b][s]
    IN /\ p.status = "Completed" => p.qty >= BatchQty[b]
       /\ Whole(b) /\ p.good >= BatchQty[b] => p.status = "Completed"
       /\ Whole(b) /\ s \notin Outsourced /\ p.qty >= BatchQty[b] => p.status = "Completed"

(* What is reported, and paid, for the last step never exceeds the batch    *)
(* and its tolerance, except on a batch torn by a bare request.             *)
LastStepWithinTolerance ==
  \A b \in Batches : Whole(b) => reports[b][Last] <= BatchQty[b] + Allowance

(* A receipt closes an order in production if and only if it leaves no      *)
(* batch unfinished, also when the receipts of two batches overlap and each *)
(* starts while the other's batch is open, unless a request that draws no   *)
(* such number writes a batch while it commits.                             *)
ClosesWithLastReceipt ==
  [][\A w \in Workers :
       /\ Booked(w) /\ request[w].alone /\ order = "InProduction"
       /\ picking'[request[w].picking] # picking[request[w].picking]
       => (order' = "Closed" <=> \A b \in Batches : status'[b] \in Finished \cup {"None"})]_vars

=============================================================================
