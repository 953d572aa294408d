----------------------------- MODULE SalesOrder -----------------------------
(***************************************************************************)
(* The header of one sales order beside its lines and pickings             *)
(* (abt-core/src/sales/sales_order/implt.rs, the outgoing pickings of      *)
(* wms/picking/implt.rs, shared/state_machine).                            *)
(*                                                                         *)
(* The status is derived from the lines, which nobody locks to read them.  *)
(* Each request is a transaction in up to four steps: it begins and reads; *)
(* it changes lines and derives the status; it asks the state machine for  *)
(* the transition; it writes the header and commits.  Until then nobody    *)
(* sees what it did, but those who want the same picking or line wait.     *)
(* Two lines are of different products, or the stock ledger would let      *)
(* their shipments wait for each other as well.                            *)
(***************************************************************************)
EXTENDS Integers

CONSTANTS
  Lines, Quantity,   \* sales_order_items and the quantity of each
  Pickings,          \* outgoing pickings that may be created
  Users, Free,
  MaxQuantity,       \* bound: pieces of a line
  Deliveries         \* bound: what one picking may ask for or ship

ASSUME SalesOrderAssumption ==
  /\ Lines # {}
  /\ MaxQuantity \in Nat
  /\ Quantity \in [Lines -> 1..MaxQuantity]
  /\ Deliveries \subseteq [Lines -> 0..MaxQuantity]

VARIABLES
  status,       \* sales_orders.status
  log,          \* to_state of the row get_current_state finds
  later,        \* users whose transaction began after that row's did
  line,         \* shipped and cancelled quantity and line_status
  picking,      \* status and requested quantities of each picking
  request,      \* what a user's request is doing
  crossed,      \* history: a request committed on what it had read before another
  disordered    \* history: a row of the log is hidden behind an earlier one

vars == <<status, log, later, line, picking, request, crossed, disordered>>

OrderStatus == {"Draft", "Confirmed", "ReadyToShip", "ShippingRequested",
                "PartiallyShipped", "Shipped", "Cancelled"}

(* A line is New while its version is 1, that is before the order is        *)
(* confirmed; its line_status is Pending then as well                       *)
LineRecords ==
  [shipped : Nat, cancelled : Nat, status : {"New", "Pending", "Allocated", "Cancelled"}]
Amounts == [Lines -> 0..MaxQuantity]
PickingRecords == [status : {"None", "Draft", "Confirmed", "Done", "Cancelled"}, qty : Amounts]

Nothing == [l \in Lines |-> 0]
NoPicking == [status |-> "None", qty |-> Nothing]

(* state_transition_defs of SalesOrderStatus                                *)
Transitions ==
  {<<"Draft", "Confirmed">>, <<"Confirmed", "ReadyToShip">>}
  \cup {"Confirmed", "ReadyToShip", "PartiallyShipped"} \X {"ShippingRequested"}
  \cup {"Confirmed", "ReadyToShip", "ShippingRequested"} \X {"PartiallyShipped"}
  \cup {"Confirmed", "ReadyToShip", "ShippingRequested", "PartiallyShipped"} \X {"Shipped"}
  \cup {"Draft", "Confirmed", "ReadyToShip", "ShippingRequested", "PartiallyShipped"}
         \X {"Cancelled"}

(***************************************************************************)
(* Requests                                                                *)
(***************************************************************************)

(* stage: "begun", "counted" with the status it derived in to, "moved" with *)
(* what the state machine allowed; older: whose transaction began before;   *)
(* alone: nobody has committed since it read; late: the order was cancelled *)
(* when it began                                                            *)
Requests ==
  [op : {"confirm", "request", "ship", "cancelLine", "recalc", "cancel",
         "confirmPicking", "cancelPicking"},
   stage : {"begun", "counted", "moved"},
   on : Pickings \cup {Free}, qty : Amounts, allocated : SUBSET Lines,
   to : OrderStatus, moves : BOOLEAN,
   older : SUBSET Users, alone : BOOLEAN, late : BOOLEAN]

Doing(u, op, stage) == request[u] # Free /\ request[u].op = op /\ request[u].stage = stage

(* Locks are taken when lines and pickings are written                      *)
Writing(u) == request[u] # Free /\ request[u].stage # "begun"

PickingLocked(p) == \E v \in Users : Writing(v) /\ request[v].op = "ship" /\ request[v].on = p

LineLocked(l) ==
  \E v \in Users : Writing(v) /\ request[v].op \in {"ship", "cancelLine"} /\ request[v].qty[l] > 0

(* next_number of the shipping request keeps its counter's row              *)
CounterLocked == \E v \in Users : Writing(v) /\ request[v].op = "request"

Begin(u, op, p, q, allocated) ==
  /\ request[u] = Free
  /\ request' = [request EXCEPT ![u] =
       [op |-> op, stage |-> "begun", on |-> p, qty |-> q, allocated |-> allocated,
        to |-> "Draft", moves |-> FALSE,
        older |-> {v \in Users : request[v] # Free}, alone |-> TRUE,
        late |-> status = "Cancelled"]]
  /\ later' = later \cup {u}
  /\ UNCHANGED <<status, log, line, picking, crossed, disordered>>

(* u leaves, and what the others have read since is old                     *)
Left(u) ==
  [v \in Users |-> IF v = u \/ request[v] = Free THEN Free
                   ELSE [request[v] EXCEPT !.alone = @ /\ request[v].stage = "begun",
                                           !.older = @ \ {u}]]

(* The row u has inserted is found if u began after the row found so far:   *)
(* rows are ordered by created_at, which is when their transaction began    *)
Logged(u, state) ==
  IF u \in later
  THEN /\ log' = state
       /\ later' = {v \in Users \ {u} : request[v] # Free /\ u \in request[v].older}
       /\ UNCHANGED disordered
  ELSE /\ disordered' = TRUE /\ later' = later
       /\ UNCHANGED log

Unlogged(u) == later' = later \ {u} /\ UNCHANGED <<log, disordered>>

Commit(u) ==
  /\ request' = Left(u)
  /\ crossed' = (crossed \/ ~request[u].alone)

(* u leaves without having touched lines or header                          *)
Quit(u) ==
  /\ request' = [v \in Users |-> IF v = u \/ request[v] = Free THEN Free
                                 ELSE [request[v] EXCEPT !.older = @ \ {u}]]
  /\ later' = later \ {u}
  /\ UNCHANGED <<status, log, line, crossed, disordered>>

(***************************************************************************)
(* calc_header_status and recalc_header_status                             *)
(***************************************************************************)

Open(ln, l) == Quantity[l] - ln[l].shipped - ln[l].cancelled

AllSettled(ln) == \A l \in Lines : ln[l].shipped + ln[l].cancelled >= Quantity[l]
AnyShipped(ln) == \E l \in Lines : ln[l].shipped > 0
AllAllocated(ln) ==
  /\ \E l \in Lines : ln[l].status # "Cancelled"
  /\ \A l \in Lines : ln[l].status \in {"Allocated", "Cancelled"}

(* Mutant: what has begun to ship is complete with its own lines. *)
HeaderOfStarted(ln) ==
  IF \E l \in Lines : ln[l].shipped > 0 /\ Open(ln, l) = 0 THEN "Shipped"
  ELSE IF AnyShipped(ln) THEN "PartiallyShipped"
  ELSE IF AllAllocated(ln) THEN "ReadyToShip" ELSE "Confirmed"

HeaderOf(ln) ==
  CASE AllSettled(ln) /\ AnyShipped(ln) -> "Shipped"
    [] AnyShipped(ln) /\ ~AllSettled(ln) -> "PartiallyShipped"
    [] ~AnyShipped(ln) /\ AllAllocated(ln) -> "ReadyToShip"
    [] OTHER -> "Confirmed"

(* A confirmed picking shows before any shipment; waiting: there is one     *)
Derived(ln, waiting) ==
  IF waiting /\ HeaderOf(ln) \in {"Confirmed", "ReadyToShip"} THEN "ShippingRequested"
  ELSE HeaderOf(ln)

Waiting == \E p \in Pickings : picking[p].status = "Confirmed"

(* Lines as u sees them after its own updates                               *)
LinesOf(u) ==
  LET r == request[u]
  IN CASE r.op = "ship" ->
            [l \in Lines |-> [line[l] EXCEPT !.shipped = @ + r.qty[l]]]
       [] r.op = "cancelLine" ->
            [l \in Lines |->
               [line[l] EXCEPT !.cancelled = @ + r.qty[l],
                               !.status = IF r.qty[l] > 0 /\ r.qty[l] = Open(line, l)
                                          THEN "Cancelled" ELSE @]]
       [] OTHER -> line

(* The constraint chk_soi_open_qty_nonneg, which the checks before only     *)
(* announce: open quantities do not become negative                         *)
Fits(u) ==
  \A l \in Lines : line[l].shipped + line[l].cancelled + request[u].qty[l] <= Quantity[l]

(* Mutant: the lines are read before they are updated. *)
ReadBefore(u) == [l \in Lines |-> line[l]]

ReadAfter(u) == LinesOf(u)

Count(u, waiting) ==
  /\ request' = [request EXCEPT ![u].stage = "counted",
                                ![u].to = Derived(ReadAfter(u), waiting)]
  /\ UNCHANGED <<status, log, later, line, picking, crossed, disordered>>

(***************************************************************************)
(* StateMachineService.transition and the write of the header              *)
(***************************************************************************)

(* Mutant: the status is written whatever the state machine says. *)
AnyTransition(to) == to \in OrderStatus

Allowed(to) == <<log, to>> \in Transitions

(* The header and the log are read after the lines                          *)
Move(u) ==
  /\ Writing(u) /\ request[u].stage = "counted"
  /\ request[u].to # status => Allowed(request[u].to)
  /\ request' = [request EXCEPT ![u].stage = "moved", ![u].moves = request[u].to # status]
  /\ UNCHANGED <<status, log, later, line, picking, crossed, disordered>>

(* confirm and cancel do not derive the status                              *)
MoveTo(u, op, to) ==
  /\ Doing(u, op, "begun")
  /\ Allowed(to)
  /\ request' = [request EXCEPT ![u].stage = "moved", ![u].to = to, ![u].moves = TRUE]
  /\ UNCHANGED <<status, log, later, line, picking, crossed, disordered>>

WriteHeader(u) ==
  IF request[u].moves THEN status' = request[u].to /\ Logged(u, request[u].to)
  ELSE Unlogged(u) /\ UNCHANGED status

(***************************************************************************)
(* Operations                                                              *)
(***************************************************************************)

(* confirm: all lines are still New, or ConcurrentConflict; allocated are   *)
(* the lines the reservation covers.  It derives the status at the end,     *)
(* while it holds the header's row.                                         *)
StartConfirm(u, allocated) ==
  status = "Draft" /\ Begin(u, "confirm", Free, Nothing, allocated)

MoveConfirm(u) == MoveTo(u, "confirm", "Confirmed")

Planned(u) ==
  [l \in Lines |-> [line[l] EXCEPT !.status =
                      IF l \in request[u].allocated THEN "Allocated" ELSE "Pending"]]

FinishConfirm(u) ==
  LET to == Derived(Planned(u), Waiting)
      found == IF u \in later THEN "Confirmed" ELSE log
  IN /\ Doing(u, "confirm", "moved")
     /\ \A l \in Lines : line[l].status = "New"
     /\ to # "Confirmed" => <<found, to>> \in Transitions
     /\ line' = Planned(u)
     /\ status' = to
     /\ Logged(u, to)
     /\ Commit(u)
     /\ UNCHANGED picking

(* A new picking asks for what has not shipped, cancelled or not            *)
Unshipped(q) ==
  /\ \E l \in Lines : q[l] > 0
  /\ \A l \in Lines : line[l].shipped + q[l] <= Quantity[l]

Unused(p) ==
  picking[p].status = "None" /\ ~\E v \in Users : request[v] # Free /\ request[v].on = p

(* create_from_order, in one step: nothing it reads is written by others    *)
(* but the header and quantities it only compares                           *)
CreateFromOrder(p, q) ==
  /\ status \in {"Confirmed", "ReadyToShip", "PartiallyShipped"}
  /\ Unused(p) /\ Unshipped(q)
  /\ ~CounterLocked
  /\ picking' = [picking EXCEPT ![p] = [status |-> "Draft", qty |-> q]]
  /\ UNCHANGED <<status, log, later, line, request, crossed, disordered>>

(* request_from_order                                                       *)
StartRequest(u, p, q) ==
  /\ status \in {"Confirmed", "ReadyToShip", "PartiallyShipped", "ShippingRequested"}
  /\ Unused(p) /\ Unshipped(q)
  /\ Begin(u, "request", p, q, {})

CountRequest(u) == Doing(u, "request", "begun") /\ ~CounterLocked /\ Count(u, TRUE)

FinishRequest(u) ==
  /\ Doing(u, "request", "moved")
  /\ picking' = [picking EXCEPT ![request[u].on] =
                   [status |-> "Confirmed", qty |-> request[u].qty]]
  /\ WriteHeader(u) /\ Commit(u)
  /\ UNCHANGED line

(* direct_ship_rows and record_shipment: any quantity of the picking's lines *)
StartShip(u, p, q) ==
  /\ picking[p].status = "Confirmed"
  /\ \E l \in Lines : q[l] > 0
  /\ \A l \in Lines : q[l] > 0 => picking[p].qty[l] > 0
  /\ Begin(u, "ship", p, q, {})

CountShip(u) ==
  /\ Doing(u, "ship", "begun")
  /\ ~PickingLocked(request[u].on)
  /\ \A l \in Lines : request[u].qty[l] > 0 => ~LineLocked(l)
  /\ Fits(u)
  /\ Count(u, Waiting)

FinishShip(u) ==
  /\ Doing(u, "ship", "moved")
  /\ line' = LinesOf(u)
  /\ picking' = [picking EXCEPT ![request[u].on].status = "Done"]
  /\ WriteHeader(u) /\ Commit(u)

(* cancel_line, which no page calls yet                                     *)
StartCancelLine(u, l, n) ==
  /\ status \in {"Confirmed", "PartiallyShipped"}
  /\ Begin(u, "cancelLine", Free, [Nothing EXCEPT ![l] = n], {})

CountCancelLine(u) ==
  /\ Doing(u, "cancelLine", "begun")
  /\ \A l \in Lines : request[u].qty[l] > 0 => ~LineLocked(l) /\ line[l].status # "Cancelled"
  /\ Fits(u)
  /\ Count(u, Waiting)

FinishCancelLine(u) ==
  /\ Doing(u, "cancelLine", "moved")
  /\ line' = LinesOf(u)
  /\ WriteHeader(u) /\ Commit(u)
  /\ UNCHANGED picking

(* recalc_header_status by itself, as reconcile_fulfillment_status ends     *)
StartRecalc(u) == Begin(u, "recalc", Free, Nothing, {})
CountRecalc(u) == Doing(u, "recalc", "begun") /\ Count(u, Waiting)

FinishRecalc(u) ==
  /\ Doing(u, "recalc", "moved")
  /\ WriteHeader(u) /\ Commit(u)
  /\ UNCHANGED <<line, picking>>

(* cancel                                                                   *)
StartCancel(u) ==
  status \notin {"Shipped", "Cancelled"} /\ Begin(u, "cancel", Free, Nothing, {})

MoveCancel(u) == MoveTo(u, "cancel", "Cancelled")

FinishCancel(u) ==
  /\ Doing(u, "cancel", "moved")
  /\ WriteHeader(u) /\ Commit(u)
  /\ UNCHANGED <<line, picking>>

(* confirm and cancel of a picking: its status was read before, and is not  *)
(* compared again                                                           *)
StartPicking(u, op, p) ==
  /\ picking[p].status \in IF op = "confirmPicking" THEN {"Draft"} ELSE {"Draft", "Confirmed"}
  /\ Begin(u, op, p, Nothing, {})

FinishPicking(u) ==
  /\ Doing(u, "confirmPicking", "begun") \/ Doing(u, "cancelPicking", "begun")
  /\ ~PickingLocked(request[u].on)
  /\ picking' = [picking EXCEPT ![request[u].on].status =
                   IF request[u].op = "confirmPicking" THEN "Confirmed" ELSE "Cancelled"]
  /\ Quit(u)

(* A check fails, the state machine refuses, or the server dies             *)
RollBack(u) ==
  /\ request[u] # Free
  /\ Quit(u) /\ UNCHANGED picking

(***************************************************************************)
(* Specification                                                           *)
(***************************************************************************)

Init ==
  /\ status = "Draft" /\ log = "Draft" /\ later = {}
  /\ line = [l \in Lines |-> [shipped |-> 0, cancelled |-> 0, status |-> "New"]]
  /\ picking = [p \in Pickings |-> NoPicking]
  /\ request = [u \in Users |-> Free]
  /\ crossed = FALSE /\ disordered = FALSE

Starts(u) ==
  \/ \E allocated \in SUBSET Lines : StartConfirm(u, allocated)
  \/ \E p \in Pickings, q \in Deliveries : StartRequest(u, p, q) \/ StartShip(u, p, q)
  \/ \E l \in Lines : \E n \in 1..Quantity[l] : StartCancelLine(u, l, n)
  \/ StartRecalc(u) \/ StartCancel(u)
  \/ \E op \in {"confirmPicking", "cancelPicking"}, p \in Pickings : StartPicking(u, op, p)

Counts(u) == CountRequest(u) \/ CountShip(u) \/ CountCancelLine(u) \/ CountRecalc(u)
Moves(u) == Move(u) \/ MoveConfirm(u) \/ MoveCancel(u)
Finishes(u) ==
  \/ FinishConfirm(u) \/ FinishRequest(u) \/ FinishShip(u) \/ FinishCancelLine(u)
  \/ FinishRecalc(u) \/ FinishCancel(u) \/ FinishPicking(u)

Next ==
  \/ \E p \in Pickings, q \in Deliveries : CreateFromOrder(p, q)
  \/ \E u \in Users : Starts(u) \/ Counts(u) \/ Moves(u) \/ Finishes(u) \/ RollBack(u)

Spec == Init /\ [][Next]_vars

(***************************************************************************)
(* Properties                                                              *)
(***************************************************************************)

TypeOK ==
  /\ status \in OrderStatus /\ log \in OrderStatus
  /\ later \subseteq Users
  /\ line \in [Lines -> LineRecords]
  /\ picking \in [Pickings -> PickingRecords]
  /\ request \in [Users -> {Free} \cup Requests]
  /\ crossed \in BOOLEAN /\ disordered \in BOOLEAN

(* What the header says is true, whoever worked on the order at the same    *)
(* time: a shipped order has nothing open, a partially shipped one has      *)
(* shipped something, and one that is ready to ship is in stock.  It need   *)
(* not say all: see the next property.                                      *)
HeaderIsTrue ==
  /\ status = "Shipped" => AllSettled(line) /\ AnyShipped(line)
  /\ status = "PartiallyShipped" => AnyShipped(line)
  /\ status = "ReadyToShip" => \A l \in Lines : line[l].status \in {"Allocated", "Cancelled"}

(* The header follows the lines: once the last piece has shipped or was     *)
(* cancelled the order is Shipped, before that PartiallyShipped, unless two *)
(* requests overlapped and one derived the status from lines the other was  *)
(* about to change.  A shipment cannot be committed without its header.     *)
HeaderFollowsLines ==
  ~crossed /\ status \notin {"Draft", "Cancelled"} =>
    /\ (status = "Shipped") = (AllSettled(line) /\ AnyShipped(line))
    /\ (status = "PartiallyShipped") = (AnyShipped(line) /\ ~AllSettled(line))

(* A cancelled order stays cancelled and ships nothing more, although the   *)
(* pickings of it remain and no shipment looks at the header first: the     *)
(* state machine refuses.  Not so where requests overlapped.                *)
CancelledIsFinal ==
  [][status = "Cancelled" /\ ~crossed' /\ ~disordered =>
       status' = "Cancelled" /\ \A l \in Lines : line'[l].shipped = line[l].shipped]_vars

(* The state machine lets nothing lead out of Cancelled, and it is asked    *)
(* whenever a shipment is recorded: a shipment that begins on a cancelled   *)
(* order is not recorded.                                                   *)
CancelledShipsNoMore ==
  [][\A u \in Users :
       Doing(u, "ship", "moved") /\ request[u].late /\ request'[u] = Free => line' = line]_vars
=============================================================================
