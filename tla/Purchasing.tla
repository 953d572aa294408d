----------------------------- MODULE Purchasing -----------------------------
(***************************************************************************)
(* Purchase orders from draft to receipt (abt-core/src/purchase/order and  *)
(* receive_purchase of wms/picking), with the payable that every receipt   *)
(* posts or rewrites in the Ledger.  A unit of any line costs 1, so that a *)
(* payable is the number of units received.                                *)
(*                                                                         *)
(* The header is guarded by updated_at: update_status writes only if the   *)
(* value the request has read is still there.  The lines and the ledger    *)
(* are not, so a request that reads them first takes several steps.  Two   *)
(* receipts never write at the same time: each draws a document number     *)
(* after it has read the order, and the counter's row is locked until it   *)
(* commits.                                                                *)
(***************************************************************************)
EXTENDS Ledger

CONSTANTS
  Lines,           \* purchase_order_items of an order
  Ordered,         \* quantity of each when the order is drafted
  Allowance,       \* over_delivery_allowance, in units
  NeedsApproval,   \* orders for which find_rule_by_amount has a rule
  Buyers,
  MaxQuantity      \* bound: quantity of a line or of one delivery

ASSUME PurchasingAssumption ==
  /\ IsFiniteSet(Lines)
  /\ Ordered \in [Lines -> 1..MaxQuantity]
  /\ Allowance \in Nat /\ MaxQuantity \in Nat
  /\ NeedsApproval \subseteq Orders

VARIABLES
  po,          \* purchase_orders.status
  quantity,    \* of a line; 0: the line was removed
  received,    \* received_qty
  buyer,       \* what a buyer's or storekeeper's request is doing
  crossed      \* history: "receive", "edit": one wrote the order after another

orders == <<po, quantity, received, buyer, crossed>>
vars == <<ledgerVars, orders>>

PoStatus == {"Draft", "PendingApproval", "Confirmed", "PartiallyReceived",
             "Received", "Cancelled"}
Open == {"Confirmed", "PartiallyReceived"}

Counts == [Lines -> 0..MaxQuantity]

(* lines: those it writes; seen: the status it read; fresh: updated_at has  *)
(* not changed since; alone (history): nobody has written the order or its  *)
(* lines since; complete, due: the status and payable it has computed       *)
Errands == [op : {"receive", "edit", "add", "redraft"}, step : {"read", "added"},
            order : Orders, lines : SUBSET Lines, qty : Counts, seen : PoStatus,
            fresh : BOOLEAN, alone : BOOLEAN, complete : BOOLEAN, due : Nat]

On(b, op) == buyer[b] # Free /\ buyer[b].op = op

Errand(op, o, lines, qty) ==
  [op |-> op, step |-> "read", order |-> o, lines |-> lines, qty |-> qty, seen |-> po[o],
   fresh |-> TRUE, alone |-> TRUE, complete |-> FALSE, due |-> 0]

(* The other requests on order o learn nothing of it, but their rows are    *)
(* old now; stamped: updated_at was written                                 *)
Seen(o, stamped) ==
  [b \in Buyers |->
     IF buyer[b] # Free /\ buyer[b].order = o
     THEN [buyer[b] EXCEPT !.alone = FALSE, !.fresh = @ /\ ~stamped]
     ELSE buyer[b]]

Leave(b, o, stamped) == buyer' = [Seen(o, stamped) EXCEPT ![b] = Free]

(* next_number locks the counter of receipts, updated lines are locked too  *)
HasNumber(b) == On(b, "receive") /\ buyer[b].step = "added"

LineLocked(o, l) ==
  \E b \in Buyers : HasNumber(b) /\ buyer[b].order = o /\ l \in buyer[b].lines

Crossing(b) ==
  crossed' = [crossed EXCEPT ![buyer[b].order] =
                @ \cup (IF buyer[b].alone THEN {}
                        ELSE IF On(b, "receive") THEN {"receive"} ELSE {"edit"})]

(***************************************************************************)
(* The header.  update_status makes these requests one step: if the order  *)
(* was updated after they read it, they fail.                              *)
(***************************************************************************)

(* Mutant: updated_at is not compared. *)
AnyStamp(b) == b \in Buyers

Unchanged(b) == buyer[b].fresh

SetStatus(o, from, to) ==
  /\ po[o] \in from
  /\ po' = [po EXCEPT ![o] = to]
  /\ buyer' = Seen(o, TRUE)
  /\ UNCHANGED <<ledgerVars, quantity, received, crossed>>

Submit(o) ==
  SetStatus(o, {"Draft"}, IF o \in NeedsApproval THEN "PendingApproval" ELSE "Confirmed")

(* confirm and approve_po: the state machine lets a draft through as well   *)
ConfirmOrder(o) == SetStatus(o, {"Draft", "PendingApproval"}, "Confirmed")
Reject(o) == SetStatus(o, {"PendingApproval"}, "Draft")
Cancel(o) == SetStatus(o, {"Draft"}, "Cancelled")

(***************************************************************************)
(* receive_purchase                                                        *)
(***************************************************************************)

(* The order and its lines are read, and the delivery is compared with the  *)
(* lines.  The status is not looked at: goods come in for a draft and for a *)
(* cancelled order, too.                                                    *)
StartReceive(b, o, q) ==
  /\ buyer[b] = Free
  /\ LET delivered == {l \in Lines : q[l] > 0}
     IN /\ delivered # {}
        /\ \A l \in delivered : /\ quantity[o][l] > 0
                                /\ received[o][l] + q[l] <= quantity[o][l] + Allowance
        /\ buyer' = [buyer EXCEPT ![b] = Errand("receive", o, delivered, q)]
  /\ UNCHANGED <<ledgerVars, po, quantity, received, crossed>>

ReceivedAfter(b) ==
  [l \in Lines |-> received[buyer[b].order][l] + buyer[b].qty[l]]

(* Mutant: the lines read at the start are used. *)
AsReadBefore(b) == received[buyer[b].order]

(* The lines as the transaction sees them after its own updates             *)
ReadAgain(b) == ReceivedAfter(b)

(* Mutant: one complete line makes the order complete. *)
SomeReceived(o, count) == \E l \in Lines : count[l] >= quantity[o][l]

AllReceived(o, count) == \A l \in Lines : count[l] >= quantity[o][l]

Total(count) == SumOver(count, Lines)

(* add_received_qty on each line; then the lines are read again and give    *)
(* the status of the order and the payable                                  *)
AddReceived(b) ==
  LET o == buyer[b].order
  IN /\ On(b, "receive") /\ buyer[b].step = "read"
     /\ \A a \in Buyers : ~HasNumber(a)
     /\ \A l \in buyer[b].lines : quantity[o][l] > 0
     /\ buyer' = [buyer EXCEPT ![b].step = "added",
                              ![b].complete = AllReceived(o, ReadAgain(b)),
                              ![b].due = Total(ReadAgain(b))]
     /\ UNCHANGED <<ledgerVars, po, quantity, received, crossed>>

(* Mutant: what is complete is closed at once. *)
TargetClosed(b) == IF buyer[b].complete THEN "Closed" ELSE "PartiallyReceived"

Target(b) == IF buyer[b].complete THEN "Received" ELSE "PartiallyReceived"

StatusMoves(b) == buyer[b].seen \notin {"Received", Target(b)}

(* rewrite_amount_by_source: only while nothing is applied                  *)
Rewritable(o) == ledger[o].applied = 0

(* Status, payable and commit                                               *)
PostReceipt(b) ==
  LET o == buyer[b].order
  IN /\ HasNumber(b)
     /\ \/ StatusMoves(b) /\ Unchanged(b) /\ po' = [po EXCEPT ![o] = Target(b)]
        \/ ~StatusMoves(b) /\ UNCHANGED po
     /\ ledger[o].amount = 0 \/ Rewritable(o)
     /\ ledger' = [ledger EXCEPT ![o].amount = buyer[b].due]
     /\ received' = [received EXCEPT ![o] = ReceivedAfter(b)]
     /\ Crossing(b)
     /\ Leave(b, o, StatusMoves(b))
     /\ UNCHANGED <<settlements, issued, journal, desk, stale, events, quantity>>

(***************************************************************************)
(* Editing                                                                 *)
(***************************************************************************)

(* Mutant: the quantity of a line may be anything. *)
AnyQuantity(o, l, n) == o \in Orders /\ l \in Lines /\ n \in Nat

(* update_items_after_confirm of one line: a new quantity is not less than  *)
(* what was received, a line is removed (0) only if nothing was             *)
NotBelowReceived(o, l, n) == n >= received[o][l]

StartEdit(b, o, l, n) ==
  /\ buyer[b] = Free
  /\ po[o] \in Open
  /\ n # quantity[o][l] /\ NotBelowReceived(o, l, n)
  /\ buyer' = [buyer EXCEPT ![b] =
       Errand(IF quantity[o][l] = 0 THEN "add" ELSE "edit", o, {l}, [k \in Lines |-> n])]
  /\ UNCHANGED <<ledgerVars, po, quantity, received, crossed>>

(* update: while the order is a draft                                       *)
StartRedraft(b, o, q) ==
  /\ buyer[b] = Free
  /\ po[o] = "Draft"
  /\ buyer' = [buyer EXCEPT ![b] = Errand("redraft", o, Lines, q)]
  /\ UNCHANGED <<ledgerVars, po, quantity, received, crossed>>

(* An update of a line that is gone meanwhile finds no row                  *)
NewQuantity(b, l) ==
  LET n == quantity[buyer[b].order][l]
  IN IF l \notin buyer[b].lines \/ (On(b, "edit") /\ n = 0) THEN n ELSE buyer[b].qty[l]

(* A line that is removed takes what it has received with it, and the lines *)
(* of a redrafted order start from nothing                                  *)
FinishEdit(b) ==
  LET o == buyer[b].order
  IN /\ buyer[b] # Free /\ buyer[b].op # "receive"
     /\ \A l \in buyer[b].lines : ~LineLocked(o, l)
     /\ quantity' = [quantity EXCEPT ![o] = [l \in Lines |-> NewQuantity(b, l)]]
     /\ received' = [received EXCEPT ![o] =
          [l \in Lines |-> IF On(b, "redraft") \/ NewQuantity(b, l) = 0 THEN 0 ELSE @[l]]]
     /\ Crossing(b)
     /\ Leave(b, o, TRUE)
     /\ UNCHANGED <<ledgerVars, po>>

(* The request is refused where it would have to overwrite: updated_at has  *)
(* changed, the payable is settled, a line is gone; or it fails             *)
GiveUp(b) ==
  /\ buyer[b] # Free
  /\ buyer' = [buyer EXCEPT ![b] = Free]
  /\ UNCHANGED <<ledgerVars, po, quantity, received, crossed>>

(***************************************************************************)
(* Specification                                                           *)
(***************************************************************************)

Init ==
  /\ LedgerInit
  /\ po = [o \in Orders |-> "Draft"]
  /\ quantity = [o \in Orders |-> Ordered]
  /\ received = [o \in Orders |-> [l \in Lines |-> 0]]
  /\ buyer = [b \in Buyers |-> Free]
  /\ crossed = [o \in Orders |-> {}]

HeaderSteps(o) == Submit(o) \/ ConfirmOrder(o) \/ Reject(o) \/ Cancel(o)

BuyerSteps(b) ==
  \/ \E o \in Orders, q \in Counts : StartReceive(b, o, q)
  \/ AddReceived(b)
  \/ PostReceipt(b)
  \/ \E o \in Orders, l \in Lines, n \in 0..MaxQuantity : StartEdit(b, o, l, n)
  \/ \E o \in Orders, q \in Counts : StartRedraft(b, o, q)
  \/ FinishEdit(b)
  \/ GiveUp(b)

Next ==
  \/ LedgerNext /\ UNCHANGED orders
  \/ \E o \in Orders : HeaderSteps(o)
  \/ \E b \in Buyers : BuyerSteps(b)

Spec == Init /\ [][Next]_vars

(***************************************************************************)
(* Properties                                                              *)
(***************************************************************************)

TypeOK ==
  /\ LedgerTypeOK
  /\ po \in [Orders -> PoStatus]
  /\ quantity \in [Orders -> Counts]
  /\ received \in [Orders -> [Lines -> Nat]]
  /\ buyer \in [Buyers -> {Free} \cup Errands]
  /\ crossed \in [Orders -> SUBSET {"receive", "edit"}]

(* The payable of an order is what its lines have received, through partial *)
(* receipts, also overlapping ones, edited lines, settlements and refused   *)
(* requests, unless an edit worked on lines read before a receipt.          *)
PayableMatchesReceipts ==
  \A o \in Orders : "edit" \notin crossed[o] => ledger[o].amount = Total(received[o])

(* A line never receives more than its quantity and the tolerance, though   *)
(* the quantity is edited while goods arrive, except where a receipt or an  *)
(* edit was checked on lines that another request has changed meanwhile.    *)
ReceivedWithinOrder ==
  \A o \in Orders, l \in Lines :
    crossed[o] = {} => received[o][l] <= quantity[o][l] + Allowance

(* An order is Received only if every line is: the status is computed from  *)
(* lines read after the update, and lost updates of it are refused.         *)
ReceivedIsComplete ==
  \A o \in Orders : po[o] = "Received" /\ "edit" \notin crossed[o] =>
    \A l \in Lines : received[o][l] >= quantity[o][l]

(* The status of an order never goes back: a request that has read an older *)
(* one does not write its own over it, however receipts, edits and the      *)
(* requests on the header overlap.  An order that was confirmed is no draft *)
(* again and not cancelled; a cancelled one changes its status only         *)
(* together with goods that come in all the same.                           *)
StatusMovesForward ==
  [][\A o \in Orders :
       /\ po[o] \in Open \cup {"Received", "Cancelled"} =>
            po'[o] \in {po[o], "PartiallyReceived", "Received"}
       /\ po[o] = "Received" => po'[o] = po[o]
       /\ po[o] = "Cancelled" /\ po'[o] # po[o] =>
            \E l \in Lines : received'[o][l] > received[o][l]]_<<po, received>>
=============================================================================
