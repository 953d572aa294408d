-------------------------- MODULE PurchasingProofs --------------------------
(***************************************************************************)
(* Proofs about Purchasing, for any orders, lines, buyers, quantities and  *)
(* tolerance: the status of an order never goes back, no line receives     *)
(* more than its quantity and the tolerance unless requests have crossed,  *)
(* an order that is Received has all its lines, and the payable is what    *)
(* they have received.  The invariants of the ledger hold among receipts,  *)
(* and so no more is paid for an order than was received of it.            *)
(***************************************************************************)
EXTENDS Purchasing, LedgerProofs

(***************************************************************************)
(* The inductive invariant                                                 *)
(***************************************************************************)

(* Errands, whatever set the payables they have computed come from: what   *)
(* guards the order does not depend on the sums                            *)
ErrandsDue(D) ==
  [op : {"receive", "edit", "add", "redraft"}, step : {"read", "added"},
   order : Orders, lines : SUBSET Lines, qty : Counts, seen : PoStatus,
   fresh : BOOLEAN, alone : BOOLEAN, complete : BOOLEAN, due : D]

Desks(D) == buyer \in [Buyers -> {Free} \cup ErrandsDue(D)]

Types ==
  /\ po \in [Orders -> PoStatus]
  /\ quantity \in [Orders -> Counts]
  /\ received \in [Orders -> [Lines -> Nat]]
  /\ crossed \in [Orders -> SUBSET {"receive", "edit"}]
  /\ \E D : Desks(D)

(* What the status the request has read allows it to do: an edit is checked *)
(* against it, a receipt is not, but brings something                       *)
SeenFits(b) ==
  /\ buyer[b].op \in {"edit", "add"} => buyer[b].seen \in Open
  /\ buyer[b].op = "redraft" => buyer[b].seen = "Draft"
  /\ buyer[b].op = "receive" => \E l \in Lines : buyer[b].qty[l] > 0

(* The status is the one that was read as long as nobody wrote the header.  *)
SeenHolds(b) ==
  buyer[b].fresh \/ buyer[b].alone => po[buyer[b].order] = buyer[b].seen

(* The checks of a request hold as long as nobody wrote the order.          *)
ChecksHold(b) ==
  LET o == buyer[b].order
      n == buyer[b].qty
  IN buyer[b].alone =>
       /\ buyer[b].op = "receive" =>
            \A l \in Lines : n[l] = 0 \/ received[o][l] + n[l] <= quantity[o][l] + Allowance
       /\ buyer[b].op \in {"edit", "add"} =>
            \A l \in buyer[b].lines : received[o][l] <= n[l]

(* So does what a receipt has computed from the lines it holds the lock of. *)
CompleteHolds(b) ==
  HasNumber(b) /\ buyer[b].fresh /\ buyer[b].complete
    => AllReceived(buyer[b].order, ReceivedAfter(b))

Honest(b) == buyer[b] # Free => SeenFits(b) /\ SeenHolds(b) /\ ChecksHold(b) /\ CompleteHolds(b)

OneNumber == \A a, b \in Buyers : HasNumber(a) /\ HasNumber(b) => a = b

OrderInv ==
  /\ Types
  /\ \A b \in Buyers : Honest(b)
  /\ OneNumber
  /\ ReceivedWithinOrder
  /\ ReceivedIsComplete

(***************************************************************************)
(* Requests                                                                *)
(***************************************************************************)

LEMMA ErrandType ==
  ASSUME Types, NEW b \in Buyers, buyer[b] # Free
  PROVE  /\ buyer[b].op \in {"receive", "edit", "add", "redraft"}
         /\ buyer[b].order \in Orders /\ buyer[b].lines \subseteq Lines
         /\ buyer[b].qty \in Counts /\ buyer[b].seen \in PoStatus
         /\ po[buyer[b].order] \in PoStatus
         /\ \A l \in Lines : /\ buyer[b].qty[l] \in Nat
                             /\ received[buyer[b].order][l] \in Nat
                             /\ quantity[buyer[b].order][l] \in Nat
<1>1. PICK D : buyer \in [Buyers -> {Free} \cup ErrandsDue(D)]
  BY DEF Types, Desks
<1>2. buyer[b] \in ErrandsDue(D)
  BY <1>1
<1>3. /\ buyer[b].op \in {"receive", "edit", "add", "redraft"}
      /\ buyer[b].order \in Orders /\ buyer[b].lines \subseteq Lines
      /\ buyer[b].qty \in Counts /\ buyer[b].seen \in PoStatus
  BY <1>2 DEF ErrandsDue
<1>4. received[buyer[b].order] \in [Lines -> Nat] /\ quantity[buyer[b].order] \in Counts
  BY <1>3 DEF Types
<1>5. MaxQuantity \in Nat
  BY PurchasingAssumption
<1>6. QED
  BY <1>3, <1>4, <1>5 DEF Types, Counts

(* What a new request remembers *)
Begun(b, op, o, lines, q) ==
  /\ \E D : buyer' \in [Buyers -> {Free} \cup ErrandsDue(D)]
  /\ \A a \in Buyers \ {b} : buyer'[a] = buyer[a]
  /\ buyer'[b].op = op /\ buyer'[b].step = "read" /\ buyer'[b].order = o
  /\ buyer'[b].lines = lines /\ buyer'[b].qty = q /\ buyer'[b].seen = po[o]
  /\ buyer'[b].due = 0

LEMMA ErrandFacts ==
  ASSUME Types, NEW b \in Buyers, NEW o \in Orders,
         NEW op \in {"receive", "edit", "add", "redraft"},
         NEW lines \in SUBSET Lines, NEW q \in Counts,
         buyer' = [buyer EXCEPT ![b] = Errand(op, o, lines, q)]
  PROVE  Begun(b, op, o, lines, q)
<1>1. PICK D : buyer \in [Buyers -> {Free} \cup ErrandsDue(D)]
  BY DEF Types, Desks
<1>2. po[o] \in PoStatus
  BY DEF Types
<1>3. Errand(op, o, lines, q) \in ErrandsDue(D \cup {0})
  BY <1>2 DEF Errand, ErrandsDue
<1>4. buyer \in [Buyers -> {Free} \cup ErrandsDue(D \cup {0})]
  BY <1>1 DEF ErrandsDue
<1>5. buyer' \in [Buyers -> {Free} \cup ErrandsDue(D \cup {0})]
  BY <1>3, <1>4
<1>6. buyer'[b] = Errand(op, o, lines, q) /\ \A a \in Buyers \ {b} : buyer'[a] = buyer[a]
  BY <1>1
<1>7. QED
  BY <1>5, <1>6 DEF Errand, Begun

(* A request that another one has overtaken is the same but for what it may *)
(* still rely on.                                                           *)
Overtakes(e, f, o, stamped) ==
  /\ f.op = e.op /\ f.step = e.step /\ f.order = e.order /\ f.lines = e.lines
  /\ f.qty = e.qty /\ f.seen = e.seen /\ f.due = e.due
  /\ f.complete => e.complete
  /\ f.alone => e.alone /\ e.order # o
  /\ f.fresh => e.fresh /\ ~(e.order = o /\ stamped)

LEMMA Marked ==
  ASSUME NEW D, NEW e \in ErrandsDue(D), NEW x \in BOOLEAN, NEW y \in BOOLEAN
  PROVE  [e EXCEPT !.alone = x, !.fresh = y]
           = [op |-> e.op, step |-> e.step, order |-> e.order, lines |-> e.lines,
              qty |-> e.qty, seen |-> e.seen, fresh |-> y, alone |-> x,
              complete |-> e.complete, due |-> e.due]
<1> DEFINE g == [e EXCEPT !.alone = x]
<1>1. g = [op |-> e.op, step |-> e.step, order |-> e.order, lines |-> e.lines,
           qty |-> e.qty, seen |-> e.seen, fresh |-> e.fresh, alone |-> x,
           complete |-> e.complete, due |-> e.due]
  BY DEF ErrandsDue
<1>2. g \in ErrandsDue(D)
  BY DEF ErrandsDue
<1>3. [e EXCEPT !.alone = x, !.fresh = y] = [g EXCEPT !.fresh = y]
  OBVIOUS
<1> HIDE DEF g
<1>4. [g EXCEPT !.fresh = y]
        = [op |-> g.op, step |-> g.step, order |-> g.order, lines |-> g.lines,
           qty |-> g.qty, seen |-> g.seen, fresh |-> y, alone |-> g.alone,
           complete |-> g.complete, due |-> g.due]
  BY <1>2 DEF ErrandsDue
<1>5. QED
  BY <1>1, <1>3, <1>4

LEMMA SeenFacts ==
  ASSUME NEW D, buyer \in [Buyers -> {Free} \cup ErrandsDue(D)],
         NEW o, NEW stamped \in BOOLEAN
  PROVE  /\ Seen(o, stamped) \in [Buyers -> {Free} \cup ErrandsDue(D)]
         /\ \A a \in Buyers : buyer[a] = Free => Seen(o, stamped)[a] = Free
         /\ \A a \in Buyers : buyer[a] # Free
              => Overtakes(buyer[a], Seen(o, stamped)[a], o, stamped)
<1>1. ASSUME NEW a \in Buyers, buyer[a] # Free
      PROVE  /\ Seen(o, stamped)[a] \in ErrandsDue(D)
             /\ Overtakes(buyer[a], Seen(o, stamped)[a], o, stamped)
  <2>1. buyer[a] \in ErrandsDue(D)
    BY <1>1
  <2>2. CASE buyer[a].order # o
    <3>1. Seen(o, stamped)[a] = buyer[a]
      BY <2>2 DEF Seen
    <3>2. QED
      BY <2>1, <2>2, <3>1 DEF Overtakes
  <2>3. CASE buyer[a].order = o
    <3> DEFINE e == buyer[a]
               x == FALSE
               y == e.fresh /\ ~stamped
               f == [e EXCEPT !.alone = x, !.fresh = y]
    <3>1. Seen(o, stamped)[a] = f
      BY <1>1, <2>3 DEF Seen
    <3>2. x \in BOOLEAN /\ y \in BOOLEAN
      OBVIOUS
    <3>3. (x => FALSE) /\ (y => e.fresh /\ ~stamped)
      OBVIOUS
    <3> HIDE DEF x, y
    <3>4. f = [op |-> e.op, step |-> e.step, order |-> e.order, lines |-> e.lines,
               qty |-> e.qty, seen |-> e.seen, fresh |-> y, alone |-> x,
               complete |-> e.complete, due |-> e.due]
      BY <2>1, <3>2, Marked
    <3> HIDE DEF f
    <3>5. f \in ErrandsDue(D)
      BY <2>1, <3>2, <3>4 DEF ErrandsDue
    <3>6. Overtakes(e, f, o, stamped)
      BY <3>3, <3>4 DEF Overtakes
    <3>7. QED
      BY <3>1, <3>5, <3>6
  <2>4. QED
    BY <2>2, <2>3
<1>2. \A a \in Buyers : buyer[a] = Free => Seen(o, stamped)[a] = Free
  BY DEF Seen
<1>3. Seen(o, stamped) \in [Buyers -> {Free} \cup ErrandsDue(D)]
  <2>1. \A a \in Buyers : Seen(o, stamped)[a] \in {Free} \cup ErrandsDue(D)
    BY <1>1, <1>2
  <2>2. QED
    BY <2>1 DEF Seen
<1>4. QED
  BY <1>1, <1>2, <1>3

(* All requests but b's, when it has committed *)
LEMMA LeaveFacts ==
  ASSUME Types, NEW b \in Buyers, NEW o, NEW stamped \in BOOLEAN, Leave(b, o, stamped)
  PROVE  /\ \E D : buyer' \in [Buyers -> {Free} \cup ErrandsDue(D)]
         /\ buyer'[b] = Free
         /\ \A a \in Buyers \ {b} : buyer[a] = Free => buyer'[a] = Free
         /\ \A a \in Buyers \ {b} : buyer[a] # Free
              => Overtakes(buyer[a], buyer'[a], o, stamped)
<1>1. PICK D : buyer \in [Buyers -> {Free} \cup ErrandsDue(D)]
  BY DEF Types, Desks
<1>2. /\ Seen(o, stamped) \in [Buyers -> {Free} \cup ErrandsDue(D)]
      /\ \A a \in Buyers : buyer[a] = Free => Seen(o, stamped)[a] = Free
      /\ \A a \in Buyers : buyer[a] # Free
              => Overtakes(buyer[a], Seen(o, stamped)[a], o, stamped)
  BY <1>1, SeenFacts
<1>3. /\ buyer' \in [Buyers -> {Free} \cup ErrandsDue(D)]
      /\ buyer'[b] = Free
      /\ \A a \in Buyers \ {b} : buyer'[a] = Seen(o, stamped)[a]
  BY <1>2 DEF Leave
<1>4. QED
  BY <1>2, <1>3

(* A request keeps to what it knows when another one writes order o: of its *)
(* own order it relies on nothing any more, unless only goods were added    *)
(* and it is no receipt that has its number.                                *)
LEMMA StillHonest ==
  ASSUME Types, NEW a \in Buyers, buyer[a] # Free, Honest(a),
         NEW o \in Orders, NEW stamped \in BOOLEAN,
         Overtakes(buyer[a], buyer'[a], o, stamped),
         \A p \in Orders \ {o} : /\ po'[p] = po[p] /\ quantity'[p] = quantity[p]
                                 /\ received'[p] = received[p],
         stamped \/ (po'[o] = po[o] /\ ~HasNumber(a))
  PROVE  Honest(a)'
<1> DEFINE p == buyer[a].order
<1>0. p \in Orders
  BY ErrandType
<1>1. /\ buyer'[a].op = buyer[a].op /\ buyer'[a].step = buyer[a].step /\ buyer'[a].order = p
      /\ buyer'[a].lines = buyer[a].lines /\ buyer'[a].qty = buyer[a].qty
      /\ buyer'[a].seen = buyer[a].seen
      /\ buyer'[a].complete => buyer[a].complete
      /\ buyer'[a].alone => buyer[a].alone /\ p # o
      /\ buyer'[a].fresh => buyer[a].fresh /\ ~(p = o /\ stamped)
  BY DEF Overtakes
<1>2. SeenFits(a) /\ SeenHolds(a) /\ ChecksHold(a) /\ CompleteHolds(a)
  BY DEF Honest
<1>3. SeenFits(a)'
  BY <1>1, <1>2 DEF SeenFits
<1>4. SeenHolds(a)'
  BY <1>0, <1>1, <1>2 DEF SeenHolds
<1>5. ChecksHold(a)'
  BY <1>0, <1>1, <1>2 DEF ChecksHold
<1>6. CompleteHolds(a)'
  <2> SUFFICES ASSUME HasNumber(a)', buyer'[a].fresh, buyer'[a].complete
               PROVE  AllReceived(buyer[a].order, ReceivedAfter(a))'
    BY DEF CompleteHolds
  <2>1. HasNumber(a)
    BY <1>1 DEF HasNumber, On
  <2>2. p # o
    BY <1>1, <2>1
  <2>3. AllReceived(p, ReceivedAfter(a))
    BY <1>1, <1>2, <2>1 DEF CompleteHolds
  <2>4. received'[p] = received[p] /\ quantity'[p] = quantity[p]
    BY <1>0, <2>2
  <2>5. ReceivedAfter(a)' = ReceivedAfter(a)
    BY <1>1, <2>4 DEF ReceivedAfter
  <2>6. QED
    BY <1>1, <2>3, <2>4, <2>5 DEF AllReceived
<1>7. QED
  BY <1>3, <1>4, <1>5, <1>6 DEF Honest

(* No request gets a number by being overtaken.                             *)
LEMMA NumbersKept ==
  ASSUME NEW a \in Buyers, NEW o, NEW stamped,
         buyer[a] = Free => buyer'[a] = Free,
         buyer[a] # Free => Overtakes(buyer[a], buyer'[a], o, stamped)
  PROVE  HasNumber(a)' => HasNumber(a)
BY DEF HasNumber, On, Overtakes

(***************************************************************************)
(* Each step keeps the invariant                                           *)
(***************************************************************************)

LEMMA Untouched ==
  ASSUME NEW a \in Buyers, Honest(a), buyer'[a] = buyer[a] \/ buyer'[a] = Free,
         UNCHANGED <<po, quantity, received>>
  PROVE  Honest(a)'
<1>1. CASE buyer'[a] = Free
  BY <1>1 DEF Honest
<1>2. CASE buyer'[a] = buyer[a]
  BY <1>2 DEF Honest, SeenFits, SeenHolds, ChecksHold, CompleteHolds, HasNumber, On,
              AllReceived, ReceivedAfter
<1>3. QED
  BY <1>1, <1>2

LEMMA OrdersUntouched ==
  ASSUME OrderInv, UNCHANGED <<po, quantity, received, crossed>>
  PROVE  ReceivedWithinOrder' /\ ReceivedIsComplete'
BY DEF OrderInv, ReceivedWithinOrder, ReceivedIsComplete

LEMMA HeaderStep ==
  ASSUME OrderInv, NEW o \in Orders, NEW from, NEW to \in PoStatus \ {"Received"},
         SetStatus(o, from, to)
  PROVE  OrderInv'
<1>1. PICK D : buyer \in [Buyers -> {Free} \cup ErrandsDue(D)]
  BY DEF OrderInv, Types, Desks
<1>2. /\ buyer' \in [Buyers -> {Free} \cup ErrandsDue(D)]
      /\ \A a \in Buyers : buyer[a] = Free => buyer'[a] = Free
      /\ \A a \in Buyers : buyer[a] # Free => Overtakes(buyer[a], buyer'[a], o, TRUE)
  BY <1>1, SeenFacts DEF SetStatus
<1>3. Types'
  BY <1>2 DEF SetStatus, OrderInv, Types, Desks
<1>4. ASSUME NEW a \in Buyers  PROVE Honest(a)'
  <2>1. CASE buyer[a] = Free
    BY <1>2, <2>1 DEF Honest
  <2>2. CASE buyer[a] # Free
    <3>1. \A p \in Orders \ {o} : /\ po'[p] = po[p] /\ quantity'[p] = quantity[p]
                                  /\ received'[p] = received[p]
      BY DEF SetStatus, OrderInv, Types
    <3>2. QED
      BY <1>2, <2>2, <3>1, StillHonest DEF OrderInv
  <2>3. QED
    BY <2>1, <2>2
<1>5. OneNumber'
  <2>1. \A a \in Buyers : HasNumber(a)' => HasNumber(a)
    BY <1>2, NumbersKept
  <2>2. QED
    BY <2>1 DEF OrderInv, OneNumber
<1>6. ReceivedWithinOrder'
  BY DEF SetStatus, OrderInv, ReceivedWithinOrder
<1>7. ReceivedIsComplete'
  <2>1. \A p \in Orders : po'[p] = "Received" => po[p] = "Received"
    BY DEF SetStatus, OrderInv, Types
  <2>2. QED
    BY <2>1 DEF SetStatus, OrderInv, ReceivedIsComplete
<1>8. QED
  BY <1>3, <1>4, <1>5, <1>6, <1>7 DEF OrderInv

LEMMA HeaderKeeps ==
  ASSUME OrderInv, NEW o \in Orders, HeaderSteps(o)
  PROVE  OrderInv'
<1>1. \E from, to : to \in PoStatus \ {"Received"} /\ SetStatus(o, from, to)
  BY DEF HeaderSteps, Submit, ConfirmOrder, Reject, Cancel, PoStatus
<1>2. QED
  BY <1>1, HeaderStep

(* A request that begins: what it has checked is so.                        *)
LEMMA StartKeeps ==
  ASSUME OrderInv, NEW b \in Buyers, NEW o \in Orders,
         \/ \E q \in Counts : StartReceive(b, o, q) \/ StartRedraft(b, o, q)
         \/ \E l \in Lines, n \in 0..MaxQuantity : StartEdit(b, o, l, n)
  PROVE  OrderInv'
<1> USE DEF OrderInv
<1>1. UNCHANGED <<po, quantity, received, crossed>>
  BY DEF StartReceive, StartRedraft, StartEdit
<1>2. ASSUME NEW op \in {"receive", "edit", "add", "redraft"},
             NEW lines \in SUBSET Lines, NEW q \in Counts,
             buyer' = [buyer EXCEPT ![b] = Errand(op, o, lines, q)],
             op \in {"edit", "add"} => po[o] \in Open, op = "redraft" => po[o] = "Draft",
             op = "receive" => \E l \in Lines : q[l] > 0,
             op = "receive" => \A l \in Lines : \/ q[l] = 0
                                                \/ received[o][l] + q[l] <= quantity[o][l] + Allowance,
             op \in {"edit", "add"} => \A l \in lines : received[o][l] <= q[l]
      PROVE  OrderInv'
  <2>1. /\ \E D : buyer' \in [Buyers -> {Free} \cup ErrandsDue(D)]
        /\ \A a \in Buyers \ {b} : buyer'[a] = buyer[a]
        /\ buyer'[b].op = op /\ buyer'[b].step = "read" /\ buyer'[b].order = o
        /\ buyer'[b].lines = lines /\ buyer'[b].qty = q /\ buyer'[b].seen = po[o]
    <3>1. Begun(b, op, o, lines, q)
      BY <1>2, ErrandFacts
    <3>2. QED
      BY <3>1 DEF Begun
  <2>2. Types'
    BY <1>1, <2>1 DEF Types, Desks
  <2>3. ~HasNumber(b)'
    BY <2>1 DEF HasNumber
  <2>4. Honest(b)'
    <3>1. SeenFits(b)'
      BY <1>2, <2>1 DEF SeenFits
    <3>2. SeenHolds(b)'
      BY <1>1, <2>1 DEF SeenHolds
    <3>3. ChecksHold(b)'
      BY <1>1, <1>2, <2>1 DEF ChecksHold
    <3>4. CompleteHolds(b)'
      BY <2>3 DEF CompleteHolds
    <3>5. QED
      BY <3>1, <3>2, <3>3, <3>4 DEF Honest
  <2>5. \A a \in Buyers : Honest(a)'
    BY <1>1, <2>1, <2>4, Untouched
  <2>6. OneNumber'
    BY <2>1, <2>3 DEF OneNumber, HasNumber, On
  <2>7. QED
    BY <1>1, <2>2, <2>5, <2>6, OrdersUntouched
<1>3. ASSUME NEW q \in Counts, StartReceive(b, o, q)  PROVE OrderInv'
  <2> DEFINE delivered == {l \in Lines : q[l] > 0}
  <2>1. /\ buyer' = [buyer EXCEPT ![b] = Errand("receive", o, delivered, q)]
        /\ \E l \in Lines : q[l] > 0
        /\ \A l \in delivered : received[o][l] + q[l] <= quantity[o][l] + Allowance
    BY <1>3 DEF StartReceive
  <2>2. \A l \in Lines : q[l] = 0 \/ l \in delivered
    BY PurchasingAssumption DEF Counts
  <2>3. delivered \in SUBSET Lines
    OBVIOUS
  <2> HIDE DEF delivered
  <2>4. QED
    BY <1>2, <2>1, <2>2, <2>3
<1>4. ASSUME NEW q \in Counts, StartRedraft(b, o, q)  PROVE OrderInv'
  BY <1>2, <1>4 DEF StartRedraft
<1>5. ASSUME NEW l \in Lines, NEW n \in 0..MaxQuantity, StartEdit(b, o, l, n)  PROVE OrderInv'
  <2> DEFINE op == IF quantity[o][l] = 0 THEN "add" ELSE "edit"
             q == [k \in Lines |-> n]
  <2>1. /\ po[o] \in Open /\ received[o][l] <= n
        /\ buyer' = [buyer EXCEPT ![b] = Errand(op, o, {l}, q)]
    BY <1>5 DEF StartEdit, NotBelowReceived, Types
  <2>2. q \in Counts /\ q[l] = n
    BY DEF Counts
  <2>3. op \in {"edit", "add"}
    OBVIOUS
  <2> HIDE DEF op, q
  <2>4. QED
    BY <1>2, <2>1, <2>2, <2>3
<1>6. QED
  BY <1>3, <1>4, <1>5

LEMMA GiveUpKeeps ==
  ASSUME OrderInv, NEW b \in Buyers, GiveUp(b)
  PROVE  OrderInv'
<1> USE DEF OrderInv
<1>1. UNCHANGED <<po, quantity, received, crossed>>
  BY DEF GiveUp
<1>2. \A a \in Buyers : buyer'[a] = Free \/ buyer'[a] = buyer[a]
  BY DEF GiveUp, Types, Desks
<1>3. Types'
  BY <1>1 DEF GiveUp, Types, Desks
<1>4. OneNumber'
  BY <1>2 DEF OneNumber, HasNumber, On
<1>5. QED
  BY <1>1, <1>2, <1>3, <1>4, Untouched, OrdersUntouched

LEMMA Computed ==
  ASSUME NEW D, NEW e \in ErrandsDue(D), NEW x \in BOOLEAN, NEW y
  PROVE  [e EXCEPT !.step = "added", !.complete = x, !.due = y]
           = [op |-> e.op, step |-> "added", order |-> e.order, lines |-> e.lines,
              qty |-> e.qty, seen |-> e.seen, fresh |-> e.fresh, alone |-> e.alone,
              complete |-> x, due |-> y]
<1> DEFINE f == [e EXCEPT !.step = "added"]
           g == [f EXCEPT !.complete = x]
<1>1. f = [op |-> e.op, step |-> "added", order |-> e.order, lines |-> e.lines,
           qty |-> e.qty, seen |-> e.seen, fresh |-> e.fresh, alone |-> e.alone,
           complete |-> e.complete, due |-> e.due]
  BY DEF ErrandsDue
<1>2. f \in ErrandsDue(D)
  BY DEF ErrandsDue
<1>3. [e EXCEPT !.step = "added", !.complete = x, !.due = y] = [g EXCEPT !.due = y]
  OBVIOUS
<1> HIDE DEF f
<1>4. g = [op |-> f.op, step |-> f.step, order |-> f.order, lines |-> f.lines,
           qty |-> f.qty, seen |-> f.seen, fresh |-> f.fresh, alone |-> f.alone,
           complete |-> x, due |-> f.due]
  BY <1>2 DEF ErrandsDue
<1>5. g \in ErrandsDue(D)
  BY <1>2 DEF ErrandsDue
<1> HIDE DEF g
<1>6. [g EXCEPT !.due = y]
        = [op |-> g.op, step |-> g.step, order |-> g.order, lines |-> g.lines,
           qty |-> g.qty, seen |-> g.seen, fresh |-> g.fresh, alone |-> g.alone,
           complete |-> g.complete, due |-> y]
  BY <1>5 DEF ErrandsDue
<1>7. QED
  BY <1>1, <1>3, <1>4, <1>6

(* The receipt draws its number when no other one has: what it computes is  *)
(* what the lines are.                                                      *)
LEMMA AddKeeps ==
  ASSUME OrderInv, NEW b \in Buyers, AddReceived(b)
  PROVE  OrderInv'
<1> DEFINE o == buyer[b].order
           x == AllReceived(o, ReadAgain(b))
           y == Total(ReadAgain(b))
<1>1. /\ buyer[b] # Free /\ buyer[b].op = "receive" /\ buyer[b].step = "read"
      /\ \A a \in Buyers : ~HasNumber(a)
      /\ UNCHANGED <<po, quantity, received, crossed>>
  BY DEF AddReceived, On
<1>2. Types /\ Honest(b)
  BY DEF OrderInv
<1>3. PICK D : buyer \in [Buyers -> {Free} \cup ErrandsDue(D)]
  BY <1>2 DEF Types, Desks
<1> DEFINE E == D \cup {y}
<1>4. buyer \in [Buyers -> {Free} \cup ErrandsDue(E)] /\ buyer[b] \in ErrandsDue(E)
  BY <1>1, <1>3 DEF ErrandsDue
<1>5. x \in BOOLEAN /\ y \in E /\ (x => AllReceived(o, ReceivedAfter(b)))
  BY DEF AllReceived, ReadAgain
<1>6. buyer' = [buyer EXCEPT ![b] = [buyer[b] EXCEPT !.step = "added", !.complete = x, !.due = y]]
  BY DEF AddReceived
<1> HIDE DEF o, x, y, E
<1> DEFINE e == [op |-> buyer[b].op, step |-> "added", order |-> buyer[b].order,
                 lines |-> buyer[b].lines, qty |-> buyer[b].qty, seen |-> buyer[b].seen,
                 fresh |-> buyer[b].fresh, alone |-> buyer[b].alone, complete |-> x, due |-> y]
<1>7. [buyer[b] EXCEPT !.step = "added", !.complete = x, !.due = y] = e
  <2>1. buyer[b] \in ErrandsDue(D) /\ x \in BOOLEAN
    BY <1>1, <1>3, <1>5
  <2>2. QED
    BY <2>1, Computed
<1>8. buyer' = [buyer EXCEPT ![b] = e]
  BY <1>6, <1>7
<1>9. e \in ErrandsDue(E)
  BY <1>4, <1>5 DEF ErrandsDue
<1>10. /\ e.op = buyer[b].op /\ e.order = buyer[b].order /\ e.lines = buyer[b].lines
       /\ e.qty = buyer[b].qty /\ e.seen = buyer[b].seen /\ (e.complete => x)
       /\ (e.fresh => buyer[b].fresh) /\ (e.alone => buyer[b].alone)
  OBVIOUS
<1> HIDE DEF e
<1>11. buyer' \in [Buyers -> {Free} \cup ErrandsDue(E)]
  BY <1>4, <1>8, <1>9
<1>12. Types'
  BY <1>1, <1>2, <1>11 DEF Types, Desks
<1>13. buyer'[b] = e /\ \A a \in Buyers \ {b} : buyer'[a] = buyer[a]
  BY <1>4, <1>8
<1>14. Honest(b)'
  <2>1. SeenFits(b) /\ SeenHolds(b) /\ ChecksHold(b)
    BY <1>1, <1>2 DEF Honest
  <2>2. SeenFits(b)'
    BY <1>10, <1>13, <2>1 DEF SeenFits
  <2>3. SeenHolds(b)'
    BY <1>1, <1>10, <1>13, <2>1 DEF SeenHolds
  <2>4. ChecksHold(b)'
    BY <1>1, <1>10, <1>13, <2>1 DEF ChecksHold
  <2>5. CompleteHolds(b)'
    <3>1. buyer'[b].complete => AllReceived(o, ReceivedAfter(b))
      BY <1>5, <1>10, <1>13
    <3>2. ReceivedAfter(b)' = ReceivedAfter(b)
      BY <1>1, <1>10, <1>13 DEF ReceivedAfter
    <3>3. QED
      BY <1>1, <1>10, <1>13, <3>1, <3>2 DEF CompleteHolds, AllReceived, o
  <2>6. QED
    BY <2>2, <2>3, <2>4, <2>5 DEF Honest
<1>15. \A a \in Buyers : Honest(a)'
  BY <1>1, <1>13, <1>14, Untouched DEF OrderInv
<1>16. OneNumber'
  BY <1>1, <1>13 DEF OneNumber, HasNumber, On
<1>17. QED
  BY <1>1, <1>12, <1>15, <1>16, OrdersUntouched DEF OrderInv

(* Whoever writes an order after another leaves a mark on it, and marks     *)
(* stay.                                                                    *)
LEMMA CrossingFacts ==
  ASSUME Types, NEW b \in Buyers, buyer[b] # Free, Crossing(b)
  PROVE  /\ crossed' \in [Orders -> SUBSET {"receive", "edit"}]
         /\ \A p \in Orders : crossed[p] \subseteq crossed'[p]
         /\ crossed'[buyer[b].order] = {} => buyer[b].alone
         /\ buyer[b].op # "receive" /\ "edit" \notin crossed'[buyer[b].order] => buyer[b].alone
<1> DEFINE o == buyer[b].order
           mark == IF On(b, "receive") THEN {"receive"} ELSE {"edit"}
<1>1. o \in Orders
  BY ErrandType
<1>2. /\ buyer[b].alone => crossed' = [crossed EXCEPT ![o] = @ \cup {}]
      /\ ~buyer[b].alone => crossed' = [crossed EXCEPT ![o] = @ \cup mark]
  BY DEF Crossing
<1>3. mark # {} /\ mark \subseteq {"receive", "edit"}
  OBVIOUS
<1>4. buyer[b].op # "receive" => "edit" \in mark
  BY DEF On
<1> HIDE DEF mark, o
<1>5. CASE buyer[b].alone
  BY <1>1, <1>2, <1>5 DEF Types, o
<1>6. CASE ~buyer[b].alone
  <2>1. crossed' = [crossed EXCEPT ![o] = crossed[o] \cup mark]
    BY <1>2, <1>6
  <2>2. crossed'[o] = crossed[o] \cup mark
    BY <1>1, <2>1 DEF Types
  <2>3. /\ crossed' \in [Orders -> SUBSET {"receive", "edit"}]
        /\ \A p \in Orders : crossed[p] \subseteq crossed'[p]
    BY <1>1, <1>3, <2>1 DEF Types
  <2>4. crossed'[o] # {} /\ (buyer[b].op # "receive" => "edit" \in crossed'[o])
    BY <1>3, <1>4, <2>2
  <2>5. QED
    BY <2>3, <2>4 DEF o
<1>7. QED
  BY <1>5, <1>6

(* The other requests after b's has written order o                         *)
LEMMA OthersKeep ==
  ASSUME OrderInv, NEW b \in Buyers, buyer[b] # Free, NEW stamped \in BOOLEAN,
         Leave(b, buyer[b].order, stamped),
         \A p \in Orders \ {buyer[b].order} : /\ po'[p] = po[p] /\ quantity'[p] = quantity[p]
                                              /\ received'[p] = received[p],
         stamped \/ (po'[buyer[b].order] = po[buyer[b].order] /\ HasNumber(b))
  PROVE  /\ \E D : buyer' \in [Buyers -> {Free} \cup ErrandsDue(D)]
         /\ \A a \in Buyers : Honest(a)'
         /\ OneNumber'
<1> DEFINE o == buyer[b].order
<1>1. Types /\ OneNumber /\ \A a \in Buyers : Honest(a)
  BY DEF OrderInv
<1>2. o \in Orders
  BY <1>1, ErrandType
<1>3. /\ \E D : buyer' \in [Buyers -> {Free} \cup ErrandsDue(D)]
      /\ buyer'[b] = Free
      /\ \A a \in Buyers \ {b} : buyer[a] = Free => buyer'[a] = Free
      /\ \A a \in Buyers \ {b} : buyer[a] # Free
              => Overtakes(buyer[a], buyer'[a], o, stamped)
  BY <1>1, LeaveFacts
<1>4. ASSUME NEW a \in Buyers  PROVE Honest(a)'
  <2>1. CASE a = b
    BY <1>3, <2>1 DEF Honest
  <2>2. CASE a # b /\ buyer[a] = Free
    BY <1>3, <2>2 DEF Honest
  <2>3. CASE a # b /\ buyer[a] # Free
    <3>1. stamped \/ (po'[o] = po[o] /\ ~HasNumber(a))
      BY <1>1, <2>3 DEF OneNumber
    <3>2. Overtakes(buyer[a], buyer'[a], o, stamped)
      BY <1>3, <2>3
    <3>3. QED
      BY <1>1, <1>2, <2>3, <3>1, <3>2, StillHonest
  <2>4. QED
    BY <2>1, <2>2, <2>3
<1>5. OneNumber'
  <2>1. ASSUME NEW a \in Buyers, HasNumber(a)'  PROVE HasNumber(a)
    <3>1. a # b
      BY <1>3, <2>1 DEF HasNumber, On
    <3>2. QED
      BY <1>3, <2>1, <3>1, NumbersKept
  <2>2. QED
    BY <1>1, <2>1 DEF OneNumber
<1>6. QED
  BY <1>3, <1>4, <1>5

LEMMA PostFacts ==
  ASSUME OrderInv, NEW b \in Buyers, PostReceipt(b)
  PROVE  /\ buyer[b] # Free /\ buyer[b].op = "receive" /\ HasNumber(b)
         /\ buyer[b].order \in Orders
         /\ received' \in [Orders -> [Lines -> Nat]]
         /\ received'[buyer[b].order] = ReceivedAfter(b)
         /\ \A l \in Lines : received'[buyer[b].order][l]
                               = received[buyer[b].order][l] + buyer[b].qty[l]
         /\ \A p \in Orders \ {buyer[b].order} : received'[p] = received[p] /\ po'[p] = po[p]
         /\ \A p \in Orders, l \in Lines : received'[p][l] >= received[p][l]
         /\ quantity' = quantity
<1> DEFINE o == buyer[b].order
<1>1. /\ buyer[b] # Free /\ buyer[b].op = "receive" /\ HasNumber(b)
      /\ received' = [received EXCEPT ![o] = ReceivedAfter(b)] /\ quantity' = quantity
      /\ po' = po \/ po' = [po EXCEPT ![o] = Target(b)]
  BY DEF PostReceipt, HasNumber, On
<1>2. Types
  BY DEF OrderInv
<1>3. /\ o \in Orders
      /\ \A l \in Lines : buyer[b].qty[l] \in Nat /\ received[o][l] \in Nat
  BY <1>1, <1>2, ErrandType
<1>4. \A l \in Lines : ReceivedAfter(b)[l] = received[o][l] + buyer[b].qty[l]
  BY DEF ReceivedAfter
<1>5. ReceivedAfter(b) \in [Lines -> Nat]
  BY <1>3 DEF ReceivedAfter
<1>6. /\ received' \in [Orders -> [Lines -> Nat]]
      /\ received'[o] = ReceivedAfter(b)
      /\ \A p \in Orders \ {o} : received'[p] = received[p]
  BY <1>1, <1>2, <1>3, <1>5 DEF Types
<1>7. \A p \in Orders \ {o} : po'[p] = po[p]
  BY <1>1, <1>2, <1>3 DEF Types
<1>8. ASSUME NEW p \in Orders, NEW l \in Lines  PROVE received'[p][l] >= received[p][l]
  <2>1. received[p][l] \in Nat
    BY <1>2 DEF Types
  <2>2. QED
    BY <1>3, <1>4, <1>6, <2>1
<1>9. QED
  BY <1>1, <1>3, <1>4, <1>6, <1>7, <1>8

(* The status a receipt writes: it has read another one, which the order    *)
(* still has.                                                               *)
LEMMA PostStatus ==
  ASSUME OrderInv, NEW b \in Buyers, PostReceipt(b)
  PROVE  /\ po' \in [Orders -> PoStatus]
         /\ \/ po' = po /\ ~StatusMoves(b)
            \/ /\ StatusMoves(b) /\ buyer[b].fresh
               /\ po[buyer[b].order] # "Received"
               /\ po'[buyer[b].order] = Target(b)
               /\ Target(b) \in {"PartiallyReceived", "Received"}
<1> DEFINE o == buyer[b].order
<1>1. buyer[b] # Free /\ buyer[b].op = "receive" /\ o \in Orders
  BY PostFacts
<1>2. po \in [Orders -> PoStatus] /\ SeenFits(b) /\ SeenHolds(b)
  BY <1>1 DEF OrderInv, Types, Honest
<1>3. Target(b) \in {"PartiallyReceived", "Received"}
  BY DEF Target
<1>4. CASE ~StatusMoves(b)
  BY <1>2, <1>4 DEF PostReceipt
<1>5. CASE StatusMoves(b)
  <2>1. buyer[b].fresh /\ po' = [po EXCEPT ![o] = Target(b)]
    BY <1>5 DEF PostReceipt, Unchanged
  <2>2. po[o] # "Received"
    BY <1>1, <1>2, <1>5, <2>1 DEF SeenHolds, StatusMoves
  <2>3. po' \in [Orders -> PoStatus] /\ po'[o] = Target(b)
    BY <1>1, <1>2, <1>3, <2>1 DEF PoStatus
  <2>4. QED
    BY <1>3, <1>5, <2>1, <2>2, <2>3
<1>6. QED
  BY <1>4, <1>5

LEMMA PostKeeps ==
  ASSUME OrderInv, NEW b \in Buyers, PostReceipt(b)
  PROVE  OrderInv'
<1> DEFINE o == buyer[b].order
<1>1. Types /\ Honest(b) /\ ReceivedWithinOrder /\ ReceivedIsComplete
  BY DEF OrderInv
<1>2. /\ buyer[b] # Free /\ buyer[b].op = "receive" /\ HasNumber(b) /\ o \in Orders
      /\ received' \in [Orders -> [Lines -> Nat]]
      /\ received'[o] = ReceivedAfter(b)
      /\ \A l \in Lines : received'[o][l] = received[o][l] + buyer[b].qty[l]
      /\ \A p \in Orders \ {o} : received'[p] = received[p] /\ po'[p] = po[p]
      /\ \A p \in Orders, l \in Lines : received'[p][l] >= received[p][l]
      /\ quantity' = quantity
  BY PostFacts
<1>3. /\ po' \in [Orders -> PoStatus]
      /\ \/ po' = po /\ ~StatusMoves(b)
         \/ /\ StatusMoves(b) /\ buyer[b].fresh /\ po'[o] = Target(b)
            /\ Target(b) \in {"PartiallyReceived", "Received"}
  BY PostStatus
<1>4. /\ crossed' \in [Orders -> SUBSET {"receive", "edit"}]
      /\ \A p \in Orders : crossed[p] \subseteq crossed'[p]
      /\ crossed'[o] = {} => buyer[b].alone
  BY <1>1, <1>2, CrossingFacts DEF PostReceipt
<1>5. /\ \E D : buyer' \in [Buyers -> {Free} \cup ErrandsDue(D)]
      /\ \A a \in Buyers : Honest(a)'
      /\ OneNumber'
  <2>1. \A p \in Orders \ {o} : /\ po'[p] = po[p] /\ quantity'[p] = quantity[p]
                                /\ received'[p] = received[p]
    BY <1>2
  <2>2. CASE StatusMoves(b)
    <3>1. Leave(b, o, TRUE)
      BY <2>2 DEF PostReceipt, Leave, Seen
    <3>2. QED
      BY <1>2, <2>1, <3>1, OthersKeep
  <2>3. CASE ~StatusMoves(b)
    <3>1. Leave(b, o, FALSE) /\ po'[o] = po[o]
      BY <1>3, <2>3 DEF PostReceipt, Leave, Seen
    <3>2. QED
      BY <1>2, <2>1, <3>1, OthersKeep
  <2>4. QED
    BY <2>2, <2>3
<1>6. Types'
  BY <1>1, <1>2, <1>3, <1>4, <1>5 DEF Types, Desks
<1>7. ReceivedWithinOrder'
  <2> SUFFICES ASSUME NEW p \in Orders, NEW l \in Lines, crossed'[p] = {}
               PROVE  received'[p][l] <= quantity'[p][l] + Allowance
    BY DEF ReceivedWithinOrder
  <2>1. received[p][l] <= quantity[p][l] + Allowance
    BY <1>1, <1>4 DEF ReceivedWithinOrder
  <2>2. CASE p # o
    BY <1>2, <2>1, <2>2
  <2>3. CASE p = o
    <3>1. buyer[b].alone
      BY <1>4, <2>3
    <3>2. buyer[b].qty[l] = 0 \/ received[o][l] + buyer[b].qty[l] <= quantity[o][l] + Allowance
      BY <1>1, <1>2, <3>1 DEF Honest, ChecksHold
    <3>3. received[o][l] \in Nat
      BY <1>1, <1>2, ErrandType
    <3>4. QED
      BY <1>2, <2>1, <2>3, <3>2, <3>3
  <2>4. QED
    BY <2>2, <2>3
<1>8. ReceivedIsComplete'
  <2> SUFFICES ASSUME NEW p \in Orders, po'[p] = "Received", "edit" \notin crossed'[p],
                      NEW l \in Lines
               PROVE  received'[p][l] >= quantity'[p][l]
    BY DEF ReceivedIsComplete
  <2>1. received[p][l] \in Nat /\ received'[p][l] \in Nat /\ quantity[p][l] \in Nat
    <3>1. quantity[p] \in [Lines -> 0..MaxQuantity] /\ MaxQuantity \in Nat
      BY <1>1, PurchasingAssumption DEF Types, Counts
    <3>2. QED
      BY <1>1, <1>2, <3>1 DEF Types
  <2>2. CASE po[p] = "Received"
    <3>1. received[p][l] >= quantity[p][l]
      BY <1>1, <1>4, <2>2 DEF ReceivedIsComplete
    <3>2. QED
      BY <1>2, <2>1, <3>1
  <2>3. CASE po[p] # "Received"
    <3>1. p = o /\ Target(b) = "Received" /\ buyer[b].fresh
      BY <1>2, <1>3, <2>3
    <3>2. buyer[b].complete
      BY <3>1 DEF Target
    <3>3. AllReceived(o, ReceivedAfter(b))
      BY <1>1, <1>2, <3>1, <3>2 DEF Honest, CompleteHolds
    <3>4. QED
      BY <1>2, <3>1, <3>3 DEF AllReceived
  <2>4. QED
    BY <2>2, <2>3
<1>9. QED
  BY <1>5, <1>6, <1>7, <1>8 DEF OrderInv

(* What an edit leaves of a line: if nobody has written the order since it  *)
(* was checked, no less than what was received.                             *)
LEMMA EditFacts ==
  ASSUME OrderInv, NEW b \in Buyers, FinishEdit(b)
  PROVE  /\ buyer[b] # Free /\ buyer[b].op # "receive" /\ buyer[b].order \in Orders
         /\ quantity' \in [Orders -> Counts] /\ received' \in [Orders -> [Lines -> Nat]]
         /\ \A p \in Orders \ {buyer[b].order} : /\ received'[p] = received[p]
                                                 /\ quantity'[p] = quantity[p]
         /\ \A l \in Lines :
              buyer[b].alone /\ received[buyer[b].order][l] <= quantity[buyer[b].order][l] + Allowance
                => received'[buyer[b].order][l] <= quantity'[buyer[b].order][l] + Allowance
<1> DEFINE o == buyer[b].order
           q == [l \in Lines |-> NewQuantity(b, l)]
           r == [l \in Lines |-> IF On(b, "redraft") \/ NewQuantity(b, l) = 0
                                 THEN 0 ELSE received[o][l]]
<1>1. /\ buyer[b] # Free /\ buyer[b].op # "receive"
      /\ quantity' = [quantity EXCEPT ![o] = q] /\ received' = [received EXCEPT ![o] = r]
  BY DEF FinishEdit
<1>2. Types /\ Honest(b)
  BY DEF OrderInv
<1>3. /\ buyer[b].op \in {"receive", "edit", "add", "redraft"}
      /\ o \in Orders /\ buyer[b].lines \subseteq Lines /\ buyer[b].qty \in Counts
      /\ \A l \in Lines : /\ buyer[b].qty[l] \in Nat /\ received[o][l] \in Nat
                          /\ quantity[o][l] \in Nat
  BY <1>1, <1>2, ErrandType
<1>4. quantity[o] \in Counts
  BY <1>2, <1>3 DEF Types
<1>5. ASSUME NEW l \in Lines  PROVE NewQuantity(b, l) \in {quantity[o][l], buyer[b].qty[l]}
  BY DEF NewQuantity
<1>6. q \in Counts
  BY <1>3, <1>4, <1>5 DEF Counts
<1>7. r \in [Lines -> Nat]
  BY <1>3
<1>8. ASSUME NEW l \in Lines, buyer[b].alone, received[o][l] <= quantity[o][l] + Allowance
      PROVE  r[l] <= q[l] + Allowance
  <2>1. q[l] = NewQuantity(b, l) /\ q[l] \in Nat /\ Allowance \in Nat
    BY <1>3, <1>5, PurchasingAssumption
  <2>2. CASE On(b, "redraft") \/ NewQuantity(b, l) = 0
    <3>1. r[l] = 0
      BY <2>2
    <3>2. QED
      BY <2>1, <3>1
  <2>3. CASE ~(On(b, "redraft") \/ NewQuantity(b, l) = 0)
    <3>1. r[l] = received[o][l]
      BY <2>3
    <3>2. buyer[b].op \in {"edit", "add"}
      BY <1>1, <1>3, <2>3 DEF On
    <3>3. CASE l \in buyer[b].lines
      <4>1. received[o][l] <= buyer[b].qty[l]
        BY <1>1, <1>2, <1>8, <3>2, <3>3 DEF Honest, ChecksHold
      <4>2. q[l] = buyer[b].qty[l]
        BY <2>1, <2>3, <3>3 DEF NewQuantity
      <4>3. QED
        BY <1>3, <2>1, <3>1, <4>1, <4>2
    <3>4. CASE l \notin buyer[b].lines
      <4>1. q[l] = quantity[o][l]
        BY <2>1, <3>4 DEF NewQuantity
      <4>2. QED
        BY <1>8, <3>1, <4>1
    <3>5. QED
      BY <3>3, <3>4
  <2>4. QED
    BY <2>2, <2>3
<1> HIDE DEF q, r
<1>9. quantity'[o] = q /\ received'[o] = r
  BY <1>1, <1>2, <1>3 DEF Types
<1>10. quantity' \in [Orders -> Counts] /\ received' \in [Orders -> [Lines -> Nat]]
  BY <1>1, <1>2, <1>6, <1>7 DEF Types
<1>11. \A p \in Orders \ {o} : received'[p] = received[p] /\ quantity'[p] = quantity[p]
  BY <1>1, <1>2, <1>3 DEF Types
<1>12. \A l \in Lines : buyer[b].alone /\ received[o][l] <= quantity[o][l] + Allowance
         => received'[o][l] <= quantity'[o][l] + Allowance
  BY <1>8, <1>9
<1>13. QED
  BY <1>1, <1>3, <1>10, <1>11, <1>12

LEMMA EditKeeps ==
  ASSUME OrderInv, NEW b \in Buyers, FinishEdit(b)
  PROVE  OrderInv'
<1> DEFINE o == buyer[b].order
<1>1. Types /\ Honest(b) /\ ReceivedWithinOrder /\ ReceivedIsComplete
  BY DEF OrderInv
<1>2. /\ buyer[b] # Free /\ buyer[b].op # "receive" /\ o \in Orders
      /\ quantity' \in [Orders -> Counts] /\ received' \in [Orders -> [Lines -> Nat]]
      /\ \A p \in Orders \ {o} : received'[p] = received[p] /\ quantity'[p] = quantity[p]
      /\ \A l \in Lines :
           buyer[b].alone /\ received[o][l] <= quantity[o][l] + Allowance
             => received'[o][l] <= quantity'[o][l] + Allowance
  BY EditFacts
<1>3. po' = po /\ Leave(b, o, TRUE) /\ Crossing(b)
  BY DEF FinishEdit
<1>4. /\ crossed' \in [Orders -> SUBSET {"receive", "edit"}]
      /\ \A p \in Orders : crossed[p] \subseteq crossed'[p]
      /\ crossed'[o] = {} => buyer[b].alone
      /\ "edit" \notin crossed'[o] => buyer[b].alone
  BY <1>1, <1>2, <1>3, CrossingFacts
<1>5. /\ \E D : buyer' \in [Buyers -> {Free} \cup ErrandsDue(D)]
      /\ \A a \in Buyers : Honest(a)'
      /\ OneNumber'
  <2>1. \A p \in Orders \ {o} : /\ po'[p] = po[p] /\ quantity'[p] = quantity[p]
                                /\ received'[p] = received[p]
    BY <1>2, <1>3
  <2>2. QED
    BY <1>2, <1>3, <2>1, OthersKeep
<1>6. Types'
  BY <1>1, <1>2, <1>3, <1>4, <1>5 DEF Types, Desks
<1>7. ReceivedWithinOrder'
  BY <1>1, <1>2, <1>4 DEF ReceivedWithinOrder
<1>8. ReceivedIsComplete'
  <2> SUFFICES ASSUME NEW p \in Orders, po[p] = "Received", "edit" \notin crossed'[p],
                      NEW l \in Lines
               PROVE  received'[p][l] >= quantity'[p][l]
    BY <1>3 DEF ReceivedIsComplete
  <2>1. p # o
    <3>1. SeenFits(b) /\ SeenHolds(b)
      BY <1>1, <1>2 DEF Honest
    <3>2. buyer[b].alone => po[o] \in Open \cup {"Draft"}
      <4>1. buyer[b].op \in {"edit", "add", "redraft"}
        BY <1>1, <1>2, ErrandType
      <4>2. QED
        BY <3>1, <4>1 DEF SeenFits, SeenHolds
    <3>3. QED
      BY <1>4, <3>2 DEF Open
  <2>2. received[p][l] >= quantity[p][l]
    BY <1>1, <1>4 DEF ReceivedIsComplete
  <2>3. QED
    BY <1>2, <2>1, <2>2
<1>9. QED
  BY <1>5, <1>6, <1>7, <1>8 DEF OrderInv

(***************************************************************************)
(* Theorems                                                                *)
(***************************************************************************)

(* What the requests on an order may still rely on, what they will write,   *)
(* and that one receipt at a time has a number, hold whatever overlaps.     *)
THEOREM RequestsHold == Spec => []OrderInv
<1>1. Init => OrderInv
  <2> SUFFICES ASSUME Init  PROVE OrderInv
    OBVIOUS
  <2>1. Types
    <3>1. Ordered \in Counts
      BY PurchasingAssumption DEF Counts
    <3>2. Desks({})
      BY DEF Init, Desks
    <3>3. QED
      BY <3>1, <3>2 DEF Init, Types, PoStatus
  <2>2. \A b \in Buyers : Honest(b) /\ ~HasNumber(b)
    BY DEF Init, Honest, HasNumber, On
  <2>3. ReceivedWithinOrder
    <3>1. \A l \in Lines : Ordered[l] \in Nat /\ Allowance \in Nat
      BY PurchasingAssumption
    <3>2. QED
      BY <3>1 DEF Init, ReceivedWithinOrder
  <2>4. ReceivedIsComplete
    BY DEF Init, ReceivedIsComplete
  <2>5. QED
    BY <2>1, <2>2, <2>3, <2>4 DEF OrderInv, OneNumber
<1>2. OrderInv /\ [Next]_vars => OrderInv'
  <2> SUFFICES ASSUME OrderInv, [Next]_vars  PROVE OrderInv'
    OBVIOUS
  <2>1. CASE UNCHANGED orders
    <3>1. UNCHANGED <<po, quantity, received, buyer, crossed>>
      BY <2>1 DEF orders
    <3>2. Types'
      BY <3>1 DEF OrderInv, Types, Desks
    <3>3. \A b \in Buyers : Honest(b)'
      BY <3>1, Untouched DEF OrderInv
    <3>4. OneNumber'
      BY <3>1 DEF OrderInv, OneNumber, HasNumber, On
    <3>5. QED
      BY <3>1, <3>2, <3>3, <3>4, OrdersUntouched DEF OrderInv
  <2>2. ASSUME NEW o \in Orders, HeaderSteps(o)  PROVE OrderInv'
    BY <2>2, HeaderKeeps
  <2>3. ASSUME NEW b \in Buyers, BuyerSteps(b)  PROVE OrderInv'
    <3>1. ASSUME NEW o \in Orders, NEW q \in Counts, StartReceive(b, o, q) \/ StartRedraft(b, o, q)
          PROVE  OrderInv'
      BY <3>1, StartKeeps
    <3>2. ASSUME NEW o \in Orders, NEW l \in Lines, NEW n \in 0..MaxQuantity, StartEdit(b, o, l, n)
          PROVE  OrderInv'
      BY <3>2, StartKeeps
    <3>3. QED
      BY <2>3, <3>1, <3>2, AddKeeps, PostKeeps, EditKeeps, GiveUpKeeps DEF BuyerSteps
  <2>4. QED
    BY <2>1, <2>2, <2>3 DEF Next, vars
<1>3. QED
  BY <1>1, <1>2, PTL DEF Spec

(* A line receives at most its quantity and the tolerance, however receipts *)
(* and edits interleave, unless one of them was checked on older lines.     *)
THEOREM NoOverReceipt == Spec => []ReceivedWithinOrder
<1>1. OrderInv => ReceivedWithinOrder
  BY DEF OrderInv
<1>2. QED
  BY <1>1, RequestsHold, PTL

(* An order that is Received has all its lines: the lock on the counter of  *)
(* receipts and updated_at keep the computed status true until it is        *)
(* written.                                                                 *)
THEOREM Complete == Spec => []ReceivedIsComplete
<1>1. OrderInv => ReceivedIsComplete
  BY DEF OrderInv
<1>2. QED
  BY <1>1, RequestsHold, PTL

(* No request writes an older status over a newer one, for any number of    *)
(* orders and of receipts, edits and header requests that overlap; a    *)
(* confirmed one is never a draft or cancelled again, and a cancelled one   *)
(* leaves that status only with goods that come in.                         *)
THEOREM StatusForward == Spec => StatusMovesForward
<1> DEFINE NoWayBack == Open \cup {"Received", "Cancelled"}
           Brings(o) == \E l \in Lines : received'[o][l] > received[o][l]
           Forward(o) ==
             /\ po[o] \in NoWayBack => po'[o] \in {po[o], "PartiallyReceived", "Received"}
             /\ po[o] = "Received" => po'[o] = po[o]
             /\ po[o] = "Cancelled" /\ po'[o] # po[o] => Brings(o)
<1>1. OrderInv /\ [Next]_vars => [\A o \in Orders : Forward(o)]_<<po, received>>
  <2> SUFFICES ASSUME OrderInv, [Next]_vars, NEW o \in Orders  PROVE Forward(o)
    OBVIOUS
  <2>0. po \in [Orders -> PoStatus]
    BY DEF OrderInv, Types
  <2>1. ASSUME NEW p \in Orders, HeaderSteps(p)  PROVE Forward(o)
    <3>1. \E from, to : from \cap NoWayBack = {} /\ SetStatus(p, from, to)
      BY <2>1 DEF HeaderSteps, Submit, ConfirmOrder, Reject, Cancel, Open
    <3>2. PICK from, to : from \cap NoWayBack = {} /\ SetStatus(p, from, to)
      BY <3>1
    <3>3. o # p => po'[o] = po[o]
      BY <2>0, <3>2 DEF SetStatus
    <3>4. o = p => po[o] \in from
      BY <3>2 DEF SetStatus
    <3>5. QED
      BY <3>2, <3>3, <3>4
  <2>2. ASSUME NEW b \in Buyers, PostReceipt(b)  PROVE Forward(o)
    <3>1. /\ buyer[b] # Free /\ buyer[b].op = "receive" /\ buyer[b].order \in Orders
          /\ o # buyer[b].order => po'[o] = po[o]
          /\ \A l \in Lines :
               received'[buyer[b].order][l] = received[buyer[b].order][l] + buyer[b].qty[l]
      BY <2>2, PostFacts
    <3>2. o = buyer[b].order =>
            po'[o] = po[o] \/ (po[o] # "Received" /\ po'[o] \in {"PartiallyReceived", "Received"})
      BY <2>2, PostStatus
    <3>3. o = buyer[b].order => Brings(o)
      <4>1. PICK l \in Lines : buyer[b].qty[l] > 0
        BY <3>1 DEF OrderInv, Honest, SeenFits
      <4>2. buyer[b].qty[l] \in Nat /\ received[buyer[b].order][l] \in Nat
        BY <3>1, ErrandType DEF OrderInv
      <4>3. received'[buyer[b].order][l] > received[buyer[b].order][l]
        BY <3>1, <4>1, <4>2
      <4>4. QED
        BY <4>3
    <3>4. QED
      BY <3>1, <3>2, <3>3
  <2>3. \A b \in Buyers : BuyerSteps(b) => po' = po \/ PostReceipt(b)
    BY DEF BuyerSteps, StartReceive, AddReceived, StartEdit, StartRedraft, FinishEdit, GiveUp
  <2>4. QED
    BY <2>1, <2>2, <2>3 DEF Next, vars, orders
<1>2. QED
  BY <1>1, RequestsHold, PTL DEF Spec, StatusMovesForward

(***************************************************************************)
(* The payable is what was received                                        *)
(***************************************************************************)

(* An order that was open is never again one of those where nothing was     *)
(* received yet.                                                            *)
PastDraft(o) == po[o] \in Open \cup {"Received"}

(* What a request has computed, and what it needs of its order: it is past  *)
(* being a draft if the request has found it so, and a receipt keeps the    *)
(* lines it delivers from being removed.                                    *)
DueFits(b) ==
  LET o == buyer[b].order
  IN buyer[b] # Free =>
       /\ buyer[b].due \in Nat
       /\ buyer[b].seen \in Open \cup {"Received"} => PastDraft(o)
       /\ buyer[b].op = "receive" => \A l \in Lines \ buyer[b].lines : buyer[b].qty[l] = 0
       /\ HasNumber(b) => \A l \in buyer[b].lines : quantity[o][l] > 0
       /\ HasNumber(b) /\ "edit" \notin crossed[o] => buyer[b].due = Total(ReceivedAfter(b))

(* An order that was not open has received nothing, and neither has a line  *)
(* that is not there; what was received is the payable.                     *)
Accounted(o) ==
  /\ ~PastDraft(o) => \A l \in Lines : received[o][l] = 0
  /\ \A l \in Lines : quantity[o][l] = 0 => received[o][l] = 0
  /\ "edit" \notin crossed[o] => ledger[o].amount = Total(received[o])

PayInv ==
  /\ LedgerTypeOK
  /\ \A b \in Buyers : DueFits(b)
  /\ \A o \in Orders : Accounted(o)

LEMMA TotalType ==
  ASSUME NEW count \in [Lines -> Nat]
  PROVE  Total(count) \in Nat
<1>1. IsFiniteSet(Lines) /\ \A l \in Lines : count[l] \in Nat
  BY PurchasingAssumption
<1>2. QED
  BY <1>1, SumNat DEF Total

LEMMA ReceivedType ==
  ASSUME Types, NEW b \in Buyers, buyer[b] # Free
  PROVE  ReceivedAfter(b) \in [Lines -> Nat]
BY ErrandType DEF ReceivedAfter

(* The request is the same but for what it may rely on. *)
Alike(e, f) ==
  /\ f.op = e.op /\ f.step = e.step /\ f.order = e.order /\ f.lines = e.lines
  /\ f.qty = e.qty /\ f.seen = e.seen /\ f.due = e.due

(* What a request has computed stays right if its order stays as it is, as  *)
(* far as the request depends on it.                                        *)
LEMMA StillFits ==
  ASSUME NEW a \in Buyers, buyer[a] # Free, DueFits(a), Alike(buyer[a], buyer'[a]),
         PastDraft(buyer[a].order) => PastDraft(buyer[a].order)',
         crossed[buyer[a].order] \subseteq crossed'[buyer[a].order],
         HasNumber(a) => \A l \in buyer[a].lines :
                           quantity'[buyer[a].order][l] = quantity[buyer[a].order][l],
         HasNumber(a) /\ "edit" \notin crossed'[buyer[a].order]
           => received'[buyer[a].order] = received[buyer[a].order]
  PROVE  DueFits(a)'
<1> DEFINE o == buyer[a].order
<1>1. /\ buyer'[a].op = buyer[a].op /\ buyer'[a].step = buyer[a].step
      /\ buyer'[a].order = o /\ buyer'[a].lines = buyer[a].lines
      /\ buyer'[a].qty = buyer[a].qty /\ buyer'[a].due = buyer[a].due
      /\ buyer'[a].seen = buyer[a].seen
  BY DEF Alike
<1>2. HasNumber(a)' => HasNumber(a)
  BY <1>1 DEF HasNumber, On
<1>3. ASSUME HasNumber(a), "edit" \notin crossed'[o]
      PROVE  buyer[a].due = Total(ReceivedAfter(a))'
  <2>1. buyer[a].due = Total(ReceivedAfter(a))
    BY <1>3 DEF DueFits
  <2>2. ReceivedAfter(a)' = ReceivedAfter(a)
    BY <1>1, <1>3 DEF ReceivedAfter
  <2>3. QED
    BY <2>1, <2>2 DEF Total
<1>4. QED
  BY <1>1, <1>2, <1>3 DEF DueFits

LEMMA AccountKept ==
  ASSUME PayInv, NEW o \in Orders, po'[o] = po[o], quantity'[o] = quantity[o],
         received'[o] = received[o], crossed[o] \subseteq crossed'[o],
         ledger'[o].amount = ledger[o].amount
  PROVE  Accounted(o)'
<1>1. Accounted(o)
  BY DEF PayInv
<1>2. Total(received[o])' = Total(received[o])
  BY DEF Total
<1>3. QED
  BY <1>1, <1>2 DEF Accounted, PastDraft

(* The steps of Ledger leave the payables of orders alone. *)
LEMMA LedgerPays ==
  ASSUME PayInv, LedgerNext, UNCHANGED orders
  PROVE  PayInv'
<1>1. LedgerTypeOK'
  BY TypeStep DEF PayInv
<1>2. \A o \in Orders : ledger'[o].amount = ledger[o].amount
  BY OrderRow DEF PayInv
<1>3. \A o \in Orders : Accounted(o)'
  BY <1>2, AccountKept DEF orders
<1>4. ASSUME NEW b \in Buyers, buyer[b] # Free  PROVE DueFits(b)'
  <2>1. Alike(buyer[b], buyer'[b])
    BY <1>4 DEF Alike, orders
  <2>2. QED
    BY <1>4, <2>1, StillFits DEF orders, PayInv, PastDraft
<1>5. ASSUME NEW b \in Buyers, buyer[b] = Free  PROVE DueFits(b)'
  BY <1>5 DEF DueFits, orders
<1>6. QED
  BY <1>1, <1>3, <1>4, <1>5 DEF PayInv

LEMMA HeaderPays ==
  ASSUME OrderInv, PayInv, NEW o \in Orders, HeaderSteps(o)
  PROVE  PayInv'
<1>1. PICK from, to : /\ from \cap (Open \cup {"Received"}) = {}
                      /\ SetStatus(o, from, to)
  <2>1. \E from, to : from \cap (Open \cup {"Received"}) = {} /\ SetStatus(o, from, to)
    BY DEF HeaderSteps, Submit, ConfirmOrder, Reject, Cancel, Open
  <2>2. QED
    BY <2>1
<1>2. PICK D : buyer \in [Buyers -> {Free} \cup ErrandsDue(D)]
  BY DEF OrderInv, Types, Desks
<1>3. /\ \A a \in Buyers : buyer[a] = Free => buyer'[a] = Free
      /\ \A a \in Buyers : buyer[a] # Free
           => Overtakes(buyer[a], buyer'[a], o, TRUE)
  BY <1>1, <1>2, SeenFacts DEF SetStatus
<1>4. /\ ~PastDraft(o)
      /\ \A p \in Orders \ {o} : po'[p] = po[p]
      /\ UNCHANGED <<ledgerVars, quantity, received, crossed>>
  BY <1>1 DEF SetStatus, PastDraft, OrderInv, Types
<1>5. ASSUME NEW a \in Buyers  PROVE DueFits(a)'
  <2>1. CASE buyer[a] = Free
    BY <1>3, <2>1 DEF DueFits
  <2>2. CASE buyer[a] # Free
    <3>1. Alike(buyer[a], buyer'[a])
      BY <1>3, <2>2 DEF Overtakes, Alike
    <3>2. buyer[a].order \in Orders
      BY <2>2, ErrandType DEF OrderInv
    <3>3. PastDraft(buyer[a].order) => PastDraft(buyer[a].order)'
      BY <1>4, <3>1, <3>2 DEF PastDraft, Alike
    <3>4. QED
      BY <1>4, <2>2, <3>1, <3>3, StillFits DEF PayInv
  <2>3. QED
    BY <2>1, <2>2
<1>6. ASSUME NEW p \in Orders  PROVE Accounted(p)'
  <2>1. CASE p # o
    BY <1>4, <2>1, AccountKept DEF ledgerVars, books
  <2>2. CASE p = o
    <3>1. Accounted(o) /\ \A l \in Lines : received[o][l] = 0
      BY <1>4 DEF PayInv, Accounted
    <3>2. Total(received[o])' = Total(received[o])
      BY <1>4 DEF Total
    <3>3. QED
      BY <1>4, <2>2, <3>1, <3>2 DEF Accounted, ledgerVars, books
  <2>3. QED
    BY <2>1, <2>2
<1>7. LedgerTypeOK'
  BY <1>4 DEF PayInv, LedgerTypeOK, ledgerVars, books, events
<1>8. QED
  BY <1>5, <1>6, <1>7 DEF PayInv

(* Requests that begin, and those that give up, write nothing. *)
LEMMA NothingWritten ==
  ASSUME PayInv, UNCHANGED <<ledgerVars, po, quantity, received, crossed>>,
         \A b \in Buyers : DueFits(b)'
  PROVE  PayInv'
<1>1. \A o \in Orders : Accounted(o)'
  BY AccountKept DEF ledgerVars, books
<1>2. LedgerTypeOK'
  BY DEF PayInv, LedgerTypeOK, ledgerVars, books, events
<1>3. QED
  BY <1>1, <1>2 DEF PayInv

LEMMA SameFits ==
  ASSUME PayInv, UNCHANGED <<ledgerVars, po, quantity, received, crossed>>,
         NEW a \in Buyers, buyer'[a] = buyer[a] \/ buyer'[a] = Free
  PROVE  DueFits(a)'
<1>1. CASE buyer'[a] = Free
  BY <1>1 DEF DueFits
<1>2. CASE buyer'[a] = buyer[a] /\ buyer[a] # Free
  <2>1. Alike(buyer[a], buyer'[a])
    BY <1>2 DEF Alike
  <2>2. QED
    BY <1>2, <2>1, StillFits DEF PayInv, PastDraft
<1>3. QED
  BY <1>1, <1>2

LEMMA StartPays ==
  ASSUME OrderInv, PayInv, NEW b \in Buyers, NEW o \in Orders,
         \/ \E q \in Counts : StartReceive(b, o, q) \/ StartRedraft(b, o, q)
         \/ \E l \in Lines, n \in 0..MaxQuantity : StartEdit(b, o, l, n)
  PROVE  PayInv'
<1>1. UNCHANGED <<ledgerVars, po, quantity, received, crossed>>
  BY DEF StartReceive, StartRedraft, StartEdit
<1>2. ASSUME NEW op \in {"receive", "edit", "add", "redraft"},
             NEW lines \in SUBSET Lines, NEW q \in Counts,
             buyer' = [buyer EXCEPT ![b] = Errand(op, o, lines, q)],
             op = "receive" => \A l \in Lines \ lines : q[l] = 0
      PROVE  PayInv'
  <2>1. /\ \A a \in Buyers \ {b} : buyer'[a] = buyer[a]
        /\ buyer'[b].op = op /\ buyer'[b].step = "read" /\ buyer'[b].order = o
        /\ buyer'[b].lines = lines /\ buyer'[b].qty = q /\ buyer'[b].due = 0
        /\ buyer'[b].seen = po[o]
    <3>1. Begun(b, op, o, lines, q)
      BY <1>2, ErrandFacts DEF OrderInv
    <3>2. QED
      BY <3>1 DEF Begun
  <2>2. ~HasNumber(b)'
    BY <2>1 DEF HasNumber
  <2>3. buyer'[b].seen \in Open \cup {"Received"} => PastDraft(o)'
    BY <1>1, <2>1 DEF PastDraft
  <2>4. DueFits(b)'
    BY <1>2, <2>1, <2>2, <2>3 DEF DueFits, PastDraft
  <2>5. \A a \in Buyers : DueFits(a)'
    BY <1>1, <2>1, <2>4, SameFits
  <2>6. QED
    BY <1>1, <2>5, NothingWritten
<1>3. ASSUME NEW q \in Counts, StartReceive(b, o, q)  PROVE PayInv'
  <2> DEFINE delivered == {l \in Lines : q[l] > 0}
  <2>1. buyer' = [buyer EXCEPT ![b] = Errand("receive", o, delivered, q)]
    BY <1>3 DEF StartReceive
  <2>2. \A l \in Lines \ delivered : q[l] = 0
    BY PurchasingAssumption DEF Counts
  <2>3. delivered \in SUBSET Lines
    OBVIOUS
  <2> HIDE DEF delivered
  <2>4. QED
    BY <1>2, <2>1, <2>2, <2>3
<1>4. ASSUME NEW q \in Counts, StartRedraft(b, o, q)  PROVE PayInv'
  BY <1>2, <1>4 DEF StartRedraft
<1>5. ASSUME NEW l \in Lines, NEW n \in 0..MaxQuantity, StartEdit(b, o, l, n)  PROVE PayInv'
  <2> DEFINE op == IF quantity[o][l] = 0 THEN "add" ELSE "edit"
             q == [k \in Lines |-> n]
  <2>1. buyer' = [buyer EXCEPT ![b] = Errand(op, o, {l}, q)]
    BY <1>5 DEF StartEdit
  <2>2. q \in Counts
    BY DEF Counts
  <2>3. op \in {"edit", "add"}
    OBVIOUS
  <2> HIDE DEF op, q
  <2>4. QED
    BY <1>2, <2>1, <2>2, <2>3
<1>6. QED
  BY <1>3, <1>4, <1>5

LEMMA AddPays ==
  ASSUME OrderInv, PayInv, NEW b \in Buyers, AddReceived(b)
  PROVE  PayInv'
<1> DEFINE o == buyer[b].order
           x == AllReceived(o, ReadAgain(b))
           y == Total(ReadAgain(b))
<1>1. /\ buyer[b] # Free /\ buyer[b].op = "receive"
      /\ \A l \in buyer[b].lines : quantity[o][l] > 0
      /\ UNCHANGED <<ledgerVars, po, quantity, received, crossed>>
  BY DEF AddReceived, On
<1>2. PICK D : buyer \in [Buyers -> {Free} \cup ErrandsDue(D)]
  BY DEF OrderInv, Types, Desks
<1>3. buyer' = [buyer EXCEPT ![b] = [buyer[b] EXCEPT !.step = "added", !.complete = x, !.due = y]]
  BY DEF AddReceived
<1>4. x \in BOOLEAN
  BY DEF AllReceived
<1>5. y = Total(ReceivedAfter(b)) /\ y \in Nat
  BY <1>1, ReceivedType, TotalType DEF ReadAgain, OrderInv
<1> HIDE DEF x, y, o
<1>6. buyer[b] \in ErrandsDue(D)
  BY <1>1, <1>2
<1>7. /\ buyer'[b] = [buyer[b] EXCEPT !.step = "added", !.complete = x, !.due = y]
      /\ \A a \in Buyers \ {b} : buyer'[a] = buyer[a]
  BY <1>2, <1>3
<1>8. /\ buyer'[b].op = buyer[b].op /\ buyer'[b].order = buyer[b].order
      /\ buyer'[b].lines = buyer[b].lines /\ buyer'[b].qty = buyer[b].qty
      /\ buyer'[b].due = y /\ buyer'[b].seen = buyer[b].seen
  <2>1. [buyer[b] EXCEPT !.step = "added", !.complete = x, !.due = y]
          = [op |-> buyer[b].op, step |-> "added", order |-> buyer[b].order,
             lines |-> buyer[b].lines, qty |-> buyer[b].qty, seen |-> buyer[b].seen,
             fresh |-> buyer[b].fresh, alone |-> buyer[b].alone, complete |-> x, due |-> y]
    BY ZenonT(60), <1>4, <1>6, Computed
  <2>2. buyer'[b]
          = [op |-> buyer[b].op, step |-> "added", order |-> buyer[b].order,
             lines |-> buyer[b].lines, qty |-> buyer[b].qty, seen |-> buyer[b].seen,
             fresh |-> buyer[b].fresh, alone |-> buyer[b].alone, complete |-> x, due |-> y]
    BY <1>7, <2>1
  <2>3. QED
    BY <2>2
<1>9. DueFits(b)'
  <2>1. ReceivedAfter(b)' = ReceivedAfter(b)
    BY <1>1, <1>8 DEF ReceivedAfter
  <2>2. Total(ReceivedAfter(b))' = y
    BY <1>5, <2>1 DEF Total
  <2>3. /\ buyer[b].seen \in Open \cup {"Received"} => PastDraft(o)
        /\ \A l \in Lines \ buyer[b].lines : buyer[b].qty[l] = 0
    BY <1>1 DEF PayInv, DueFits, o
  <2>4. QED
    BY <1>1, <1>5, <1>8, <2>2, <2>3 DEF DueFits, PastDraft, o
<1>10. \A a \in Buyers : DueFits(a)'
  BY <1>1, <1>7, <1>9, SameFits
<1>11. QED
  BY <1>1, <1>10, NothingWritten

LEMMA GiveUpPays ==
  ASSUME OrderInv, PayInv, NEW b \in Buyers, GiveUp(b)
  PROVE  PayInv'
<1>1. UNCHANGED <<ledgerVars, po, quantity, received, crossed>>
  BY DEF GiveUp
<1>2. \A a \in Buyers : buyer'[a] = Free \/ buyer'[a] = buyer[a]
  BY DEF GiveUp, OrderInv, Types, Desks
<1>3. \A a \in Buyers : DueFits(a)'
  BY <1>1, <1>2, SameFits
<1>4. QED
  BY <1>1, <1>3, NothingWritten

(* A receipt writes the payable it has computed, and nothing came between.  *)
LEMMA PostPays ==
  ASSUME OrderInv, PayInv, NEW b \in Buyers, PostReceipt(b)
  PROVE  PayInv'
<1> DEFINE o == buyer[b].order
<1>1. /\ buyer[b] # Free /\ buyer[b].op = "receive" /\ HasNumber(b) /\ o \in Orders
      /\ received'[o] = ReceivedAfter(b)
      /\ \A l \in Lines : received'[o][l] = received[o][l] + buyer[b].qty[l]
      /\ \A p \in Orders \ {o} : received'[p] = received[p] /\ po'[p] = po[p]
      /\ quantity' = quantity
  BY PostFacts
<1>2. Types /\ OneNumber
  BY DEF OrderInv
<1>3. /\ buyer[b].due \in Nat
      /\ buyer[b].seen \in Open \cup {"Received"} => PastDraft(o)
      /\ \A l \in Lines \ buyer[b].lines : buyer[b].qty[l] = 0
      /\ \A l \in buyer[b].lines : quantity[o][l] > 0
      /\ "edit" \notin crossed[o] => buyer[b].due = Total(ReceivedAfter(b))
  BY <1>1 DEF PayInv, DueFits
<1>4. po'[o] \in Open \cup {"Received"}
  <2>1. CASE StatusMoves(b)
    BY <2>1, PostStatus DEF Open
  <2>2. CASE ~StatusMoves(b)
    <3>1. po'[o] = po[o] /\ buyer[b].seen \in {"PartiallyReceived", "Received"}
      BY <2>2, PostStatus DEF StatusMoves, Target
    <3>2. QED
      BY <1>3, <3>1 DEF PastDraft, Open
  <2>3. QED
    BY <2>1, <2>2
<1>5. \A p \in Orders : crossed[p] \subseteq crossed'[p]
  BY <1>1, <1>2, CrossingFacts DEF PostReceipt
<1>6. ledger' = [ledger EXCEPT ![o].amount = buyer[b].due] /\ o \in Docs
  BY <1>1 DEF PostReceipt, Docs, Invoices
<1>7. LedgerTypeOK'
  <2>1. [ledger[o] EXCEPT !.amount = buyer[b].due] \in LedgerRows
    BY <1>3, <1>6 DEF PayInv, LedgerTypeOK, LedgerRows
  <2>2. ledger' \in [Docs -> LedgerRows]
    BY <1>6, <2>1 DEF PayInv, LedgerTypeOK
  <2>3. QED
    BY <2>2 DEF PostReceipt, PayInv, LedgerTypeOK, events
<1>8. /\ ledger'[o].amount = buyer[b].due
      /\ \A p \in Orders \ {o} : ledger'[p] = ledger[p]
  BY <1>6 DEF PayInv, LedgerTypeOK, LedgerRows, Docs, Invoices
<1>9. ASSUME NEW a \in Buyers  PROVE DueFits(a)'
  <2>1. /\ buyer'[b] = Free
        /\ a # b /\ buyer[a] = Free => buyer'[a] = Free
        /\ a # b /\ buyer[a] # Free => Overtakes(buyer[a], buyer'[a], o, StatusMoves(b))
    <3>1. Leave(b, o, StatusMoves(b)) /\ StatusMoves(b) \in BOOLEAN
      BY DEF PostReceipt, StatusMoves
    <3>2. QED
      BY <1>2, <3>1, LeaveFacts
  <2>2. CASE a = b \/ buyer[a] = Free
    BY <2>1, <2>2 DEF DueFits
  <2>3. CASE a # b /\ buyer[a] # Free
    <3>1. Alike(buyer[a], buyer'[a])
      BY <2>1, <2>3 DEF Overtakes, Alike
    <3>2. buyer[a].order \in Orders /\ ~HasNumber(a)
      BY <1>1, <1>2, <2>3, ErrandType DEF OneNumber
    <3>3. PastDraft(buyer[a].order) => PastDraft(buyer[a].order)'
      <4>1. CASE buyer[a].order = o
        BY <1>4, <3>1, <4>1 DEF PastDraft, Alike
      <4>2. CASE buyer[a].order # o
        BY <1>1, <3>1, <3>2, <4>2 DEF PastDraft, Alike
      <4>3. QED
        BY <4>1, <4>2
    <3>4. QED
      BY <1>5, <2>3, <3>1, <3>2, <3>3, StillFits DEF PayInv
  <2>4. QED
    BY <2>2, <2>3
<1>10. ASSUME NEW p \in Orders  PROVE Accounted(p)'
  <2>1. CASE p # o
    BY <1>1, <1>5, <1>8, <2>1, AccountKept
  <2>2. CASE p = o
    <3>1. \A l \in Lines : quantity'[o][l] = 0 => received'[o][l] = 0
      <4> SUFFICES ASSUME NEW l \in Lines, quantity[o][l] = 0  PROVE received'[o][l] = 0
        BY <1>1
      <4>1. received[o][l] = 0
        BY <1>1 DEF PayInv, Accounted
      <4>2. buyer[b].qty[l] = 0
        BY <1>3
      <4>3. QED
        BY <1>1, <4>1, <4>2
    <3>2. "edit" \notin crossed'[o] => ledger'[o].amount = Total(received'[o])
      <4> SUFFICES ASSUME "edit" \notin crossed'[o]  PROVE ledger'[o].amount = Total(received'[o])
        OBVIOUS
      <4>1. "edit" \notin crossed[o]
        BY <1>1, <1>5
      <4>2. QED
        BY <1>1, <1>3, <1>8, <4>1
    <3>3. PastDraft(p)'
      BY <1>4, <2>2 DEF PastDraft
    <3>4. Accounted(p)'
      BY <2>2, <3>1, <3>2, <3>3 DEF Accounted, Total
    <3>5. QED
      BY <3>4
  <2>3. QED
    BY <2>1, <2>2
<1>11. QED
  BY <1>7, <1>9, <1>10 DEF PayInv

(* An edit that nothing crossed takes no received goods away. *)
LEMMA EditPays ==
  ASSUME OrderInv, PayInv, NEW b \in Buyers, FinishEdit(b)
  PROVE  PayInv'
<1> DEFINE o == buyer[b].order
           q == [l \in Lines |-> NewQuantity(b, l)]
           r == [l \in Lines |-> IF On(b, "redraft") \/ NewQuantity(b, l) = 0
                                 THEN 0 ELSE received[o][l]]
<1>1. /\ buyer[b] # Free /\ buyer[b].op # "receive"
      /\ quantity' = [quantity EXCEPT ![o] = q] /\ received' = [received EXCEPT ![o] = r]
      /\ Leave(b, o, TRUE) /\ Crossing(b) /\ UNCHANGED <<ledgerVars, po>>
      /\ \A l \in buyer[b].lines : ~LineLocked(o, l)
  BY DEF FinishEdit
<1>2. Types /\ Honest(b) /\ DueFits(b)
  BY DEF OrderInv, PayInv
<1>3. /\ buyer[b].op \in {"receive", "edit", "add", "redraft"}
      /\ o \in Orders
      /\ \A l \in Lines : /\ buyer[b].qty[l] \in Nat /\ received[o][l] \in Nat
                          /\ quantity[o][l] \in Nat
  BY <1>1, <1>2, ErrandType
<1>4. /\ \A p \in Orders : crossed[p] \subseteq crossed'[p]
      /\ "edit" \notin crossed'[o] => buyer[b].alone
  BY <1>1, <1>2, CrossingFacts
<1>5. Accounted(o)
  BY <1>3 DEF PayInv
<1>6. ASSUME "edit" \notin crossed'[o], NEW l \in Lines  PROVE r[l] = received[o][l]
  <2>1. buyer[b].alone /\ SeenFits(b) /\ SeenHolds(b) /\ ChecksHold(b)
    BY <1>1, <1>2, <1>4, <1>6 DEF Honest
  <2>2. CASE On(b, "redraft")
    <3>1. po[o] = "Draft"
      BY <2>1, <2>2 DEF On, SeenFits, SeenHolds
    <3>2. received[o][l] = 0
      BY <1>5, <3>1 DEF Accounted, PastDraft, Open
    <3>3. QED
      BY <3>2
  <2>3. CASE ~On(b, "redraft") /\ NewQuantity(b, l) = 0
    <3>1. CASE NewQuantity(b, l) = quantity[o][l]
      <4>1. received[o][l] = 0
        BY <1>5, <2>3, <3>1 DEF Accounted
      <4>2. QED
        BY <4>1
    <3>2. CASE NewQuantity(b, l) = buyer[b].qty[l] /\ l \in buyer[b].lines
      <4>1. buyer[b].op \in {"edit", "add"}
        BY <1>1, <1>3, <2>3 DEF On
      <4>2. received[o][l] <= buyer[b].qty[l]
        BY <2>1, <3>2, <4>1 DEF ChecksHold
      <4>3. received[o][l] = 0
        BY <1>3, <2>3, <3>2, <4>2
      <4>4. QED
        BY <4>3
    <3>3. QED
      BY <3>1, <3>2 DEF NewQuantity
  <2>4. CASE ~On(b, "redraft") /\ NewQuantity(b, l) # 0
    BY <2>4
  <2>5. QED
    BY <2>2, <2>3, <2>4
<1>7. received[o] \in [Lines -> Nat]
  BY <1>2, <1>3 DEF Types
<1>8. "edit" \notin crossed'[o] => r = received[o]
  BY <1>6, <1>7
<1>9. /\ \A l \in Lines : q[l] = 0 => r[l] = 0
      /\ \A l \in Lines : received[o][l] = 0 => r[l] = 0
      /\ \A l \in Lines : l \notin buyer[b].lines => q[l] = quantity[o][l]
  BY DEF NewQuantity
<1> HIDE DEF q, r
<1>10. /\ quantity'[o] = q /\ received'[o] = r
       /\ \A p \in Orders \ {o} : received'[p] = received[p] /\ quantity'[p] = quantity[p]
  BY <1>1, <1>2, <1>3 DEF Types
<1>11. /\ po' = po /\ \A p \in Orders : ledger'[p].amount = ledger[p].amount
       /\ UNCHANGED ledgerVars
  BY <1>1 DEF ledgerVars, books
<1>12. ASSUME NEW a \in Buyers  PROVE DueFits(a)'
  <2>1. /\ buyer'[b] = Free
        /\ a # b /\ buyer[a] = Free => buyer'[a] = Free
        /\ a # b /\ buyer[a] # Free => Overtakes(buyer[a], buyer'[a], o, TRUE)
    BY <1>1, <1>2, LeaveFacts
  <2>2. CASE a = b \/ buyer[a] = Free
    BY <2>1, <2>2 DEF DueFits
  <2>3. CASE a # b /\ buyer[a] # Free
    <3> DEFINE p == buyer[a].order
    <3>1. Alike(buyer[a], buyer'[a])
      BY <2>1, <2>3 DEF Overtakes, Alike
    <3>2. p \in Orders /\ buyer[a].lines \subseteq Lines
      BY <1>2, <2>3, ErrandType
    <3>3. PastDraft(buyer[a].order) => PastDraft(buyer[a].order)'
      BY <1>11, <3>1 DEF PastDraft, Alike
    <3>4. HasNumber(a) => \A l \in buyer[a].lines : quantity'[p][l] = quantity[p][l]
      <4>1. CASE p # o
        BY <1>10, <3>2, <4>1
      <4>2. CASE p = o
        <5>1. HasNumber(a) => \A l \in buyer[a].lines : l \notin buyer[b].lines
          BY <1>1, <4>2 DEF LineLocked
        <5>2. QED
          BY <1>9, <1>10, <3>2, <4>2, <5>1
      <4>3. QED
        BY <4>1, <4>2
    <3>5. "edit" \notin crossed'[p] => received'[p] = received[p]
      BY <1>8, <1>10, <3>2
    <3>6. crossed[p] \subseteq crossed'[p]
      BY <1>4, <3>2
    <3>7. QED
      BY <2>3, <3>1, <3>3, <3>4, <3>5, <3>6, StillFits DEF PayInv
  <2>4. QED
    BY <2>2, <2>3
<1>13. ASSUME NEW p \in Orders  PROVE Accounted(p)'
  <2>1. CASE p # o
    BY <1>4, <1>10, <1>11, <2>1, AccountKept
  <2>2. CASE p = o
    <3>1. ~PastDraft(o) => \A l \in Lines : received'[o][l] = 0
      BY <1>5, <1>9, <1>10 DEF Accounted
    <3>2. \A l \in Lines : quantity'[o][l] = 0 => received'[o][l] = 0
      BY <1>9, <1>10
    <3>3. "edit" \notin crossed'[o] => ledger'[o].amount = Total(received'[o])
      <4> SUFFICES ASSUME "edit" \notin crossed'[o]  PROVE ledger'[o].amount = Total(received'[o])
        OBVIOUS
      <4>1. received'[o] = received[o] /\ "edit" \notin crossed[o]
        BY <1>3, <1>4, <1>8, <1>10
      <4>2. ledger[o].amount = Total(received[o])
        BY <1>5, <4>1 DEF Accounted
      <4>3. QED
        BY <1>3, <1>11, <4>1, <4>2
    <3>4. Accounted(p)'
      BY <1>11, <2>2, <3>1, <3>2, <3>3 DEF Accounted, Total, PastDraft
    <3>5. QED
      BY <3>4
  <2>3. QED
    BY <2>1, <2>2
<1>14. LedgerTypeOK'
  BY <1>11 DEF PayInv, LedgerTypeOK, ledgerVars, books, events
<1>15. QED
  BY <1>12, <1>13, <1>14 DEF PayInv

(* What a receipt and an edit need to know of the payable, at all times.    *)
THEOREM PayablesHold == Spec => []PayInv
<1>1. Init => PayInv
  <2> SUFFICES ASSUME Init  PROVE PayInv
    OBVIOUS
  <2>1. LedgerTypeOK
    BY InitTypes DEF Init
  <2>2. \A b \in Buyers : DueFits(b)
    BY DEF Init, DueFits
  <2>3. ASSUME NEW o \in Orders  PROVE Accounted(o)
    <3>1. /\ \A l \in Lines : received[o][l] = 0
          /\ received[o] = [l \in Lines |-> 0] /\ ledger[o].amount = 0
      BY DEF Init, LedgerInit, NoRow, Docs, Invoices
    <3>2. Total(received[o]) = 0
      BY <3>1, SumZero, PurchasingAssumption DEF Total
    <3>3. QED
      BY <3>1, <3>2 DEF Accounted
  <2>4. QED
    BY <2>1, <2>2, <2>3 DEF PayInv
<1>2. OrderInv /\ PayInv /\ [Next]_vars => PayInv'
  <2> SUFFICES ASSUME OrderInv, PayInv, [Next]_vars  PROVE PayInv'
    OBVIOUS
  <2>1. CASE UNCHANGED vars
    <3>1. UNCHANGED <<ledgerVars, po, quantity, received, crossed>> /\ buyer' = buyer
      BY <2>1 DEF vars, orders
    <3>2. QED
      BY <3>1, SameFits, NothingWritten
  <2>2. ASSUME NEW b \in Buyers, BuyerSteps(b)  PROVE PayInv'
    <3>1. ASSUME NEW o \in Orders, NEW q \in Counts, StartReceive(b, o, q) \/ StartRedraft(b, o, q)
          PROVE  PayInv'
      BY <3>1, StartPays
    <3>2. ASSUME NEW o \in Orders, NEW l \in Lines, NEW n \in 0..MaxQuantity, StartEdit(b, o, l, n)
          PROVE  PayInv'
      BY <3>2, StartPays
    <3>3. QED
      BY <2>2, <3>1, <3>2, AddPays, PostPays, EditPays, GiveUpPays DEF BuyerSteps
  <2>3. QED
    BY <2>1, <2>2, HeaderPays, LedgerPays DEF Next
<1>3. QED
  BY <1>1, <1>2, RequestsHold, PTL DEF Spec

(* The payable of an order is what its lines have received, for any number  *)
(* of orders, lines and requests, unless an edit worked on lines that were  *)
(* read before another request wrote them.                                  *)
THEOREM PayableIsReceived == Spec => []PayableMatchesReceipts
<1>1. PayInv => PayableMatchesReceipts
  BY DEF PayInv, Accounted, PayableMatchesReceipts
<1>2. QED
  BY <1>1, PayablesHold, PTL

(* Every variable keeps its type, in the ledger and in the orders: what is  *)
(* written as the payable is a number.                                      *)
THEOREM OrderTypes == Spec => []TypeOK
<1>1. OrderInv /\ PayInv => TypeOK
  <2> SUFFICES ASSUME OrderInv, PayInv  PROVE TypeOK
    OBVIOUS
  <2>1. PICK D : buyer \in [Buyers -> {Free} \cup ErrandsDue(D)]
    BY DEF OrderInv, Types, Desks
  <2>2. ASSUME NEW b \in Buyers, buyer[b] # Free  PROVE buyer[b] \in Errands
    <3>1. buyer[b] \in ErrandsDue(D)
      BY <2>1, <2>2
    <3>2. buyer[b].due \in Nat
      BY <2>2 DEF PayInv, DueFits
    <3>3. QED
      BY <3>1, <3>2 DEF ErrandsDue, Errands
  <2>3. buyer \in [Buyers -> {Free} \cup Errands]
    BY <2>1, <2>2
  <2>4. QED
    BY <2>3 DEF OrderInv, PayInv, Types, TypeOK
<1>2. QED
  BY <1>1, RequestsHold, PayablesHold, PTL

(***************************************************************************)
(* The ledger among receipts                                               *)
(***************************************************************************)

LEMMA PostWritesOrder ==
  ASSUME OrderInv, PayInv, NEW b \in Buyers, PostReceipt(b)
  PROVE  /\ buyer[b].order \in Orders /\ buyer[b].due \in Nat
         /\ OrderWritten(buyer[b].order, buyer[b].due)
<1>1. buyer[b] # Free /\ buyer[b].order \in Orders
  BY PostFacts
<1>2. buyer[b].due \in Nat
  BY <1>1 DEF PayInv, DueFits
<1>3. OrderWritten(buyer[b].order, buyer[b].due)
  BY DEF PostReceipt, Rewritable, OrderWritten
<1>4. QED
  BY <1>1, <1>2, <1>3

(* The ledger keeps its invariant, though receipts write the amounts that   *)
(* settle and unsettle compare with: they do so only where nothing is       *)
(* applied.                                                                 *)
THEOREM LedgerAmongReceipts == Spec => []LedgerInv
<1>1. Init => LedgerInv
  BY InitLedger DEF Init
<1>2. OrderInv /\ PayInv /\ LedgerInv /\ [Next]_vars => LedgerInv'
  <2> SUFFICES ASSUME OrderInv, PayInv, LedgerInv, [Next]_vars  PROVE LedgerInv'
    OBVIOUS
  <2>1. CASE UNCHANGED vars
    BY <2>1, LedgerStays DEF vars
  <2>2. CASE LedgerNext
    BY <2>2, LedgerStep
  <2>3. ASSUME NEW o \in Orders, HeaderSteps(o)  PROVE LedgerInv'
    <3>1. UNCHANGED ledgerVars
      BY <2>3 DEF HeaderSteps, Submit, ConfirmOrder, Reject, Cancel, SetStatus
    <3>2. QED
      BY <3>1, LedgerStays
  <2>4. ASSUME NEW b \in Buyers, BuyerSteps(b)  PROVE LedgerInv'
    <3>1. CASE PostReceipt(b)
      BY <3>1, PostWritesOrder, OrderWrittenStep
    <3>2. CASE ~PostReceipt(b)
      <4>1. UNCHANGED ledgerVars
        BY <2>4, <3>2
           DEF BuyerSteps, StartReceive, AddReceived, StartEdit, StartRedraft, FinishEdit, GiveUp
      <4>2. QED
        BY <4>1, LedgerStays
    <3>3. QED
      BY <3>1, <3>2
  <2>5. QED
    BY <2>1, <2>2, <2>3, <2>4 DEF Next
<1>3. QED
  BY <1>1, <1>2, RequestsHold, PayablesHold, PTL DEF Spec

(* No document is applied beyond its amount, also where receipts rewrite    *)
(* the payable between the check of settle and its write, unless a request  *)
(* wrote an order from an older row.                                        *)
THEOREM NeverOverAppliedAmongReceipts == Spec => []AppliedWithinAmount
BY LedgerSays, LedgerAmongReceipts, PTL

(* The rows say what the settlements add up to, also those of orders whose  *)
(* payable moves.                                                           *)
THEOREM BooksBalanceAmongReceipts == Spec => []BooksBalance
BY LedgerSays, LedgerAmongReceipts, PTL

(* What is settled of an order's payable is no more than its lines have     *)
(* received, unless a cashier's request wrote the row from an older one or  *)
(* an edit worked on lines read before a receipt.                           *)
PaidWithinReceived ==
  \A o \in Orders \ stale :
    "edit" \notin crossed[o] => SettledOf(o) <= Total(received[o])

THEOREM OnlyReceivedIsPaid == Spec => []PaidWithinReceived
<1>1. PayInv /\ LedgerInv => PaidWithinReceived
  <2> SUFFICES ASSUME PayInv, LedgerInv, NEW o \in Orders \ stale, "edit" \notin crossed[o]
               PROVE  SettledOf(o) <= Total(received[o])
    BY DEF PaidWithinReceived
  <2>1. o \in Docs
    BY Kinds
  <2>2. ledger[o].applied = SettledOf(o) /\ ledger[o].applied <= ledger[o].amount
    BY <2>1, LedgerSays DEF BooksBalance, AppliedWithinAmount
  <2>3. ledger[o].amount = Total(received[o])
    BY DEF PayInv, Accounted
  <2>4. QED
    BY <2>2, <2>3
<1>2. QED
  BY <1>1, PayablesHold, LedgerAmongReceipts, PTL
=============================================================================
