------------------------------ MODULE Inventory ------------------------------
(***************************************************************************)
(* Stock, what is promised of it, and what is taken from it.               *)
(*                                                                         *)
(* Three tables keep back stock: stock_ledger.quantity is what there is,   *)
(* stock_ledger.reserved_qty what users locked by hand, and                *)
(* inventory_reservations what confirmed sales orders (for any warehouse)  *)
(* and released work orders (for the factory's warehouse) were promised.   *)
(* Every operation runs in the transaction of one web request, at READ     *)
(* COMMITTED: what it inserted is seen by itself at once, by others when   *)
(* it commits.  An operation that waits for a lock, or reads first and     *)
(* writes later, takes several steps here.                                 *)
(***************************************************************************)
EXTENDS Integers, Sequences, FiniteSets, Sums

CONSTANTS
  Products, Warehouses,
  SalesOrders, WorkOrders,
  Factory,        \* backflush.resolve_warehouse_id
  LinesOf,        \* the products a source needs, in the order of its lines
  Need,           \* how much of each
  BatchIdOwner,   \* the work order whose id is the id of a batch of this one
  NoSource, AnyWarehouse,
  Locks,          \* inventory_locks rows users may create
  Clerks, Free,
  InitialStock,
  MaxStock,       \* bound: units of a product in one warehouse
  MaxReturns      \* bound: returns to stock of one work order

Sources == SalesOrders \cup WorkOrders
Places == Products \X Warehouses

ASSUME ConstantsAssumption ==
  /\ SalesOrders \cap WorkOrders = {}
  /\ Products # {} /\ Factory \in Warehouses /\ AnyWarehouse \notin Warehouses
  /\ IsFiniteSet(Warehouses)
  /\ NoSource \notin Sources /\ Free \notin Clerks
  /\ LinesOf \in [Sources -> Seq(Products)]
  /\ \A s \in Sources : \A i, j \in DOMAIN LinesOf[s] :
       LinesOf[s][i] = LinesOf[s][j] => i = j
  /\ Need \in [Sources -> [Products -> Nat]]
  /\ BatchIdOwner \in [WorkOrders -> WorkOrders \cup {NoSource}]
  /\ MaxStock \in Nat /\ MaxReturns \in Nat
  /\ InitialStock \in [Places -> 0..MaxStock]

Quantity == 1..MaxStock
Scope(s) == IF s \in SalesOrders THEN AnyWarehouse ELSE Factory

(* An Active inventory_reservations row; no is the order line, or tells the *)
(* returns of a work order apart.                                           *)
Rows == [source : Sources, no : Nat, product : Products,
         warehouse : Warehouses \cup {AnyWarehouse}, qty : Nat \ {0}]

VARIABLES
  stock,     \* stock_ledger.quantity
  held,      \* stock_ledger.reserved_qty
  rows,      \* Active reservations that are committed
  draft,     \* those a clerk's transaction has inserted
  mutex,     \* who holds pg_advisory_xact_lock(product)
  stage,     \* a source: not yet confirmed / released, in work, over
  slip,      \* status of a work order's material picking
  from,      \* its source warehouse
  done,      \* qty_done of its items; of a sales order, shipped_qty
  lock,      \* inventory_locks.status, place and quantity
  returns,   \* bound counter
  desk       \* what a clerk's request is doing

promised == <<rows, draft, mutex>>
work == <<stage, slip, from, done, returns>>
vars == <<stock, held, promised, work, lock, desk>>

Requests == [op : {"reserve"}, source : Sources, line : Nat \ {0}]
       \cup [op : {"take"}, source : Sources, place : Places, qty : Quantity,
             checked : BOOLEAN]
       \cup [op : {"return"}, source : WorkOrders, place : Places, qty : Quantity,
             left : Nat, no : Nat]
       \cup [op : {"unlock"}, lock : Locks]

ASSUME FreeAssumption == Free \notin Requests

TypeOK ==
  /\ stock \in [Places -> Int]
  /\ held \in [Places -> Int]
  /\ rows \subseteq Rows
  /\ draft \in [Clerks -> SUBSET Rows]
  /\ mutex \in [Products -> Clerks \cup {Free}]
  /\ stage \in [Sources -> {"New", "Open", "Closed"}]
  /\ slip \in [WorkOrders -> {"Confirmed", "Done", "Cancelled"}]
  /\ from \in [WorkOrders -> Warehouses]
  /\ done \in [Sources -> [Products -> Nat]]
  /\ lock \in [Locks -> [status : {"None", "Active", "Gone"}, place : Places,
                         qty : Nat]]
  /\ returns \in [WorkOrders -> 0..MaxReturns]
  /\ desk \in [Clerks -> {Free} \cup Requests]

Init ==
  /\ stock = InitialStock
  /\ held = [pl \in Places |-> 0]
  /\ rows = {}
  /\ draft = [c \in Clerks |-> {}]
  /\ mutex = [p \in Products |-> Free]
  /\ stage = [s \in Sources |-> "New"]
  /\ slip = [s \in WorkOrders |-> "Confirmed"]
  /\ from = [s \in WorkOrders |-> Factory]
  /\ done = [s \in Sources |-> [p \in Products |-> 0]]
  /\ lock = [k \in Locks |-> [status |-> "None", place |-> CHOOSE pl \in Places : TRUE,
                              qty |-> 0]]
  /\ returns = [s \in WorkOrders |-> 0]
  /\ desk = [c \in Clerks |-> Free]

-----------------------------------------------------------------------------
Total(R) == SumOver([r \in R |-> r.qty], R)

(* What a request for need gets of atp: nothing, or one quantity            *)
Granted(need, atp) ==
  {q \in 1..need : q <= atp /\ \A more \in (q + 1)..need : ~(more <= atp)}

(* The places, and the reservations among R, that a warehouse filter keeps  *)
PlacesIn(p, w) == {pl \in Places : pl[1] = p /\ w \in {AnyWarehouse, pl[2]}}
ReservedIn(R, p, w) == {r \in R : r.product = p /\ w \in {AnyWarehouse, r.warehouse}}

OnHand(p, w) == SumOver([pl \in Places |-> stock[pl] - held[pl]], PlacesIn(p, w))

(* available_atp, and total_available, which is the same sum: a warehouse   *)
(* filter leaves out the reservations made for any warehouse                *)
AvailableAtp(R, p, w) == OnHand(p, w) - Total(ReservedIn(R, p, w))

-----------------------------------------------------------------------------
(* InventoryReservationService.reserve, as SalesOrderService.confirm and    *)
(* WorkOrderService.release call it                                         *)

Busy(c, op) == desk[c] # Free /\ desk[c].op = op
Reserving(c) == Busy(c, "reserve")

(* release first updates the row of the work order: another release waits   *)
StartReserve(c, s) ==
  /\ desk[c] = Free
  /\ stage[s] = "New"
  /\ s \in WorkOrders => \A d \in Clerks : Reserving(d) => desk[d].source # s
  /\ desk' = [desk EXCEPT ![c] = [op |-> "reserve", source |-> s, line |-> 1]]
  /\ UNCHANGED <<stock, held, promised, work, lock>>

(* Mutant: the products are not locked. *)
LockedByNone(c, p) == c \in Clerks /\ p \in Products

LockForReserve(c, p) == mutex[p] \in {Free, c}

NextProduct(c) == LinesOf[desk[c].source][desk[c].line]
LinesLeft(c) == desk[c].line <= Len(LinesOf[desk[c].source])

(* One line: lock the product, read its ATP, insert what there is of it     *)
ReserveLine(c) ==
  /\ Reserving(c) /\ LinesLeft(c)
  /\ LET s == desk[c].source
         p == NextProduct(c)
         atp == AvailableAtp(rows \cup draft[c], p, Scope(s))
     IN /\ LockForReserve(c, p)
        /\ mutex' = [mutex EXCEPT ![p] = c]
        /\ draft' = [draft EXCEPT ![c] = @ \cup
             {[source |-> s, no |-> desk[c].line, product |-> p,
               warehouse |-> Scope(s), qty |-> q] : q \in Granted(Need[s][p], atp)}]
  /\ desk' = [desk EXCEPT ![c].line = @ + 1]
  /\ UNCHANGED <<stock, held, rows, work, lock>>

ReleaseMutex(c) == mutex' = [p \in Products |-> IF mutex[p] = c THEN Free ELSE mutex[p]]

(* Mutant: a lock of the session outlives the transaction. *)
CommitKeepingMutex(c, R) ==
  /\ rows' = R
  /\ draft' = [draft EXCEPT ![c] = {}]
  /\ UNCHANGED mutex

Commit(c, R) ==
  /\ rows' = R
  /\ draft' = [draft EXCEPT ![c] = {}]
  /\ ReleaseMutex(c)

(* Mutant: a second confirmation is committed on top of the first. *)
AnyStage(s) == s \in Sources

(* The line versions of the order, or the version of the work order, say    *)
(* whether it has been confirmed or released since it was read              *)
StillNew(s) == stage[s] = "New"

FinishReserve(c) ==
  /\ Reserving(c) /\ ~LinesLeft(c)
  /\ LET s == desk[c].source
     IN \/ /\ StillNew(s)
           /\ Commit(c, rows \cup draft[c])
           /\ stage' = [stage EXCEPT ![s] = "Open"]
        \/ /\ ~StillNew(s)                            \* ConcurrentConflict
           /\ Commit(c, rows)
           /\ UNCHANGED stage
  /\ desk' = [desk EXCEPT ![c] = Free]
  /\ UNCHANGED <<stock, held, slip, from, done, returns, lock>>

(* PostgreSQL ends a circle of waiting transactions by failing one of them. *)
(* reserve goes on to the next line and returns normally, but every later   *)
(* statement of the failed transaction fails, and the request with it.      *)
WaitsFor(c, d) ==
  /\ c # d /\ Reserving(c) /\ LinesLeft(c)
  /\ mutex[NextProduct(c)] = d

DeadlockVictim(c) ==
  /\ \E S \in SUBSET Clerks : c \in S /\ \A d \in S : \E e \in S : WaitsFor(d, e)
  /\ desk' = [desk EXCEPT ![c] = Free]
  /\ Commit(c, rows)
  /\ UNCHANGED <<stock, held, work, lock>>

-----------------------------------------------------------------------------
(* InventoryTransactionService.record: a change of stock                    *)

(* Mutant: only the check before the update stops an overdraft. *)
Overdrawn(pl, delta) == pl \in Places /\ delta \in Int

(* StockLedgerService.upsert fails when the row it has updated is negative  *)
Covered(pl, delta) == stock[pl] + delta >= 0

Move(pl, delta) ==
  /\ Covered(pl, delta)
  /\ stock' = [stock EXCEPT ![pl] = @ + delta]

Receive(pl, q) ==
  /\ stock[pl] + q <= MaxStock
  /\ Move(pl, q)
  /\ UNCHANGED <<held, promised, work, lock, desk>>

(* A count or a manual correction: no availability check before it          *)
Adjust(pl, q) ==
  /\ Move(pl, -q)
  /\ UNCHANGED <<held, promised, work, lock, desk>>

(* A shipment (direct_ship_rows) or an issue of material reads its picking  *)
StartTake(c, s, pl, q) ==
  /\ desk[c] = Free
  /\ stage[s] # "New"
  /\ s \in WorkOrders => slip[s] = "Confirmed"
  /\ Need[s][pl[1]] > 0
  /\ desk' = [desk EXCEPT ![c] = [op |-> "take", source |-> s, place |-> pl,
                                  qty |-> q, checked |-> FALSE]]
  /\ UNCHANGED <<stock, held, promised, work, lock>>

(* ... checks what the warehouse has available (an issue has locked the row *)
(* of its picking by then) ...                                              *)
Issuing(s) == \E c \in Clerks : /\ Busy(c, "take") /\ desk[c].checked
                                /\ desk[c].source = s
StockChecked(s, p, w, q) == q <= AvailableAtp(rows, p, w)

CheckTake(c) ==
  /\ Busy(c, "take") /\ ~desk[c].checked
  /\ LET t == desk[c]
     IN /\ t.source \in WorkOrders => ~Issuing(t.source)
        /\ desk' = [desk EXCEPT ![c] =
             IF StockChecked(t.source, t.place[1], t.place[2], t.qty)
             THEN [t EXCEPT !.checked = TRUE] ELSE Free]
  /\ UNCHANGED <<stock, held, promised, work, lock>>

(* record_shipment: the order is still open, and nothing is shipped beyond  *)
(* what was ordered                                                         *)
ShipmentAllowed(s, p, q) ==
  s \in SalesOrders => stage[s] = "Open" /\ done[s][p] + q <= Need[s][p]

(* fulfill_by_source_line: a shipment ends the reservation of its line      *)
FulfillBySourceLine(s, p) == rows \ {r \in rows : r.source = s /\ r.product = p}

(* Mutant: a row that is used up stays Active. *)
ConsumeKeepsEmpty(s, p, q) ==
  LET hit == {r \in rows : r.source = s /\ r.product = p /\ r.qty >= q}
  IN (rows \ hit) \cup {[r EXCEPT !.qty = @ - q] : r \in hit}

(* Every row of the source that can give q gives q; one that cannot stays   *)
Consume(s, p, q) ==
  LET hit == {r \in rows : r.source = s /\ r.product = p /\ r.qty >= q}
  IN (rows \ hit) \cup {[r EXCEPT !.qty = @ - q] : r \in {t \in hit : t.qty > q}}

(* update_item_done adds nothing up: an issue leaves its own quantity       *)
IssueMaterial(s, pl, q) ==
  /\ done' = [done EXCEPT ![s][pl[1]] = q]
  /\ from' = [from EXCEPT ![s] = pl[2]]
  /\ slip' = [slip EXCEPT ![s] =
                IF \A p \in Products : done'[s][p] >= Need[s][p] THEN "Done" ELSE @]
  /\ rows' = Consume(s, pl[1], q)

ShipProduct(s, pl, q) ==
  /\ done' = [done EXCEPT ![s][pl[1]] = @ + q]
  /\ rows' = FulfillBySourceLine(s, pl[1])
  /\ UNCHANGED <<slip, from>>

(* ... and updates the ledger, or fails with all it has done                *)
FinishTake(c) ==
  /\ Busy(c, "take") /\ desk[c].checked
  /\ LET s == desk[c].source
         pl == desk[c].place
         q == desk[c].qty
     IN \/ /\ ShipmentAllowed(s, pl[1], q)
           /\ Move(pl, -q)
           /\ \/ s \in SalesOrders /\ ShipProduct(s, pl, q)
              \/ s \in WorkOrders /\ IssueMaterial(s, pl, q)
        \/ /\ ~(ShipmentAllowed(s, pl[1], q) /\ Covered(pl, -q))
           /\ UNCHANGED <<stock, done, slip, from, rows>>
  /\ desk' = [desk EXCEPT ![c] = Free]
  /\ UNCHANGED <<held, draft, mutex, stage, returns, lock>>

(* return_materials reads what was issued, whatever has become of the work  *)
(* order ...                                                                *)
StartReturn(c, s, p, q) ==
  /\ desk[c] = Free
  /\ stage[s] # "New" /\ slip[s] # "Cancelled"
  /\ q <= done[s][p]
  /\ returns[s] < MaxReturns
  /\ returns' = [returns EXCEPT ![s] = @ + 1]
  /\ desk' = [desk EXCEPT ![c] = [op |-> "return", source |-> s,
                                  place |-> <<p, from[s]>>, qty |-> q,
                                  left |-> done[s][p] - q,
                                  no |-> returns[s] + 1]]
  /\ UNCHANGED <<stock, held, promised, stage, slip, from, done, lock>>

(* ... and puts it back to stock, and reserves it again                     *)
FinishReturn(c) ==
  /\ Busy(c, "return")
  /\ LET s == desk[c].source
         pl == desk[c].place
         q == desk[c].qty
         atp == AvailableAtp(rows, pl[1], pl[2]) + q
     IN /\ ~Issuing(s)
        /\ mutex[pl[1]] = Free
        /\ Move(pl, q)
        /\ done' = [done EXCEPT ![s][pl[1]] = desk[c].left]
        /\ rows' = rows \cup
             {[source |-> s, no |-> Len(LinesOf[s]) + desk[c].no, product |-> pl[1],
               warehouse |-> pl[2], qty |-> g] : g \in Granted(q, atp)}
  /\ desk' = [desk EXCEPT ![c] = Free]
  /\ UNCHANGED <<held, draft, mutex, stage, slip, from, returns, lock>>

(* cancel_by_source: the order or work order is cancelled, with the picking *)
(* that is not done, or the last batch of the work order is received        *)
CancelBySource(s) ==
  /\ stage[s] = "Open"
  /\ s \in SalesOrders => \E p \in Products : done[s][p] < Need[s][p]
  /\ stage' = [stage EXCEPT ![s] = "Closed"]
  /\ rows' = {r \in rows : r.source # s}
  /\ \/ UNCHANGED slip
     \/ /\ s \in WorkOrders /\ slip[s] = "Confirmed" /\ ~Issuing(s)
        /\ slip' = [slip EXCEPT ![s] = "Cancelled"]
  /\ UNCHANGED <<stock, held, draft, mutex, from, done, returns, lock, desk>>

(* scrap passes the id of the batch where cancel_by_source wants the id of  *)
(* the work order                                                           *)
ScrapBatch(s) ==
  /\ stage[s] = "Open"
  /\ rows' = {r \in rows : r.source # BatchIdOwner[s]}
  /\ UNCHANGED <<stock, held, draft, mutex, work, lock, desk>>

-----------------------------------------------------------------------------
(* InventoryLockService                                                     *)

CreateLock(k, pl, q) ==
  /\ lock[k].status = "None"
  /\ lock' = [lock EXCEPT ![k] = [status |-> "Active", place |-> pl, qty |-> q]]
  /\ held' = [held EXCEPT ![pl] = @ + q]
  /\ UNCHANGED <<stock, promised, work, desk>>

(* release and cancel look at the status ...                                *)
StartUnlock(c, k) ==
  /\ desk[c] = Free
  /\ lock[k].status = "Active"
  /\ desk' = [desk EXCEPT ![c] = [op |-> "unlock", lock |-> k]]
  /\ UNCHANGED <<stock, held, promised, work, lock>>

(* ... and later write it, and reserved_qty, unconditionally                *)
FinishUnlock(c) ==
  /\ Busy(c, "unlock")
  /\ LET k == desk[c].lock
     IN /\ lock' = [lock EXCEPT ![k].status = "Gone"]
        /\ held' = [held EXCEPT ![lock[k].place] = @ - lock[k].qty]
  /\ desk' = [desk EXCEPT ![c] = Free]
  /\ UNCHANGED <<stock, promised, work>>

-----------------------------------------------------------------------------
Next ==
  \/ \E c \in Clerks : \/ \E s \in Sources : StartReserve(c, s)
                       \/ ReserveLine(c)
                       \/ FinishReserve(c)
                       \/ DeadlockVictim(c)
                       \/ \E s \in Sources, pl \in Places, q \in Quantity :
                            StartTake(c, s, pl, q)
                       \/ CheckTake(c)
                       \/ FinishTake(c)
                       \/ \E s \in WorkOrders, p \in Products, q \in Quantity :
                            StartReturn(c, s, p, q)
                       \/ FinishReturn(c)
                       \/ \E k \in Locks : StartUnlock(c, k)
                       \/ FinishUnlock(c)
  \/ \E pl \in Places, q \in Quantity : Receive(pl, q) \/ Adjust(pl, q)
  \/ \E s \in Sources : CancelBySource(s)
  \/ \E s \in WorkOrders : ScrapBatch(s)
  \/ \E k \in Locks, pl \in Places, q \in Quantity : CreateLock(k, pl, q)

Spec == Init /\ [][Next]_vars

(* A request that got its locks runs to its end, and the database finds     *)
(* deadlocks; nobody has to start a request.                                *)
FairSpec ==
  /\ Spec
  /\ \A c \in Clerks : /\ SF_vars(ReserveLine(c))
                       /\ WF_vars(FinishReserve(c))
                       /\ WF_vars(DeadlockVictim(c))

-----------------------------------------------------------------------------
(* However the checks of two shipments interleave with their updates, the   *)
(* ledger never goes below zero (record, StockLedgerService.upsert).        *)
StockNeverNegative == \A pl \in Places : stock[pl] >= 0

(* All reservations of a product, those of open transactions included       *)
Promised == rows \cup UNION {draft[c] : c \in Clerks}

(* What is promised within a warehouse filter fits what was there at that   *)
(* moment, other users' uncommitted promises included (lock_for_reserve).   *)
PromiseFitsStock ==
  [][\A p \in Products, w \in Warehouses \cup {AnyWarehouse} :
       (\E r \in Promised' \ Promised : r.product = p /\ r.warehouse = w)
         => \/ Total(ReservedIn(Promised, p, w))' <= OnHand(p, w)'
            \/ Total(ReservedIn(Promised, p, w))' <= Total(ReservedIn(Promised, p, w))]_vars

PromisedTo(s, p) == {r \in rows : r.source = s /\ r.product = p}

(* An order line has at most one reservation and is never promised and      *)
(* shipped more than was ordered, also when two users confirm the order or  *)
(* ship it in parts (confirm, direct_ship_rows).                            *)
SalesWithinOrder ==
  \A s \in SalesOrders, p \in Products :
    /\ done[s][p] <= Need[s][p]
    /\ \A r \in PromisedTo(s, p) : /\ r.qty + done[s][p] <= Need[s][p]
                                   /\ PromisedTo(s, p) = {r}

(* Two confirmations that lock the same products in opposite orders do not  *)
(* wait for each other for ever (reserve inside confirm's savepoint).       *)
ReservingEnds == \A c \in Clerks : Reserving(c) ~> ~Reserving(c)

-----------------------------------------------------------------------------
(* available_atp prevents overselling: a reservation is covered by stock    *)
(* that nobody else was promised.                                           *)
NeverOversold ==
  [][\A p \in Products :
       (\E r \in Promised' \ Promised : r.product = p)
         => \/ Total(ReservedIn(Promised, p, AnyWarehouse))' <= OnHand(p, AnyWarehouse)'
            \/ Total(ReservedIn(Promised, p, AnyWarehouse))'
                 <= Total(ReservedIn(Promised, p, AnyWarehouse))]_vars
=============================================================================
