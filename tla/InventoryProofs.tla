--------------------------- MODULE InventoryProofs ---------------------------
(***************************************************************************)
(* Proofs about Inventory, for any products, warehouses, orders, users and *)
(* quantities.  What available_atp sums up plays no part in the first two: *)
(* whatever it answers, the ledger stays non-negative and no order line    *)
(* gets more than was ordered.  The third is about those sums.             *)
(***************************************************************************)
EXTENDS Inventory, SumsProofs

ReserveSteps(c) ==
  \/ \E s \in Sources : StartReserve(c, s)
  \/ ReserveLine(c)
  \/ FinishReserve(c)
  \/ DeadlockVictim(c)

MoveSteps(c) ==
  \/ \E s \in Sources, pl \in Places, q \in Quantity : StartTake(c, s, pl, q)
  \/ CheckTake(c)
  \/ FinishTake(c)
  \/ \E s \in WorkOrders, p \in Products, q \in Quantity : StartReturn(c, s, p, q)
  \/ FinishReturn(c)

LEMMA ScopeType == \A s \in Sources : Scope(s) \in Warehouses \cup {AnyWarehouse}
  BY ConstantsAssumption DEF Scope

LEMMA GrantedType ==
  ASSUME NEW need \in Nat, NEW atp
  PROVE  Granted(need, atp) \subseteq {q \in Nat \ {0} : q <= need}
  BY DEF Granted

(* A request in hand is one of the four kinds, with the fields of its kind. *)
LEMMA DeskType ==
  ASSUME TypeOK, NEW c \in Clerks
  PROVE  /\ Reserving(c) => desk[c] \in [op : {"reserve"}, source : Sources,
                                         line : Nat \ {0}]
         /\ Busy(c, "take") => desk[c] \in [op : {"take"}, source : Sources,
                                            place : Places, qty : Quantity,
                                            checked : BOOLEAN]
         /\ Busy(c, "return") => desk[c] \in [op : {"return"}, source : WorkOrders,
                                              place : Places, qty : Quantity,
                                              left : Nat, no : Nat]
         /\ Busy(c, "unlock") => desk[c] \in [op : {"unlock"}, lock : Locks]
  BY DEF TypeOK, Requests, Reserving, Busy

LEMMA ConsumeType ==
  ASSUME TypeOK, NEW s \in Sources, NEW p \in Products, NEW q \in Nat
  PROVE  Consume(s, p, q) \subseteq Rows
<1>1. ASSUME NEW t \in Rows, t.qty > q  PROVE [t EXCEPT !.qty = @ - q] \in Rows
  <2>1. t.qty \in Nat
    BY DEF Rows
  <2>2. t.qty - q \in Nat \ {0}
    BY <1>1, <2>1
  <2>3. QED
    BY <2>2 DEF Rows
<1>2. QED
  BY <1>1 DEF TypeOK, Consume

(***************************************************************************)
(* Types                                                                   *)
(***************************************************************************)

LEMMA ReserveTypes ==
  ASSUME TypeOK, NEW c \in Clerks, ReserveSteps(c)
  PROVE  TypeOK'
<1>1. ASSUME NEW s \in Sources, StartReserve(c, s)  PROVE TypeOK'
  <2>1. [op |-> "reserve", source |-> s, line |-> 1] \in Requests
    BY DEF Requests
  <2>2. desk \in [Clerks -> {Free} \cup Requests]
    BY DEF TypeOK
  <2>3. desk' = [desk EXCEPT ![c] = [op |-> "reserve", source |-> s, line |-> 1]]
    BY <1>1 DEF StartReserve
  <2>4. desk' \in [Clerks -> {Free} \cup Requests]
    BY <2>1, <2>2, <2>3
  <2>5. QED
    BY <1>1, <2>4 DEF StartReserve, TypeOK, promised, work
<1>2. CASE ReserveLine(c)
  <2>1. desk[c] \in [op : {"reserve"}, source : Sources, line : Nat \ {0}]
    BY <1>2, DeskType DEF ReserveLine
  <2> DEFINE s == desk[c].source
             p == NextProduct(c)
  <2>2. s \in Sources /\ desk[c].line \in Nat \ {0} /\ p \in Products
    <3>1. s \in Sources /\ desk[c].line \in Nat \ {0}
      BY <2>1
    <3>2. LinesOf[s] \in Seq(Products)
      BY <3>1, ConstantsAssumption
    <3>3. desk[c].line <= Len(LinesOf[s])
      BY <1>2 DEF ReserveLine, LinesLeft
    <3>4. QED
      BY <3>1, <3>2, <3>3 DEF NextProduct
  <2>3. Need[s][p] \in Nat /\ Scope(s) \in Warehouses \cup {AnyWarehouse}
    BY <2>2, ScopeType, ConstantsAssumption
  <2>4. \A atp : {[source |-> s, no |-> desk[c].line, product |-> p,
                   warehouse |-> Scope(s), qty |-> q] : q \in Granted(Need[s][p], atp)}
                 \subseteq Rows
    BY <2>2, <2>3, GrantedType DEF Rows
  <2>5. draft' \in [Clerks -> SUBSET Rows] /\ mutex' \in [Products -> Clerks \cup {Free}]
    BY <1>2, <2>2, <2>4 DEF ReserveLine, TypeOK
  <2>6. [desk[c] EXCEPT !.line = @ + 1] \in Requests
    BY <2>1 DEF Requests
  <2>7. desk' \in [Clerks -> {Free} \cup Requests]
    BY <1>2, <2>6 DEF ReserveLine, TypeOK
  <2>8. QED
    BY <1>2, <2>5, <2>7 DEF ReserveLine, TypeOK, work
<1>3. CASE FinishReserve(c)
  <2>1. desk[c] \in [op : {"reserve"}, source : Sources, line : Nat \ {0}]
    BY <1>3, DeskType DEF FinishReserve
  <2>2. QED
    BY <1>3, <2>1 DEF FinishReserve, Commit, ReleaseMutex, TypeOK
<1>4. CASE DeadlockVictim(c)
  BY <1>4 DEF DeadlockVictim, Commit, ReleaseMutex, TypeOK, work
<1>5. QED
  BY <1>1, <1>2, <1>3, <1>4 DEF ReserveSteps

LEMMA MoveTypes ==
  ASSUME TypeOK, NEW c \in Clerks, MoveSteps(c)
  PROVE  TypeOK'
<1>1. ASSUME NEW s \in Sources, NEW pl \in Places, NEW q \in Quantity,
             StartTake(c, s, pl, q)
      PROVE  TypeOK'
  <2>1. [op |-> "take", source |-> s, place |-> pl, qty |-> q, checked |-> FALSE]
          \in Requests
    BY DEF Requests
  <2>2. desk' \in [Clerks -> {Free} \cup Requests]
    BY <1>1, <2>1 DEF StartTake, TypeOK
  <2>3. QED
    BY <1>1, <2>2 DEF StartTake, TypeOK, promised, work
<1>2. CASE CheckTake(c)
  <2>1. [desk[c] EXCEPT !.checked = TRUE] \in Requests
    BY <1>2, DeskType DEF CheckTake, Requests
  <2>2. desk' \in [Clerks -> {Free} \cup Requests]
    BY <1>2, <2>1 DEF CheckTake, TypeOK
  <2>3. QED
    BY <1>2, <2>2 DEF CheckTake, TypeOK, promised, work
<1>3. CASE FinishTake(c)
  <2> DEFINE s == desk[c].source
             pl == desk[c].place
             q == desk[c].qty
  <2>1. /\ s \in Sources /\ pl \in Places /\ q \in Nat
        /\ pl[1] \in Products /\ pl[2] \in Warehouses
    BY <1>3, DeskType, ConstantsAssumption DEF FinishTake, Places, Quantity
  <2>2. /\ stock' \in [Places -> Int]
        /\ rows' \subseteq Rows
        /\ done' \in [Sources -> [Products -> Nat]]
        /\ slip' \in [WorkOrders -> {"Confirmed", "Done", "Cancelled"}]
        /\ from' \in [WorkOrders -> Warehouses]
    <3>1. CASE Move(pl, -q) /\ s \in SalesOrders /\ ShipProduct(s, pl, q)
      BY <2>1, <3>1 DEF Move, ShipProduct, FulfillBySourceLine, TypeOK
    <3>2. CASE Move(pl, -q) /\ s \in WorkOrders /\ IssueMaterial(s, pl, q)
      BY <2>1, <3>2, ConsumeType DEF Move, IssueMaterial, TypeOK
    <3>3. CASE UNCHANGED <<stock, done, slip, from, rows>>
      BY <3>3 DEF TypeOK
    <3>4. QED
      BY <1>3, <3>1, <3>2, <3>3 DEF FinishTake
  <2>3. QED
    BY <1>3, <2>2 DEF FinishTake, TypeOK
<1>4. ASSUME NEW s \in WorkOrders, NEW p \in Products, NEW q \in Quantity,
             StartReturn(c, s, p, q)
      PROVE  TypeOK'
  <2>1. /\ q \in Nat /\ done[s][p] - q \in Nat /\ from[s] \in Warehouses
        /\ returns[s] + 1 \in 0..MaxReturns
    BY <1>4, ConstantsAssumption DEF StartReturn, TypeOK, Quantity, Sources
  <2>2. [op |-> "return", source |-> s, place |-> <<p, from[s]>>, qty |-> q,
         left |-> done[s][p] - q, no |-> returns[s] + 1] \in Requests
    BY <2>1 DEF Requests, Places
  <2>3. desk' \in [Clerks -> {Free} \cup Requests]
    BY <1>4, <2>2 DEF StartReturn, TypeOK
  <2>4. returns' \in [WorkOrders -> 0..MaxReturns]
    BY <1>4, <2>1 DEF StartReturn, TypeOK
  <2>5. QED
    BY <1>4, <2>3, <2>4 DEF StartReturn, TypeOK, promised
<1>5. CASE FinishReturn(c)
  <2> DEFINE s == desk[c].source
             pl == desk[c].place
             q == desk[c].qty
  <2>1. /\ s \in WorkOrders /\ s \in Sources /\ pl \in Places /\ q \in Nat
        /\ pl[1] \in Products /\ pl[2] \in Warehouses
        /\ desk[c].left \in Nat /\ desk[c].no \in Nat /\ Len(LinesOf[s]) \in Nat
    BY <1>5, DeskType, ConstantsAssumption DEF FinishReturn, Places, Quantity, Sources
  <2>2. \A atp : {[source |-> s, no |-> Len(LinesOf[s]) + desk[c].no,
                   product |-> pl[1], warehouse |-> pl[2], qty |-> g] :
                    g \in Granted(q, atp)} \subseteq Rows
    BY <2>1, GrantedType DEF Rows
  <2>3. rows' \subseteq Rows
    BY <1>5, <2>2 DEF FinishReturn, TypeOK
  <2>4. stock' \in [Places -> Int] /\ done' \in [Sources -> [Products -> Nat]]
    BY <1>5, <2>1 DEF FinishReturn, Move, TypeOK
  <2>5. QED
    BY <1>5, <2>3, <2>4 DEF FinishReturn, TypeOK
<1>6. QED
  BY <1>1, <1>2, <1>3, <1>4, <1>5 DEF MoveSteps

(* Every variable of Inventory keeps its type.                              *)
THEOREM TypeInvariance == Spec => []TypeOK
<1>1. Init => TypeOK
  <2>1. Places # {}
    <3>1. PICK p \in Products : TRUE
      BY ConstantsAssumption
    <3>2. <<p, Factory>> \in Places
      BY ConstantsAssumption DEF Places
    <3>3. QED
      BY <3>2
  <2>2. QED
    BY <2>1, ConstantsAssumption DEF Init, TypeOK, Sources
<1>2. TypeOK /\ [Next]_vars => TypeOK'
  <2> SUFFICES ASSUME TypeOK, [Next]_vars  PROVE TypeOK'
    OBVIOUS
  <2>1. ASSUME NEW c \in Clerks, ReserveSteps(c) \/ MoveSteps(c)  PROVE TypeOK'
    BY <2>1, ReserveTypes, MoveTypes
  <2>2. ASSUME NEW c \in Clerks, NEW k \in Locks, StartUnlock(c, k)  PROVE TypeOK'
    <3>1. desk' \in [Clerks -> {Free} \cup Requests]
      BY <2>2 DEF StartUnlock, TypeOK, Requests
    <3>2. QED
      BY <2>2, <3>1 DEF StartUnlock, TypeOK, promised, work
  <2>3. ASSUME NEW c \in Clerks, FinishUnlock(c)  PROVE TypeOK'
    <3>1. desk[c].lock \in Locks
      BY <2>3, DeskType DEF FinishUnlock
    <3>2. QED
      BY SMTT(30), <2>3, <3>1 DEF FinishUnlock, TypeOK, promised, work
  <2>4. ASSUME NEW pl \in Places, NEW q \in Quantity, Receive(pl, q) \/ Adjust(pl, q)
        PROVE  TypeOK'
    BY <2>4, ConstantsAssumption
       DEF Receive, Adjust, Move, TypeOK, Quantity, promised, work
  <2>5. ASSUME NEW s \in Sources, CancelBySource(s)  PROVE TypeOK'
    BY <2>5 DEF CancelBySource, TypeOK
  <2>6. ASSUME NEW s \in WorkOrders, ScrapBatch(s)  PROVE TypeOK'
    BY <2>6 DEF ScrapBatch, TypeOK, work
  <2>7. ASSUME NEW k \in Locks, NEW pl \in Places, NEW q \in Quantity,
               CreateLock(k, pl, q)
        PROVE  TypeOK'
    <3>1. q \in Nat
      BY ConstantsAssumption DEF Quantity
    <3>2. lock' \in [Locks -> [status : {"None", "Active", "Gone"}, place : Places,
                              qty : Nat]]
      BY <2>7, <3>1 DEF CreateLock, TypeOK
    <3>3. held' \in [Places -> Int]
      BY <2>7, <3>1 DEF CreateLock, TypeOK
    <3>4. QED
      BY <2>7, <3>2, <3>3 DEF CreateLock, TypeOK, promised, work
  <2>8. CASE UNCHANGED vars
    BY <2>8 DEF vars, promised, work, TypeOK
  <2>9. QED
    BY <2>1, <2>2, <2>3, <2>4, <2>5, <2>6, <2>7, <2>8
       DEF Next, ReserveSteps, MoveSteps
<1>3. QED
  BY <1>1, <1>2, PTL DEF Spec

(***************************************************************************)
(* The ledger                                                              *)
(***************************************************************************)

LEMMA MoveKeepsStock ==
  ASSUME TypeOK, StockNeverNegative, NEW pl \in Places, NEW delta \in Int,
         Move(pl, delta)
  PROVE  StockNeverNegative'
BY DEF Move, Covered, TypeOK, StockNeverNegative

(* The ledger never goes below zero, whatever was checked before: only the  *)
(* test after the update (StockLedgerService.upsert) is needed for it.      *)
THEOREM LedgerNeverOverdrawn == Spec => []StockNeverNegative
<1>1. Init => StockNeverNegative
  BY ConstantsAssumption DEF Init, StockNeverNegative
<1>2. TypeOK /\ StockNeverNegative /\ [Next]_vars => StockNeverNegative'
  <2> SUFFICES ASSUME TypeOK, StockNeverNegative, [Next]_vars
               PROVE  StockNeverNegative'
    OBVIOUS
  <2>1. CASE UNCHANGED stock
    BY <2>1 DEF StockNeverNegative
  <2>2. ASSUME NEW c \in Clerks, FinishTake(c)  PROVE StockNeverNegative'
    <3>1. desk[c].place \in Places /\ -desk[c].qty \in Int
      BY <2>2, DeskType, ConstantsAssumption DEF FinishTake, Quantity
    <3>2. QED
      BY <2>1, <2>2, <3>1, MoveKeepsStock DEF FinishTake
  <2>3. ASSUME NEW c \in Clerks, FinishReturn(c)  PROVE StockNeverNegative'
    <3>1. desk[c].place \in Places /\ desk[c].qty \in Int
      BY <2>3, DeskType, ConstantsAssumption DEF FinishReturn, Quantity
    <3>2. QED
      BY <2>3, <3>1, MoveKeepsStock DEF FinishReturn
  <2>4. ASSUME NEW pl \in Places, NEW q \in Quantity, Receive(pl, q) \/ Adjust(pl, q)
        PROVE  StockNeverNegative'
    <3>1. q \in Int /\ -q \in Int
      BY ConstantsAssumption DEF Quantity
    <3>2. QED
      BY <2>4, <3>1, MoveKeepsStock DEF Receive, Adjust
  <2>5. QED
    BY ZenonT(40), <2>1, <2>2, <2>3, <2>4
       DEF Next, StartReserve, ReserveLine, FinishReserve, DeadlockVictim,
           StartTake, CheckTake, StartReturn, StartUnlock, FinishUnlock,
           CancelBySource, ScrapBatch, CreateLock, vars
<1>3. QED
  BY <1>1, <1>2, TypeInvariance, PTL DEF Spec

(***************************************************************************)
(* What sales order lines are promised                                     *)
(***************************************************************************)

FromLine(r) ==
  /\ r.no \in DOMAIN LinesOf[r.source]
  /\ r.product = LinesOf[r.source][r.no]
  /\ r.qty <= Need[r.source][r.product]

NothingBeforeConfirm ==
  \A s \in SalesOrders : stage[s] = "New" =>
    /\ \A r \in rows : r.source # s
    /\ \A p \in Products : done[s][p] = 0

OneRowPerLine ==
  \A r \in rows : r.source \in SalesOrders =>
    /\ FromLine(r)
    /\ done[r.source][r.product] = 0
    /\ \A t \in rows : t.source = r.source /\ t.no = r.no => t = r

(* Uncommitted rows belong to the lines the request has gone through.       *)
OneDraftPerLine ==
  \A c \in Clerks : \A r \in draft[c] :
    /\ Reserving(c) /\ r.source = desk[c].source /\ r.no < desk[c].line
    /\ FromLine(r)
    /\ \A t \in draft[c] : t.no = r.no => t = r

ShippedWithinOrder ==
  \A s \in SalesOrders, p \in Products : done[s][p] <= Need[s][p]

OrderInv ==
  /\ NothingBeforeConfirm
  /\ OneRowPerLine
  /\ OneDraftPerLine
  /\ ShippedWithinOrder

LEMMA GrantedOnce ==
  ASSUME NEW need \in Nat, NEW atp,
         NEW g \in Granted(need, atp), NEW h \in Granted(need, atp)
  PROVE  g = h
<1>1. g \in 1..need /\ h \in 1..need /\ g <= atp /\ h <= atp
  BY DEF Granted
<1>2. h \notin (g + 1)..need /\ g \notin (h + 1)..need
  BY <1>1 DEF Granted
<1>3. QED
  BY <1>1, <1>2

LEMMA OrderInvSuffices == TypeOK /\ OrderInv => SalesWithinOrder
<1> SUFFICES ASSUME TypeOK, OrderInv, NEW s \in SalesOrders, NEW p \in Products
             PROVE  /\ done[s][p] <= Need[s][p]
                    /\ \A r \in PromisedTo(s, p) :
                         /\ r.qty + done[s][p] <= Need[s][p]
                         /\ PromisedTo(s, p) = {r}
  BY DEF SalesWithinOrder
<1>1. done[s][p] <= Need[s][p]
  BY DEF OrderInv, ShippedWithinOrder
<1>2. ASSUME NEW r \in PromisedTo(s, p)
      PROVE  r.qty + done[s][p] <= Need[s][p] /\ PromisedTo(s, p) = {r}
  <2>1. r \in rows /\ r.source = s /\ r.product = p /\ r.qty \in Nat
    BY DEF PromisedTo, TypeOK, Rows
  <2>2. FromLine(r) /\ done[s][p] = 0
    BY <2>1 DEF OrderInv, OneRowPerLine
  <2>3. ASSUME NEW t \in PromisedTo(s, p)  PROVE t = r
    <3>1. t \in rows /\ t.source = s /\ t.product = p
      BY DEF PromisedTo
    <3>2. FromLine(t)
      BY <3>1 DEF OrderInv, OneRowPerLine
    <3>3. t.no = r.no
      BY <2>1, <2>2, <3>1, <3>2, ConstantsAssumption DEF FromLine, Sources
    <3>4. QED
      BY <2>1, <3>1, <3>3 DEF OrderInv, OneRowPerLine
  <2>4. r.qty + done[s][p] <= Need[s][p]
    BY <2>1, <2>2 DEF FromLine
  <2>5. QED
    BY <2>3, <2>4
<1>3. QED
  BY <1>1, <1>2

(* A step that inserts no row and neither ships nor confirms.               *)
LEMMA FewerRows ==
  ASSUME OrderInv, rows' \subseteq rows, UNCHANGED <<draft, done>>,
         \A s \in SalesOrders : stage'[s] = "New" => stage[s] = "New",
         \A c \in Clerks : Reserving(c) => desk'[c] = desk[c]
  PROVE  OrderInv'
<1>1. OneDraftPerLine'
  BY DEF OrderInv, OneDraftPerLine, Reserving, Busy, FromLine
<1>2. QED
  BY <1>1 DEF OrderInv, NothingBeforeConfirm, OneRowPerLine, ShippedWithinOrder, FromLine

LEMMA ReserveOrder ==
  ASSUME TypeOK, OrderInv, NEW c \in Clerks, ReserveSteps(c)
  PROVE  OrderInv'
<1>1. ASSUME NEW s \in Sources, StartReserve(c, s)  PROVE OrderInv'
  <2>1. desk[c] = Free
    BY <1>1 DEF StartReserve
  <2>2. \A d \in Clerks \ {c} : desk'[d] = desk[d]
    BY <1>1 DEF StartReserve, TypeOK
  <2>4. \A d \in Clerks : Reserving(d) => desk'[d] = desk[d]
    BY <2>1, <2>2 DEF Reserving, Busy
  <2>3. QED
    BY <1>1, <2>4, FewerRows DEF StartReserve, promised, work
<1>2. CASE ReserveLine(c)
  <2> DEFINE s == desk[c].source
             i == desk[c].line
             p == NextProduct(c)
  <2>1. /\ desk[c] \in [op : {"reserve"}, source : Sources, line : Nat \ {0}]
        /\ s \in Sources /\ i \in Nat \ {0}
    BY <1>2, DeskType DEF ReserveLine
  <2>2. i \in DOMAIN LinesOf[s] /\ p = LinesOf[s][i] /\ p \in Products /\ Need[s][p] \in Nat
    <3>1. i <= Len(LinesOf[s]) /\ p = LinesOf[s][i]
      BY <1>2 DEF ReserveLine, LinesLeft, NextProduct
    <3>2. LinesOf[s] \in Seq(Products) /\ Need[s] \in [Products -> Nat]
      BY <2>1, ConstantsAssumption
    <3>3. i \in DOMAIN LinesOf[s]
      BY <2>1, <3>1, <3>2
    <3>4. QED
      BY <3>1, <3>2, <3>3
  <2>3. PICK atp :
          draft' = [draft EXCEPT ![c] = @ \cup
            {[source |-> s, no |-> i, product |-> p,
              warehouse |-> Scope(s), qty |-> q] : q \in Granted(Need[s][p], atp)}]
    BY <1>2 DEF ReserveLine
  <2>4. /\ desk'[c] = [desk[c] EXCEPT !.line = i + 1]
        /\ \A d \in Clerks \ {c} : desk'[d] = desk[d]
    BY <1>2 DEF ReserveLine, TypeOK
  <2>5. desk'[c].source = s /\ desk'[c].line = i + 1 /\ desk'[c].op = "reserve"
    BY <2>1, <2>4
  <2>6. desk'[c] # Free
    <3>1. desk'[c] \in Requests
      BY <2>1, <2>4 DEF Requests
    <3>2. QED
      BY <3>1, FreeAssumption
  <2>7. ASSUME NEW r \in draft'[c]
        PROVE  /\ r.source = s /\ r.no < i + 1 /\ FromLine(r)
               /\ \A t \in draft'[c] : t.no = r.no => t = r
    <3>1. \A t \in draft[c] : t.source = s /\ t.no < i /\ FromLine(t) /\ t \in Rows
      BY DEF OrderInv, OneDraftPerLine, TypeOK
    <3>2. \A t \in draft'[c] : t \in draft[c] \/ \E q \in Granted(Need[s][p], atp) :
             t = [source |-> s, no |-> i, product |-> p, warehouse |-> Scope(s), qty |-> q]
      BY <2>3 DEF TypeOK
    <3>3. \A q \in Granted(Need[s][p], atp) : q <= Need[s][p]
      BY <2>2, GrantedType
    <3>4. CASE r \in draft[c]
      <4>1. \A t \in draft'[c] : t.no = r.no => t \in draft[c]
        BY <2>1, <3>1, <3>2, <3>4 DEF Rows
      <4>2. QED
        BY <2>1, <3>1, <3>4, <4>1 DEF OrderInv, OneDraftPerLine, Rows
    <3>5. ASSUME NEW q \in Granted(Need[s][p], atp),
                 r = [source |-> s, no |-> i, product |-> p, warehouse |-> Scope(s), qty |-> q]
          PROVE  /\ r.source = s /\ r.no < i + 1 /\ FromLine(r)
                 /\ \A t \in draft'[c] : t.no = r.no => t = r
      <4>1. FromLine(r)
        BY <2>2, <3>3, <3>5 DEF FromLine
      <4>2. ASSUME NEW t \in draft'[c], t.no = r.no  PROVE t = r
        <5>1. t \notin draft[c]
          BY <2>1, <3>1, <3>5, <4>2 DEF Rows
        <5>2. QED
          BY <2>2, <3>2, <3>5, <5>1, GrantedOnce
      <4>3. QED
        BY <2>1, <3>5, <4>1, <4>2
    <3>6. QED
      BY <3>2, <3>4, <3>5
  <2>8. OneDraftPerLine'
    <3>1. \A d \in Clerks \ {c} : draft'[d] = draft[d] /\ desk'[d] = desk[d]
      BY <2>3, <2>4 DEF TypeOK
    <3>2. QED
      BY <2>5, <2>6, <2>7, <3>1 DEF OrderInv, OneDraftPerLine, Reserving, Busy, FromLine
  <2>9. QED
    BY <1>2, <2>8 DEF ReserveLine, work, OrderInv, NothingBeforeConfirm, OneRowPerLine,
                      ShippedWithinOrder, FromLine
<1>3. CASE FinishReserve(c)
  <2> DEFINE s == desk[c].source
  <2>1. s \in Sources
    BY <1>3, DeskType DEF FinishReserve
  <2>2. OneDraftPerLine'
    <3>1. draft'[c] = {} /\ \A d \in Clerks \ {c} : draft'[d] = draft[d] /\ desk'[d] = desk[d]
      BY <1>3 DEF FinishReserve, Commit, TypeOK
    <3>2. QED
      BY <3>1 DEF OrderInv, OneDraftPerLine, Reserving, Busy, FromLine
  <2>3. CASE StillNew(s) /\ rows' = rows \cup draft[c] /\ stage' = [stage EXCEPT ![s] = "Open"]
    <3>1. NothingBeforeConfirm'
      <4>1. \A r \in draft[c] : r.source = s
        BY DEF OrderInv, OneDraftPerLine
      <4>2. \A x \in SalesOrders : stage'[x] = "New" => x # s /\ stage[x] = "New"
        BY <2>1, <2>3 DEF TypeOK, Sources
      <4>3. QED
        BY <1>3, <2>3, <4>1, <4>2 DEF FinishReserve, OrderInv, NothingBeforeConfirm
    <3>2. ASSUME NEW r \in rows', r.source \in SalesOrders
          PROVE  /\ FromLine(r) /\ done[r.source][r.product] = 0
                 /\ \A t \in rows' : t.source = r.source /\ t.no = r.no => t = r
      <4>1. \A t \in rows' : t \in rows \/ t \in draft[c]
        BY <2>3
      <4>2. \A t \in draft[c] : t.source = s /\ FromLine(t) /\ t.product \in Products
        BY DEF OrderInv, OneDraftPerLine, TypeOK, Rows
      <4>3. s \in SalesOrders => \A t \in rows : t.source # s
        BY <2>3 DEF OrderInv, NothingBeforeConfirm, StillNew
      <4>4. CASE r \in rows
        <5>1. r.source # s
          BY <3>2, <4>3, <4>4
        <5>2. QED
          BY <3>2, <4>1, <4>2, <4>4, <5>1 DEF OrderInv, OneRowPerLine
      <4>5. CASE r \in draft[c]
        <5>1. r.source = s /\ s \in SalesOrders
          BY <3>2, <4>2, <4>5
        <5>2. done[r.source][r.product] = 0
          BY <2>3, <4>2, <4>5, <5>1 DEF OrderInv, NothingBeforeConfirm, StillNew
        <5>3. \A t \in rows' : t.source = s => t \in draft[c]
          BY <4>1, <4>3, <5>1
        <5>4. QED
          BY <4>2, <4>5, <5>1, <5>2, <5>3 DEF OrderInv, OneDraftPerLine
      <4>6. QED
        BY <3>2, <4>1, <4>4, <4>5
    <3>3. QED
      BY <1>3, <2>2, <3>1, <3>2 DEF FinishReserve, OrderInv, OneRowPerLine,
                                    ShippedWithinOrder, FromLine
  <2>4. CASE rows' = rows /\ UNCHANGED stage
    BY <1>3, <2>2, <2>4 DEF FinishReserve, OrderInv, NothingBeforeConfirm, OneRowPerLine,
                            ShippedWithinOrder, FromLine
  <2>5. QED
    BY <1>3, <2>3, <2>4 DEF FinishReserve, Commit
<1>4. CASE DeadlockVictim(c)
  <2>1. draft'[c] = {} /\ \A d \in Clerks \ {c} : draft'[d] = draft[d] /\ desk'[d] = desk[d]
    BY <1>4 DEF DeadlockVictim, Commit, TypeOK
  <2>2. OneDraftPerLine'
    BY <2>1 DEF OrderInv, OneDraftPerLine, Reserving, Busy, FromLine
  <2>3. QED
    BY <1>4, <2>2 DEF DeadlockVictim, Commit, work, OrderInv, NothingBeforeConfirm,
                      OneRowPerLine, ShippedWithinOrder, FromLine
<1>5. QED
  BY <1>1, <1>2, <1>3, <1>4 DEF ReserveSteps

LEMMA MoveOrder ==
  ASSUME TypeOK, OrderInv, NEW c \in Clerks, MoveSteps(c)
  PROVE  OrderInv'
<1>1. ASSUME desk[c] = Free \/ Busy(c, "take") \/ Busy(c, "return"),
             \A d \in Clerks \ {c} : desk'[d] = desk[d]
      PROVE  \A d \in Clerks : Reserving(d) => d # c /\ desk'[d] = desk[d]
  BY <1>1 DEF Reserving, Busy
<1>2. CASE \/ \E s \in Sources, pl \in Places, q \in Quantity : StartTake(c, s, pl, q)
           \/ CheckTake(c)
           \/ \E s \in WorkOrders, p \in Products, q \in Quantity : StartReturn(c, s, p, q)
  <2>1. /\ desk[c] = Free \/ Busy(c, "take")
        /\ \A d \in Clerks \ {c} : desk'[d] = desk[d]
        /\ UNCHANGED <<rows, draft, done, stage>>
    BY <1>2 DEF StartTake, CheckTake, StartReturn, promised, work, TypeOK
  <2>2. QED
    BY <1>1, <2>1, FewerRows
<1>3. CASE FinishTake(c)
  <2> DEFINE s == desk[c].source
             pl == desk[c].place
             q == desk[c].qty
  <2>1. /\ s \in Sources /\ pl[1] \in Products /\ q \in Nat
        /\ Busy(c, "take") /\ \A d \in Clerks \ {c} : desk'[d] = desk[d]
        /\ UNCHANGED <<draft, stage>>
    <3>1. Busy(c, "take") /\ UNCHANGED <<draft, stage>>
      BY <1>3 DEF FinishTake
    <3>2. s \in Sources /\ pl[1] \in Products /\ q \in Nat
      BY <3>1, DeskType, ConstantsAssumption DEF Places, Quantity
    <3>3. desk' = [desk EXCEPT ![c] = Free]
      BY <1>3 DEF FinishTake
    <3>4. QED
      BY <3>1, <3>2, <3>3 DEF TypeOK
  <2>2. \A d \in Clerks : Reserving(d) => desk'[d] = desk[d]
    BY <1>1, <2>1
  <2>3. OneDraftPerLine'
    BY <2>1, <2>2 DEF OrderInv, OneDraftPerLine, Reserving, Busy, FromLine
  <2>4. CASE s \in SalesOrders /\ ShipmentAllowed(s, pl[1], q) /\ ShipProduct(s, pl, q)
    <3>1. /\ stage[s] = "Open" /\ done[s][pl[1]] + q <= Need[s][pl[1]]
          /\ done' = [done EXCEPT ![s][pl[1]] = @ + q]
          /\ rows' = rows \ {r \in rows : r.source = s /\ r.product = pl[1]}
      BY <2>4 DEF ShipmentAllowed, ShipProduct, FulfillBySourceLine
    <3>2. \A x \in SalesOrders, p \in Products :
             (x # s \/ p # pl[1]) => done'[x][p] = done[x][p]
      BY <3>1 DEF TypeOK, Sources
    <3>3. ShippedWithinOrder'
      <4>1. done'[s][pl[1]] <= Need[s][pl[1]]
        BY <2>1, <2>4, <3>1 DEF TypeOK, Sources
      <4>2. QED
        BY <3>2, <4>1 DEF OrderInv, ShippedWithinOrder
    <3>4. NothingBeforeConfirm'
      <4>1. ASSUME NEW x \in SalesOrders, stage[x] = "New"
            PROVE  x # s /\ (\A r \in rows' : r.source # x) /\ \A p \in Products : done'[x][p] = 0
        BY <3>1, <3>2, <4>1 DEF OrderInv, NothingBeforeConfirm
      <4>2. QED
        BY <2>1, <4>1 DEF NothingBeforeConfirm
    <3>5. OneRowPerLine'
      <4>1. ASSUME NEW r \in rows', r.source \in SalesOrders
            PROVE  /\ FromLine(r) /\ done'[r.source][r.product] = 0
                   /\ \A t \in rows' : t.source = r.source /\ t.no = r.no => t = r
        <5>1. r \in rows /\ (r.source # s \/ r.product # pl[1]) /\ rows' \subseteq rows
          BY <3>1
        <5>2. r.product \in Products
          BY <5>1 DEF TypeOK, Rows
        <5>3. done'[r.source][r.product] = done[r.source][r.product]
          BY <3>2, <4>1, <5>1, <5>2
        <5>4. QED
          BY <4>1, <5>1, <5>3 DEF OrderInv, OneRowPerLine
      <4>2. QED
        BY <4>1 DEF OneRowPerLine, FromLine
    <3>6. QED
      BY <2>3, <3>3, <3>4, <3>5 DEF OrderInv
  <2>5. CASE s \in WorkOrders /\ IssueMaterial(s, pl, q)
    <3>1. \A x \in SalesOrders : x # s /\ done'[x] = done[x]
      BY <2>5, ConstantsAssumption DEF IssueMaterial, TypeOK, Sources
    <3>2. \A r \in rows' : r.source \in SalesOrders => r \in rows
      <4>1. ASSUME NEW t \in rows, NEW r, r = [t EXCEPT !.qty = @ - q], t.source = s
            PROVE  r.source \notin SalesOrders
        BY <3>1, <4>1 DEF TypeOK, Rows
      <4>2. \A r \in rows' :
              r \in rows \/ \E t \in rows : t.source = s /\ r = [t EXCEPT !.qty = @ - q]
        BY <2>5 DEF IssueMaterial, Consume
      <4>3. QED
        BY <4>1, <4>2
    <3>3. QED
      BY <2>1, <2>3, <3>1, <3>2
         DEF OrderInv, NothingBeforeConfirm, OneRowPerLine, ShippedWithinOrder, FromLine
  <2>6. CASE UNCHANGED <<done, rows>>
    BY <2>1, <2>2, <2>6, FewerRows
  <2>7. QED
    BY <1>3, <2>4, <2>5, <2>6 DEF FinishTake
<1>4. CASE FinishReturn(c)
  <2> DEFINE s == desk[c].source
  <2>1. /\ s \in WorkOrders /\ Busy(c, "return")
        /\ \A d \in Clerks \ {c} : desk'[d] = desk[d]
        /\ UNCHANGED <<draft, stage>>
    BY <1>4, DeskType DEF FinishReturn, TypeOK
  <2>2. OneDraftPerLine'
    BY <1>1, <2>1 DEF OrderInv, OneDraftPerLine, Reserving, Busy, FromLine
  <2>3. \A x \in SalesOrders : x # s /\ done'[x] = done[x]
    BY <1>4, <2>1, ConstantsAssumption DEF FinishReturn, TypeOK, Sources
  <2>4. \A r \in rows' : r.source \in SalesOrders => r \in rows
    BY <1>4, <2>3 DEF FinishReturn
  <2>5. QED
    BY <2>1, <2>2, <2>3, <2>4
       DEF OrderInv, NothingBeforeConfirm, OneRowPerLine, ShippedWithinOrder, FromLine
<1>5. QED
  BY <1>2, <1>3, <1>4 DEF MoveSteps

(* However many users confirm, ship and cancel a sales order at once, each  *)
(* of its lines has at most one reservation, and what is reserved and       *)
(* shipped together stays within what was ordered.                          *)
THEOREM OrderNeverExceeded == Spec => []SalesWithinOrder
<1>1. Init => OrderInv
  BY ConstantsAssumption
     DEF Init, OrderInv, NothingBeforeConfirm, OneRowPerLine, OneDraftPerLine,
         ShippedWithinOrder, Sources
<1>2. TypeOK /\ OrderInv /\ [Next]_vars => OrderInv'
  <2> SUFFICES ASSUME TypeOK, OrderInv, [Next]_vars  PROVE OrderInv'
    OBVIOUS
  <2>1. ASSUME NEW c \in Clerks, ReserveSteps(c) \/ MoveSteps(c)  PROVE OrderInv'
    BY <2>1, ReserveOrder, MoveOrder
  <2>2. ASSUME NEW c \in Clerks,
               FinishUnlock(c) \/ \E k \in Locks : StartUnlock(c, k)
        PROVE  OrderInv'
    <3>1. ~Reserving(c) /\ \A d \in Clerks \ {c} : desk'[d] = desk[d]
      BY <2>2 DEF StartUnlock, FinishUnlock, Reserving, Busy, TypeOK
    <3>2. UNCHANGED <<rows, draft, done, stage>>
      BY <2>2 DEF StartUnlock, FinishUnlock, promised, work
    <3>3. QED
      BY <3>1, <3>2, FewerRows
  <2>3. ASSUME NEW s \in Sources, CancelBySource(s)  PROVE OrderInv'
    <3>1. \A x \in SalesOrders : stage'[x] = "New" => stage[x] = "New"
      BY <2>3 DEF CancelBySource, TypeOK, Sources
    <3>2. QED
      BY <2>3, <3>1, FewerRows DEF CancelBySource
  <2>4. ASSUME NEW s \in WorkOrders, ScrapBatch(s)  PROVE OrderInv'
    BY <2>4, FewerRows DEF ScrapBatch, work
  <2>5. CASE UNCHANGED <<rows, draft, done, stage, desk>>
    BY <2>5, FewerRows
  <2>6. QED
    BY <2>1, <2>2, <2>3, <2>4, <2>5
       DEF Next, ReserveSteps, MoveSteps, Receive, Adjust, CreateLock, promised, work, vars
<1>3. QED
  BY <1>1, <1>2, TypeInvariance, OrderInvSuffices, PTL DEF Spec

(***************************************************************************)
(* What is promised fits the stock                                         *)
(***************************************************************************)

(* What the sums of available_atp rest on: the rows of other requests that  *)
(* are not committed yet are of products those requests have locked ...     *)
DraftsLocked ==
  \A c \in Clerks : \A r \in draft[c] :
    mutex[r.product] = c /\ Reserving(c) /\ r.source = desk[c].source

(* ... rows belong to what was confirmed or released, and so does what is   *)
(* returned; a work order is released by one request ...                    *)
RowsOfReleased ==
  /\ \A r \in rows : stage[r.source] # "New"
  /\ \A c \in Clerks : Busy(c, "return") => stage[desk[c].source] # "New"

OneRelease ==
  \A c \in Clerks : Reserving(c) /\ desk[c].source \in WorkOrders =>
    /\ stage[desk[c].source] = "New"
    /\ \A d \in Clerks : Reserving(d) /\ desk[d].source = desk[c].source => d = c

(* ... and there are finitely many rows.                                    *)
RowsFinite == IsFiniteSet(rows) /\ \A c \in Clerks : IsFiniteSet(draft[c])

PromiseInv == DraftsLocked /\ RowsOfReleased /\ OneRelease /\ RowsFinite

QtyOf == [r \in Rows |-> r.qty]

LEMMA QtyType == \A r \in Rows : QtyOf[r] = r.qty /\ QtyOf[r] \in Nat
BY DEF QtyOf, Rows

LEMMA TotalIs ==
  ASSUME NEW R \in SUBSET Rows, IsFiniteSet(R)
  PROVE  Total(R) = SumOver(QtyOf, R) /\ Total(R) \in Nat
<1> DEFINE f == [r \in R |-> r.qty]
<1>1. \A r \in R : QtyOf[r] \in Int /\ f[r] = QtyOf[r]
  BY QtyType
<1>2. SumOver(QtyOf, R) \in Nat
  BY QtyType, SumNat
<1>3. Total(R) = SumOver(f, R)
  BY DEF Total
<1> HIDE DEF f
<1>4. SumOver(f, R) = SumOver(QtyOf, R)
  BY <1>1, SumSame
<1>5. QED
  BY <1>2, <1>3, <1>4

(* A row more *)
LEMMA TotalWith ==
  ASSUME NEW R \in SUBSET Rows, IsFiniteSet(R), NEW r \in Rows
  PROVE  Total(R \cup {r}) <= Total(R) + r.qty
<1>1. IsFiniteSet(R \cup {r}) /\ R \cup {r} \in SUBSET Rows
  BY FS_AddElement
<1>2. /\ Total(R \cup {r}) = SumOver(QtyOf, R \cup {r})
      /\ Total(R) = SumOver(QtyOf, R) /\ Total(R) \in Nat
  BY <1>1, TotalIs
<1>3. r.qty \in Nat /\ QtyOf[r] = r.qty
  BY QtyType
<1>4. CASE r \in R
  <2>1. Total(R \cup {r}) = Total(R)
    <3>1. R \cup {r} = R
      BY <1>4
    <3>2. QED
      BY <3>1
  <2>2. QED
    BY <1>2, <1>3, <2>1
<1>5. CASE r \notin R
  <2>1. \A t \in R \cup {r} : QtyOf[t] \in Int
    BY QtyType
  <2>2. SumOver(QtyOf, R \cup {r}) = QtyOf[r] + SumOver(QtyOf, R)
    BY <1>5, <2>1, SumAdd
  <2>3. QED
    BY <1>2, <1>3, <2>2
<1>6. QED
  BY <1>4, <1>5

LEMMA PlacesFinite ==
  ASSUME NEW p \in Products, NEW w
  PROVE  IsFiniteSet(PlacesIn(p, w)) /\ PlacesIn(p, w) \subseteq Places
<1>1. IsFiniteSet({p} \X Warehouses)
  BY ConstantsAssumption, FS_Singleton, FS_Product
<1>2. PlacesIn(p, w) \in SUBSET ({p} \X Warehouses)
  BY DEF PlacesIn, Places
<1>3. QED
  BY <1>1, <1>2, FS_Subset DEF PlacesIn

LEMMA OnHandType ==
  ASSUME TypeOK, NEW p \in Products, NEW w
  PROVE  OnHand(p, w) \in Int
<1> DEFINE f == [pl \in Places |-> stock[pl] - held[pl]]
<1>1. \A pl \in PlacesIn(p, w) : f[pl] \in Int
  BY PlacesFinite DEF TypeOK
<1>2. OnHand(p, w) = SumOver(f, PlacesIn(p, w))
  BY DEF OnHand
<1> HIDE DEF f
<1>3. QED
  BY <1>1, <1>2, PlacesFinite, SumType

(* A request that has locked a product, or could, reads all that is         *)
(* promised of it.                                                          *)
LEMMA SeesAll ==
  ASSUME TypeOK, DraftsLocked, NEW p \in Products, NEW w, NEW c \in Clerks,
         mutex[p] \in {Free, c}
  PROVE  ReservedIn(Promised, p, w) = ReservedIn(rows \cup draft[c], p, w)
<1>1. \A d \in Clerks : \A r \in draft[d] : r.product = p => d = c
  BY ConstantsAssumption DEF DraftsLocked
<1>2. QED
  BY <1>1 DEF ReservedIn, Promised

LEMMA SeesAllUnlocked ==
  ASSUME TypeOK, DraftsLocked, NEW p \in Products, NEW w, mutex[p] = Free
  PROVE  ReservedIn(Promised, p, w) = ReservedIn(rows, p, w)
<1>1. \A d \in Clerks : \A r \in draft[d] : r.product # p
  BY ConstantsAssumption DEF DraftsLocked
<1>2. QED
  BY <1>1 DEF ReservedIn, Promised

LEMMA ReservedFinite ==
  ASSUME TypeOK, PromiseInv, NEW p \in Products, NEW w
  PROVE  IsFiniteSet(ReservedIn(Promised, p, w)) /\ ReservedIn(Promised, p, w) \in SUBSET Rows
<1>1. ReservedIn(Promised, p, w) \in SUBSET Rows
  BY DEF ReservedIn, Promised, TypeOK
<1>2. CASE mutex[p] = Free
  <2>1. ReservedIn(rows, p, w) \in SUBSET rows
    BY DEF ReservedIn
  <2>2. IsFiniteSet(rows)
    BY DEF PromiseInv, RowsFinite
  <2>3. QED
    BY <1>1, <1>2, <2>1, <2>2, SeesAllUnlocked, FS_Subset DEF PromiseInv
<1>3. ASSUME NEW c \in Clerks, mutex[p] = c  PROVE IsFiniteSet(ReservedIn(Promised, p, w))
  <2>1. ReservedIn(rows \cup draft[c], p, w) \in SUBSET (rows \cup draft[c])
    BY DEF ReservedIn
  <2>2. IsFiniteSet(rows \cup draft[c])
    BY FS_Union DEF PromiseInv, RowsFinite
  <2>3. IsFiniteSet(ReservedIn(rows \cup draft[c], p, w))
    BY <2>1, <2>2, FS_Subset
  <2>4. QED
    BY <1>3, <2>3, SeesAll DEF PromiseInv
<1>4. QED
  BY <1>1, <1>2, <1>3 DEF TypeOK

(* What PromiseFitsStock asks of a step, for a product and a filter         *)
NewPromise(p, w) == \E r \in Promised' \ Promised : r.product = p /\ r.warehouse = w

StillFits(p, w) ==
  \/ Total(ReservedIn(Promised, p, w))' <= OnHand(p, w)'
  \/ Total(ReservedIn(Promised, p, w))' <= Total(ReservedIn(Promised, p, w))

PromiseStep ==
  \A p \in Products, w \in Warehouses \cup {AnyWarehouse} : NewPromise(p, w) => StillFits(p, w)

LEMMA NoNewPromise ==
  ASSUME Promised' \subseteq Promised
  PROVE  PromiseStep
BY DEF PromiseStep, NewPromise

LEMMA ReserveFits ==
  ASSUME TypeOK, PromiseInv, NEW c \in Clerks, ReserveLine(c)
  PROVE  PromiseStep
<1> DEFINE s == desk[c].source
           p == NextProduct(c)
           w == Scope(s)
           atp == AvailableAtp(rows \cup draft[c], p, w)
           Row(q) == [source |-> s, no |-> desk[c].line, product |-> p, warehouse |-> w, qty |-> q]
<1>1. s \in Sources /\ desk[c].line \in Nat \ {0} /\ p \in Products
  <2>1. desk[c] \in [op : {"reserve"}, source : Sources, line : Nat \ {0}]
    BY DeskType DEF ReserveLine
  <2>2. s \in Sources /\ desk[c].line \in Nat \ {0}
    BY <2>1
  <2>3. LinesOf[s] \in Seq(Products) /\ desk[c].line <= Len(LinesOf[s])
    BY <2>2, ConstantsAssumption DEF ReserveLine, LinesLeft
  <2>4. p = LinesOf[s][desk[c].line]
    BY DEF NextProduct
  <2> HIDE DEF s, p
  <2>5. p \in Products
    BY <2>2, <2>3, <2>4
  <2>6. QED
    BY <2>2, <2>5
<1>2. w \in Warehouses \cup {AnyWarehouse} /\ Need[s][p] \in Nat
  BY <1>1, ScopeType, ConstantsAssumption
<1>3. /\ mutex[p] \in {Free, c} /\ UNCHANGED <<stock, held, rows>>
      /\ draft' = [draft EXCEPT ![c] = draft[c] \cup {Row(q) : q \in Granted(Need[s][p], atp)}]
  BY DEF ReserveLine, LockForReserve
<1>4. Promised' = Promised \cup {Row(q) : q \in Granted(Need[s][p], atp)}
  <2> DEFINE New == {Row(q) : q \in Granted(Need[s][p], atp)}
  <2>1. draft' = [draft EXCEPT ![c] = draft[c] \cup New] /\ rows' = rows
    BY <1>3
  <2> HIDE DEF New
  <2>2. draft'[c] = draft[c] \cup New /\ \A d \in Clerks \ {c} : draft'[d] = draft[d]
    BY <2>1 DEF TypeOK
  <2>3. Promised' = Promised \cup New
    BY <2>1, <2>2 DEF Promised
  <2>4. QED
    BY <2>3 DEF New
<1> HIDE DEF s, p, w, atp
<1>5. CASE Granted(Need[s][p], atp) = {}
  BY <1>4, <1>5, NoNewPromise
<1>6. ASSUME NEW q \in Granted(Need[s][p], atp)  PROVE PromiseStep
  <2>1. q \in Nat \ {0} /\ q <= atp
    BY <1>2, <1>6, GrantedType DEF Granted
  <2>2. {Row(g) : g \in Granted(Need[s][p], atp)} = {Row(q)}
    BY <1>2, <1>6, GrantedOnce
  <2>3. /\ Row(q) \in Rows /\ Row(q).product = p /\ Row(q).warehouse = w /\ Row(q).qty = q
    BY <1>1, <1>2, <2>1 DEF Rows
  <2>4. Promised' = Promised \cup {Row(q)}
    BY <1>4, <2>2
  <2>5. ASSUME NEW x \in Products, NEW v \in Warehouses \cup {AnyWarehouse}, NewPromise(x, v)
        PROVE  StillFits(x, v)
    <3> DEFINE r == Row(q)
               R == ReservedIn(Promised, x, v)
    <3>1. x = p /\ v = w
      BY <2>3, <2>4, <2>5 DEF NewPromise
    <3>2. r \in Rows /\ r.product = x /\ r.warehouse = v /\ r.qty = q
      BY <2>3, <3>1
    <3>3. Promised' = Promised \cup {r}
      BY <2>4
    <3> HIDE DEF r
    <3>4. ReservedIn(Promised', x, v) = R \cup {r}
      BY <3>2, <3>3 DEF ReservedIn
    <3>5. R \in SUBSET Rows /\ IsFiniteSet(R)
      BY ReservedFinite
    <3>6. R = ReservedIn(rows \cup draft[c], x, v)
      BY <1>3, <3>1, SeesAll DEF PromiseInv
    <3>7. q <= OnHand(x, v) - Total(R)
      BY <2>1, <3>1, <3>6 DEF atp, AvailableAtp
    <3> HIDE DEF R
    <3>8. Total(R \cup {r}) <= Total(R) + q /\ Total(R) \in Nat /\ Total(R \cup {r}) \in Nat
      <4>1. R \cup {r} \in SUBSET Rows /\ IsFiniteSet(R \cup {r})
        BY <3>2, <3>5, FS_AddElement
      <4>2. QED
        BY <3>2, <3>5, <4>1, TotalWith, TotalIs
    <3>9. Total(R \cup {r}) <= OnHand(x, v)
      BY <2>1, <3>7, <3>8, OnHandType
    <3>10. OnHand(x, v)' = OnHand(x, v)
      BY <1>3 DEF OnHand
    <3>11. Total(ReservedIn(Promised', x, v)) <= OnHand(x, v)'
      BY <3>4, <3>9, <3>10
    <3>12. QED
      BY <3>11 DEF StillFits, Total, ReservedIn
  <2>6. QED
    BY <2>5 DEF PromiseStep
<1>7. QED
  BY <1>5, <1>6

(* The rows an issue takes from become smaller, and nothing else changes.   *)
LEMMA ConsumeFits ==
  ASSUME TypeOK, PromiseInv, NEW s \in WorkOrders, NEW p \in Products, NEW q \in Nat \ {0},
         rows' = Consume(s, p, q), UNCHANGED draft
  PROVE  PromiseStep
<1> DEFINE hit == {r \in rows : r.source = s /\ r.product = p /\ r.qty >= q}
           Less(t) == [t EXCEPT !.qty = @ - q]
           more == {t \in hit : t.qty > q}
<1>1. rows' = (rows \ hit) \cup {Less(t) : t \in more}
  BY DEF Consume
<1>2. \A c \in Clerks : \A r \in draft[c] : r.source # s \/ hit = {}
  <2> SUFFICES ASSUME NEW c \in Clerks, NEW r \in draft[c], r.source = s, NEW h \in hit
               PROVE  FALSE
    OBVIOUS
  <2>1. stage[s] # "New"
    BY DEF PromiseInv, RowsOfReleased
  <2>2. Reserving(c) /\ desk[c].source = s
    BY DEF PromiseInv, DraftsLocked
  <2>3. QED
    BY <2>1, <2>2 DEF PromiseInv, OneRelease
<1>3. hit \subseteq rows /\ \A c \in Clerks : draft[c] \cap hit = {}
  BY <1>2
<1>4. \A t \in more : /\ Less(t) \in Rows
                      /\ Less(t).product = t.product /\ Less(t).warehouse = t.warehouse
                      /\ Less(t).qty <= t.qty /\ t.qty \in Nat /\ t \in Rows
  <2> SUFFICES ASSUME NEW t \in more
               PROVE  /\ Less(t) \in Rows
                      /\ Less(t).product = t.product /\ Less(t).warehouse = t.warehouse
                      /\ Less(t).qty <= t.qty /\ t.qty \in Nat /\ t \in Rows
    OBVIOUS
  <2>1. t \in Rows /\ t.qty \in Nat /\ t.qty > q
    BY DEF TypeOK, Rows
  <2>2. t.qty - q \in Nat \ {0} /\ t.qty - q <= t.qty
    BY <2>1
  <2>3. QED
    BY <2>1, <2>2 DEF Rows
<1>5. Promised' = (Promised \ hit) \cup {Less(t) : t \in more}
  <2> DEFINE Fewer == {Less(t) : t \in more}
  <2>1. rows' = (rows \ hit) \cup Fewer
    BY <1>1
  <2> HIDE DEF Fewer, hit
  <2>2. Promised' = (Promised \ hit) \cup Fewer
    BY <1>3, <2>1 DEF Promised
  <2>3. QED
    BY <2>2 DEF Fewer
<1>6. hit \subseteq Promised /\ more \subseteq hit
  BY <1>3 DEF Promised
<1> HIDE DEF hit, more, Less
<1>7. ASSUME NEW x \in Products, NEW v \in Warehouses \cup {AnyWarehouse}
      PROVE  StillFits(x, v)
  <2> DEFINE All == ReservedIn(Promised, x, v)
             A == ReservedIn(Promised \ hit, x, v)
             H == ReservedIn(hit, x, v)
             T == ReservedIn(more, x, v)
             m == [t \in T |-> Less(t)]
             I == {m[t] : t \in T}
  <2>1. All = A \cup H /\ A \cap H = {} /\ T \subseteq H
    BY <1>6 DEF ReservedIn
  <2>2. ReservedIn(Promised', x, v) = A \cup I
    <3>1. ASSUME NEW r
          PROVE  r \in ReservedIn(Promised', x, v) <=> r \in A \/ \E t \in T : r = Less(t)
      BY <1>4, <1>5 DEF ReservedIn
    <3>2. QED
      BY <3>1
  <2>3. All \in SUBSET Rows /\ IsFiniteSet(All)
    BY ReservedFinite
  <2>4. T \in SUBSET more
    BY DEF ReservedIn
  <2>5. \A t \in T : /\ QtyOf[t] = t.qty /\ QtyOf[t] \in Nat
                     /\ m[t] \in Rows /\ QtyOf[m[t]] \in Nat /\ QtyOf[m[t]] <= QtyOf[t]
    <3> SUFFICES ASSUME NEW t \in T
                 PROVE  /\ QtyOf[t] = t.qty /\ QtyOf[t] \in Nat
                        /\ m[t] \in Rows /\ QtyOf[m[t]] \in Nat /\ QtyOf[m[t]] <= QtyOf[t]
      OBVIOUS
    <3>1. t \in Rows /\ Less(t) \in Rows /\ Less(t).qty <= t.qty
      BY <1>4, <2>4
    <3>2. /\ QtyOf[t] = t.qty /\ QtyOf[t] \in Nat
          /\ QtyOf[Less(t)] = Less(t).qty /\ QtyOf[Less(t)] \in Nat
      BY <3>1, QtyType
    <3>3. m[t] = Less(t)
      OBVIOUS
    <3>4. QED
      BY <3>1, <3>2, <3>3
  <2> HIDE DEF All, A, H, T, m
  <2>6. /\ A \in SUBSET Rows /\ H \in SUBSET Rows /\ T \in SUBSET H
        /\ IsFiniteSet(A) /\ IsFiniteSet(H) /\ IsFiniteSet(T)
    <3>1. A \in SUBSET All /\ H \in SUBSET All /\ T \in SUBSET All
      BY <2>1
    <3>2. QED
      BY <2>1, <2>3, <3>1, FS_Subset
  <2>7. I \in SUBSET Rows /\ IsFiniteSet(I)
    BY <2>5, <2>6, FiniteImage
  <2>8. SumOver(QtyOf, I) <= SumOver(QtyOf, T)
    BY <2>5, <2>6, SumImage
  <2> HIDE DEF I
  <2>9. \A r \in A \cup H \cup I : QtyOf[r] \in Nat
    BY <2>6, <2>7, QtyType
  <2>10. SumOver(QtyOf, T) <= SumOver(QtyOf, H)
    BY <2>6, <2>9, SumSubset
  <2>11. SumOver(QtyOf, A \cup I) <= SumOver(QtyOf, A) + SumOver(QtyOf, I)
    BY <2>6, <2>7, <2>9, SumOfBoth
  <2>12. SumOver(QtyOf, A \cup H) = SumOver(QtyOf, A) + SumOver(QtyOf, H)
    <3>1. \A r \in A \cup H : QtyOf[r] \in Int
      BY <2>9
    <3>2. QED
      BY <2>1, <2>6, <3>1, SumUnion
  <2>13. /\ Total(A \cup I) = SumOver(QtyOf, A \cup I) /\ Total(A \cup I) \in Nat
         /\ Total(All) = SumOver(QtyOf, A \cup H)
    <3>1. A \cup I \in SUBSET Rows /\ IsFiniteSet(A \cup I)
      BY <2>6, <2>7, FS_Union
    <3>2. QED
      BY <2>1, <2>3, <3>1, TotalIs
  <2>14. /\ SumOver(QtyOf, A) \in Nat /\ SumOver(QtyOf, H) \in Nat
         /\ SumOver(QtyOf, I) \in Nat /\ SumOver(QtyOf, T) \in Nat
    <3>1. \A r \in T : QtyOf[r] \in Nat
      BY <2>6, <2>9
    <3>2. QED
      BY <2>6, <2>7, <2>9, <3>1, SumNat
  <2>15. Total(A \cup I) <= Total(All)
    BY <2>8, <2>10, <2>11, <2>12, <2>13, <2>14
  <2>16. Total(ReservedIn(Promised', x, v)) <= Total(ReservedIn(Promised, x, v))
    BY <2>2, <2>15 DEF All
  <2>17. QED
    BY <2>16 DEF StillFits, Total, ReservedIn
<1>8. QED
  BY <1>7 DEF PromiseStep

(* What comes back is counted before it is promised again.                  *)
LEMMA ReturnFits ==
  ASSUME TypeOK, PromiseInv, NEW c \in Clerks, FinishReturn(c)
  PROVE  PromiseStep
<1>1. PICK s \in WorkOrders, pl \in Places, q \in Quantity, n \in Nat :
        desk[c].source = s /\ desk[c].place = pl /\ desk[c].qty = q /\ desk[c].no = n
  BY DeskType DEF FinishReturn
<1>2. PICK p \in Products, w \in Warehouses : pl = <<p, w>>
  BY DEF Places
<1> DEFINE atp == AvailableAtp(rows, p, w) + q
           Row(g) == [source |-> s, no |-> Len(LinesOf[s]) + n, product |-> p,
                      warehouse |-> w, qty |-> g]
<1>3. /\ mutex[p] = Free /\ stock' = [stock EXCEPT ![pl] = stock[pl] + q]
      /\ rows' = rows \cup {Row(g) : g \in Granted(q, atp)} /\ UNCHANGED <<held, draft>>
  BY <1>1, <1>2 DEF FinishReturn, Move
<1>4. q \in Nat /\ Len(LinesOf[s]) \in Nat /\ s \in Sources
  BY ConstantsAssumption DEF Quantity, Sources
<1>5. Promised' = Promised \cup {Row(g) : g \in Granted(q, atp)}
  BY <1>3 DEF Promised
<1>6. CASE Granted(q, atp) = {}
  BY <1>5, <1>6, NoNewPromise
<1>7. ASSUME NEW g \in Granted(q, atp)  PROVE PromiseStep
  <2>1. g \in Nat \ {0} /\ g <= atp
    BY <1>4, <1>7, GrantedType DEF Granted
  <2>2. {Row(h) : h \in Granted(q, atp)} = {Row(g)}
    BY <1>4, <1>7, GrantedOnce
  <2> DEFINE r == Row(g)
             R == ReservedIn(rows, p, w)
  <2>3. r \in Rows /\ r.product = p /\ r.warehouse = w /\ r.qty = g
    BY <1>4, <2>1 DEF Rows
  <2>4. Promised' = Promised \cup {r}
    BY <1>5, <2>2
  <2> HIDE DEF r
  <2>5. ReservedIn(Promised', p, w) = R \cup {r}
    <3>1. ReservedIn(Promised, p, w) = R
      BY <1>3, SeesAllUnlocked DEF PromiseInv
    <3>2. QED
      BY <2>3, <2>4, <3>1 DEF ReservedIn
  <2>6. R \in SUBSET Rows /\ IsFiniteSet(R)
    <3>1. R \in SUBSET rows
      BY DEF ReservedIn
    <3>2. QED
      BY <3>1, FS_Subset DEF PromiseInv, RowsFinite, TypeOK
  <2>7. g <= OnHand(p, w) - Total(R) + q
    BY <2>1 DEF AvailableAtp
  <2>8. OnHand(p, w)' = OnHand(p, w) + q
    <3> DEFINE f == [x \in Places |-> stock[x] - held[x]]
               h == [x \in Places |-> stock'[x] - held'[x]]
               P == PlacesIn(p, w)
    <3>1. IsFiniteSet(P) /\ P \subseteq Places /\ pl \in P
      BY <1>2, PlacesFinite DEF PlacesIn
    <3>2. stock'[pl] = stock[pl] + q /\ \A x \in Places \ {pl} : stock'[x] = stock[x]
      BY <1>3 DEF TypeOK
    <3>3. /\ \A x \in P : f[x] \in Int /\ h[x] \in Int
          /\ \A x \in P \ {pl} : h[x] = f[x]
          /\ h[pl] - f[pl] = q
      BY <1>3, <1>4, <3>1, <3>2 DEF TypeOK
    <3>4. OnHand(p, w) = SumOver(f, P) /\ OnHand(p, w)' = SumOver(h, P)
      BY DEF OnHand, PlacesIn
    <3> HIDE DEF f, h, P
    <3>5. SumOver(h, P) = SumOver(f, P) + (h[pl] - f[pl])
      BY <3>1, <3>3, SumUpdate
    <3>6. QED
      BY <3>3, <3>4, <3>5
  <2> HIDE DEF R
  <2>9. Total(R \cup {r}) <= Total(R) + g /\ Total(R) \in Nat /\ Total(R \cup {r}) \in Nat
    <3>1. R \cup {r} \in SUBSET Rows /\ IsFiniteSet(R \cup {r})
      BY <2>3, <2>6, FS_AddElement
    <3>2. QED
      BY <2>3, <2>6, <3>1, TotalWith, TotalIs
  <2>10. Total(R \cup {r}) <= OnHand(p, w)'
    <3>1. OnHand(p, w) \in Int
      BY OnHandType
    <3>2. Total(R \cup {r}) <= OnHand(p, w) + q
      BY <1>4, <2>1, <2>7, <2>9, <3>1
    <3>3. QED
      BY <2>8, <3>2
  <2>11. ASSUME NEW x \in Products, NEW v \in Warehouses \cup {AnyWarehouse}, NewPromise(x, v)
         PROVE  StillFits(x, v)
    <3>1. x = p /\ v = w
      BY <2>3, <2>4, <2>11 DEF NewPromise
    <3>2. Total(ReservedIn(Promised', x, v)) <= OnHand(x, v)'
      BY <2>5, <2>10, <3>1
    <3>3. QED
      BY <3>2 DEF StillFits, Total, ReservedIn
  <2>12. QED
    BY <2>11 DEF PromiseStep
<1>8. QED
  BY <1>6, <1>7

(***************************************************************************)
(* ... because every request sees the rows of the products it has locked   *)
(***************************************************************************)

(* A step of a request that reserves nothing, or of no request.             *)
LEMMA RowsKeep ==
  ASSUME TypeOK, PromiseInv, UNCHANGED <<draft, mutex>>,
         IsFiniteSet(rows'), rows' \subseteq Rows, \A r \in rows' : stage[r.source] # "New",
         \A s \in Sources : stage'[s] = "New" => stage[s] = "New",
         \A s \in WorkOrders : stage[s] = "New" => stage'[s] = "New",
         \A c \in Clerks : \/ desk'[c] = desk[c]
                           \/ /\ ~Reserving(c) /\ ~Reserving(c)'
                              /\ Busy(c, "return")' => /\ desk'[c].source \in Sources
                                                       /\ stage[desk'[c].source] # "New"
  PROVE  PromiseInv'
<1>1. \A c \in Clerks : Reserving(c) <=> Reserving(c)'
  BY DEF Reserving, Busy
<1>2. \A c \in Clerks : Reserving(c) => desk'[c] = desk[c]
  OBVIOUS
<1>3. DraftsLocked'
  BY <1>1, <1>2 DEF PromiseInv, DraftsLocked
<1>4. \A r \in rows' : stage'[r.source] # "New"
  BY DEF Rows
<1>5. \A c \in Clerks : Busy(c, "return")' => stage'[desk'[c].source] # "New"
  <2> SUFFICES ASSUME NEW c \in Clerks, Busy(c, "return")'
               PROVE  desk'[c].source \in Sources /\ stage[desk'[c].source] # "New"
    OBVIOUS
  <2>1. CASE desk'[c] = desk[c]
    <3>1. Busy(c, "return")
      BY <2>1 DEF Busy
    <3>2. desk[c].source \in Sources
      BY <3>1, DeskType DEF Sources
    <3>3. QED
      BY <2>1, <3>1, <3>2 DEF PromiseInv, RowsOfReleased
  <2>2. QED
    BY <2>1
<1>6. OneRelease'
  BY <1>1, <1>2 DEF PromiseInv, OneRelease
<1>7. QED
  BY <1>3, <1>4, <1>5, <1>6 DEF PromiseInv, RowsOfReleased, RowsFinite

(* The step of a request ends with a commit or a rollback, and its locks    *)
(* with it.                                                                 *)
LEMMA CommitKeeps ==
  ASSUME TypeOK, PromiseInv, NEW c \in Clerks, NEW R \in SUBSET Rows, Commit(c, R),
         IsFiniteSet(R), \A r \in R : stage'[r.source] # "New",
         Reserving(c), desk' = [desk EXCEPT ![c] = Free],
         \A s \in Sources : stage'[s] = "New" => stage[s] = "New",
         \A s \in WorkOrders : stage[s] = "New" => s = desk[c].source \/ stage'[s] = "New"
  PROVE  PromiseInv'
<1>1. /\ draft'[c] = {} /\ \A d \in Clerks \ {c} : draft'[d] = draft[d]
      /\ ~Reserving(c)' /\ ~Busy(c, "return")'
      /\ \A d \in Clerks \ {c} : desk'[d] = desk[d]
  BY DEF Commit, TypeOK, Reserving, Busy
<1>2. \A p \in Products, d \in Clerks \ {c} : mutex[p] = d => mutex'[p] = d
  BY DEF Commit, ReleaseMutex
<1>3. \A d \in Clerks \ {c} : Reserving(d) <=> Reserving(d)'
  BY <1>1 DEF Reserving, Busy
<1>4. DraftsLocked'
  <2>1. \A d \in Clerks : \A r \in draft[d] : r.product \in Products
    BY DEF TypeOK, Rows
  <2>2. QED
    BY <1>1, <1>2, <1>3, <2>1 DEF PromiseInv, DraftsLocked
<1>5. \A d \in Clerks : Busy(d, "return")' => stage'[desk'[d].source] # "New"
  <2> SUFFICES ASSUME NEW d \in Clerks, Busy(d, "return")'
               PROVE  stage'[desk'[d].source] # "New"
    OBVIOUS
  <2>1. desk'[d] = desk[d] /\ Busy(d, "return")
    BY <1>1 DEF Busy
  <2>2. desk[d].source \in Sources
    BY <2>1, DeskType DEF Sources
  <2>3. QED
    BY <2>1, <2>2 DEF PromiseInv, RowsOfReleased
<1>6. OneRelease'
  <2> SUFFICES ASSUME NEW d \in Clerks, Reserving(d)', desk'[d].source \in WorkOrders
               PROVE  /\ stage'[desk'[d].source] = "New"
                      /\ \A e \in Clerks : Reserving(e)' /\ desk'[e].source = desk'[d].source
                                             => e = d
    BY DEF OneRelease
  <2>1. d # c /\ desk'[d] = desk[d] /\ Reserving(d)
    BY <1>1, <1>3
  <2>2. /\ stage[desk[d].source] = "New" /\ desk[c].source # desk[d].source
        /\ \A e \in Clerks : Reserving(e) /\ desk[e].source = desk[d].source => e = d
    BY <2>1 DEF PromiseInv, OneRelease
  <2>3. QED
    BY <1>1, <1>3, <2>1, <2>2
<1>7. RowsFinite'
  BY <1>1, FS_EmptySet DEF PromiseInv, RowsFinite, Commit
<1>8. QED
  BY <1>4, <1>5, <1>6, <1>7 DEF PromiseInv, RowsOfReleased, Commit

LEMMA OneIsFinite ==
  ASSUME NEW S, \A r, t \in S : r = t
  PROVE  IsFiniteSet(S)
<1>1. CASE S = {}
  BY <1>1, FS_EmptySet
<1>2. ASSUME NEW r \in S  PROVE IsFiniteSet(S)
  <2>1. S = {r}
    OBVIOUS
  <2>2. QED
    BY <2>1, FS_Singleton
<1>3. QED
  BY <1>1, <1>2

LEMMA ReserveKeeps ==
  ASSUME TypeOK, PromiseInv, NEW c \in Clerks, ReserveSteps(c)
  PROVE  PromiseInv' /\ PromiseStep
<1>1. ASSUME NEW s \in Sources, StartReserve(c, s)  PROVE PromiseInv' /\ PromiseStep
  <2>1. /\ desk[c] = Free /\ stage[s] = "New" /\ UNCHANGED <<rows, draft, mutex, stage>>
        /\ s \in WorkOrders => \A d \in Clerks : Reserving(d) => desk[d].source # s
        /\ desk' = [desk EXCEPT ![c] = [op |-> "reserve", source |-> s, line |-> 1]]
    BY <1>1 DEF StartReserve, promised, work
  <2>2. /\ desk'[c].op = "reserve" /\ desk'[c].source = s /\ ~Reserving(c)
        /\ \A d \in Clerks \ {c} : desk'[d] = desk[d]
    BY <2>1 DEF TypeOK, Reserving, Busy
  <2>3. DraftsLocked'
    BY <2>1, <2>2 DEF PromiseInv, DraftsLocked, Reserving, Busy
  <2>4. RowsOfReleased'
    BY <2>1, <2>2 DEF PromiseInv, RowsOfReleased, Busy
  <2>5. \A d \in Clerks \ {c} : Reserving(d)' <=> Reserving(d)
    BY <2>2 DEF Reserving, Busy
  <2>6. OneRelease'
    BY <2>1, <2>2, <2>5 DEF PromiseInv, OneRelease
  <2>7. RowsFinite' /\ Promised' \subseteq Promised
    BY <2>1 DEF PromiseInv, RowsFinite, Promised
  <2>8. QED
    BY <2>3, <2>4, <2>6, <2>7, NoNewPromise DEF PromiseInv
<1>2. CASE ReserveLine(c)
  <2>1. PICK s \in Sources, i \in Nat \ {0} : desk[c] = [op |-> "reserve", source |-> s, line |-> i]
    <3>1. desk[c] \in [op : {"reserve"}, source : Sources, line : Nat \ {0}]
      BY <1>2, DeskType DEF ReserveLine
    <3>2. QED
      BY <3>1
  <2> DEFINE p == NextProduct(c)
             atp == AvailableAtp(rows \cup draft[c], p, Scope(s))
             New == {[source |-> s, no |-> i, product |-> p, warehouse |-> Scope(s), qty |-> q] :
                       q \in Granted(Need[s][p], atp)}
  <2>2. /\ mutex[p] \in {Free, c} /\ mutex' = [mutex EXCEPT ![p] = c]
        /\ draft' = [draft EXCEPT ![c] = draft[c] \cup New]
        /\ p \in Products
    <3>1. LinesOf[s] \in Seq(Products) /\ i <= Len(LinesOf[s])
      BY <1>2, <2>1, ConstantsAssumption DEF ReserveLine, LinesLeft
    <3>2. NextProduct(c) \in Products
      BY <2>1, <3>1 DEF NextProduct
    <3>3. desk[c].source = s /\ desk[c].line = i
      BY <2>1
    <3>4. QED
      BY <1>2, <3>2, <3>3 DEF ReserveLine, LockForReserve
  <2> HIDE DEF p, atp
  <2>3. (\A r \in New : r.source = s /\ r.product = p) /\ IsFiniteSet(New)
    <3>1. Need[s][p] \in Nat
      BY <2>2, ConstantsAssumption
    <3>2. \A q, h \in Granted(Need[s][p], atp) : q = h
      BY <3>1, GrantedOnce
    <3>3. \A r, t \in New : r = t
      BY <3>2
    <3>4. IsFiniteSet(New)
      BY <3>3, OneIsFinite
    <3>5. QED
      BY <3>4
  <2>4. draft'[c] = draft[c] \cup New /\ \A d \in Clerks \ {c} : draft'[d] = draft[d]
    BY <2>2 DEF TypeOK
  <2> HIDE DEF New
  <2>5. /\ desk'[c] = [op |-> "reserve", source |-> s, line |-> i + 1]
        /\ \A d \in Clerks \ {c} : desk'[d] = desk[d]
        /\ UNCHANGED <<rows, stage>>
    BY <1>2, <2>1 DEF ReserveLine, TypeOK, work
  <2>6. Reserving(c) /\ Reserving(c)' /\ desk'[c].source = s /\ desk[c].source = s
    <3>1. desk'[c] \in Requests
      BY <2>1, <2>5 DEF Requests
    <3>2. QED
      BY <1>2, <2>1, <2>5, <3>1, FreeAssumption DEF ReserveLine, Reserving, Busy
  <2>7. \A d \in Clerks : /\ Reserving(d)' <=> Reserving(d)
                          /\ Reserving(d) => desk'[d].source = desk[d].source
    BY <2>5, <2>6 DEF Reserving, Busy
  <2>8. DraftsLocked'
    <3>1. mutex'[p] = c /\ \A x \in Products \ {p} : mutex'[x] = mutex[x]
      BY <2>2 DEF TypeOK
    <3>2. \A d \in Clerks : \A r \in draft[d] : r.product \in Products
      BY DEF TypeOK, Rows
    <3>3. \A d \in Clerks \ {c} : \A r \in draft[d] : r.product # p
      BY <2>2, ConstantsAssumption DEF PromiseInv, DraftsLocked
    <3>4. ASSUME NEW d \in Clerks, NEW r \in draft'[d]
          PROVE  mutex'[r.product] = d /\ Reserving(d)' /\ r.source = desk'[d].source
      <4>1. CASE d = c /\ r \in New
        BY <2>3, <2>6, <3>1, <4>1
      <4>2. CASE r \in draft[d]
        <5>1. mutex[r.product] = d /\ Reserving(d) /\ r.source = desk[d].source
          BY <4>2 DEF PromiseInv, DraftsLocked
        <5>2. mutex'[r.product] = d
          BY <3>1, <3>2, <3>3, <4>2, <5>1
        <5>3. QED
          BY <2>7, <5>1, <5>2
      <4>3. QED
        BY <2>4, <4>1, <4>2
    <3>5. QED
      BY <3>4 DEF DraftsLocked
  <2>9. RowsOfReleased'
    <3>1. \A d \in Clerks : Busy(d, "return")' => d # c
      BY <2>5 DEF Busy
    <3>2. QED
      BY <2>5, <3>1 DEF PromiseInv, RowsOfReleased, Busy
  <2>10. OneRelease'
    BY <2>5, <2>7 DEF PromiseInv, OneRelease
  <2>11. RowsFinite'
    <3>1. IsFiniteSet(draft[c] \cup New)
      BY <2>3, FS_Union DEF PromiseInv, RowsFinite
    <3>2. QED
      BY <2>4, <2>5, <3>1 DEF PromiseInv, RowsFinite
  <2>12. QED
    BY <1>2, <2>8, <2>9, <2>10, <2>11, ReserveFits DEF PromiseInv
<1>3. CASE FinishReserve(c)
  <2> DEFINE s == desk[c].source
  <2>1. Reserving(c) /\ s \in Sources /\ desk' = [desk EXCEPT ![c] = Free]
    BY <1>3, DeskType DEF FinishReserve
  <2>2. CASE stage[s] = "New" /\ Commit(c, rows \cup draft[c]) /\ stage' = [stage EXCEPT ![s] = "Open"]
    <3>1. IsFiniteSet(rows \cup draft[c]) /\ rows \cup draft[c] \in SUBSET Rows
      BY FS_Union DEF PromiseInv, RowsFinite, TypeOK
    <3>2. stage'[s] = "Open" /\ \A x \in Sources : x # s => stage'[x] = stage[x]
      BY <2>1, <2>2 DEF TypeOK
    <3>3. \A r \in rows \cup draft[c] : stage'[r.source] # "New"
      <4>1. \A r \in rows : r.source \in Sources
        BY DEF TypeOK, Rows
      <4>2. QED
        BY <2>2, <3>2, <4>1 DEF PromiseInv, RowsOfReleased, DraftsLocked
    <3>4. PromiseInv'
      BY <2>1, <2>2, <3>1, <3>2, <3>3, CommitKeeps DEF Sources
    <3>5. Promised' \subseteq Promised
      <4>1. rows' = rows \cup draft[c] /\ \A d \in Clerks : draft'[d] \subseteq draft[d]
        BY <2>2 DEF Commit, TypeOK
      <4>2. QED
        BY <4>1 DEF Promised
    <3>6. QED
      BY <3>4, <3>5, NoNewPromise
  <2>3. CASE Commit(c, rows) /\ UNCHANGED stage
    <3>1. IsFiniteSet(rows) /\ rows \in SUBSET Rows /\ \A r \in rows : stage'[r.source] # "New"
      BY <2>3 DEF PromiseInv, RowsFinite, RowsOfReleased, TypeOK
    <3>2. PromiseInv'
      BY <2>1, <2>3, <3>1, CommitKeeps
    <3>3. Promised' \subseteq Promised
      <4>1. rows' = rows /\ \A d \in Clerks : draft'[d] \subseteq draft[d]
        BY <2>3 DEF Commit, TypeOK
      <4>2. QED
        BY <4>1 DEF Promised
    <3>4. QED
      BY <3>2, <3>3, NoNewPromise
  <2>4. QED
    BY <1>3, <2>2, <2>3 DEF FinishReserve, StillNew
<1>4. CASE DeadlockVictim(c)
  <2>1. Reserving(c) /\ desk' = [desk EXCEPT ![c] = Free] /\ Commit(c, rows) /\ UNCHANGED stage
    BY <1>4 DEF DeadlockVictim, WaitsFor, work
  <2>2. IsFiniteSet(rows) /\ rows \in SUBSET Rows /\ \A r \in rows : stage'[r.source] # "New"
    BY <2>1 DEF PromiseInv, RowsFinite, RowsOfReleased, TypeOK
  <2>3. PromiseInv'
    BY <2>1, <2>2, CommitKeeps
  <2>4. Promised' \subseteq Promised
    <3>1. rows' = rows /\ \A d \in Clerks : draft'[d] \subseteq draft[d]
      BY <2>1 DEF Commit, TypeOK
    <3>2. QED
      BY <3>1 DEF Promised
  <2>5. QED
    BY <2>3, <2>4, NoNewPromise
<1>5. QED
  BY <1>1, <1>2, <1>3, <1>4 DEF ReserveSteps

LEMMA ConsumeFinite ==
  ASSUME TypeOK, IsFiniteSet(rows), NEW s \in Sources, NEW p \in Products, NEW q \in Nat
  PROVE  IsFiniteSet(Consume(s, p, q))
<1> DEFINE hit == {r \in rows : r.source = s /\ r.product = p /\ r.qty >= q}
           more == {t \in hit : t.qty > q}
           less == [r \in more |-> [r EXCEPT !.qty = @ - q]]
<1>1. rows \ hit \in SUBSET rows /\ more \in SUBSET rows
  OBVIOUS
<1>2. IsFiniteSet(rows \ hit) /\ IsFiniteSet(more)
  BY <1>1, FS_Subset
<1>3. Consume(s, p, q) = (rows \ hit) \cup {less[r] : r \in more}
  BY DEF Consume
<1> HIDE DEF hit, more, less
<1>4. IsFiniteSet({less[r] : r \in more})
  BY <1>2, FiniteImage
<1>5. QED
  BY <1>2, <1>3, <1>4, FS_Union

LEMMA MoveKeeps ==
  ASSUME TypeOK, PromiseInv, NEW c \in Clerks, MoveSteps(c)
  PROVE  PromiseInv' /\ PromiseStep
<1>0. /\ IsFiniteSet(rows) /\ rows \subseteq Rows
      /\ \A r \in rows : stage[r.source] # "New"
  BY DEF PromiseInv, RowsFinite, RowsOfReleased, TypeOK
<1>1. CASE (\E s \in Sources, pl \in Places, q \in Quantity : StartTake(c, s, pl, q)) \/ CheckTake(c)
  <2>1. /\ UNCHANGED <<rows, draft, mutex, stage>>
        /\ \A d \in Clerks \ {c} : desk'[d] = desk[d]
        /\ ~Reserving(c) /\ ~Reserving(c)' /\ ~Busy(c, "return")'
    <3>1. CASE \E s \in Sources, pl \in Places, q \in Quantity : StartTake(c, s, pl, q)
      <4>1. desk[c] = Free /\ desk'[c].op = "take"
        BY <3>1 DEF StartTake, TypeOK
      <4>2. QED
        BY <3>1, <4>1 DEF StartTake, promised, work, TypeOK, Reserving, Busy
    <3>2. CASE CheckTake(c)
      <4>1. /\ desk[c] \in [op : {"take"}, source : Sources, place : Places, qty : Quantity,
                            checked : BOOLEAN]
            /\ Busy(c, "take")
        BY <3>2, DeskType DEF CheckTake
      <4>2. desk'[c] = Free \/ desk'[c] = [desk[c] EXCEPT !.checked = TRUE]
        BY <3>2 DEF CheckTake, TypeOK
      <4>3. desk'[c] = Free \/ desk'[c].op = "take"
        BY <4>1, <4>2
      <4>4. UNCHANGED <<rows, draft, mutex, stage>> /\ \A d \in Clerks \ {c} : desk'[d] = desk[d]
        BY <3>2 DEF CheckTake, TypeOK, promised, work
      <4>5. QED
        BY <4>1, <4>3, <4>4 DEF Reserving, Busy
    <3>3. QED
      BY <1>1, <3>1, <3>2
  <2>2. PromiseInv'
    BY <1>0, <2>1, RowsKeep
  <2>3. Promised' \subseteq Promised
    BY <2>1 DEF Promised
  <2>4. QED
    BY <2>2, <2>3, NoNewPromise
<1>2. CASE FinishTake(c)
  <2>1. PICK s \in Sources, pl \in Places, q \in Quantity :
          desk[c].source = s /\ desk[c].place = pl /\ desk[c].qty = q
    BY <1>2, DeskType DEF FinishTake
  <2>2. q \in Nat \ {0} /\ pl[1] \in Products
    BY ConstantsAssumption DEF Quantity, Places
  <2>3. /\ UNCHANGED <<draft, mutex, stage>>
        /\ \A d \in Clerks \ {c} : desk'[d] = desk[d]
        /\ ~Reserving(c) /\ ~Reserving(c)' /\ ~Busy(c, "return")'
    BY <1>2 DEF FinishTake, TypeOK, Reserving, Busy
  <2>4. CASE rows' = FulfillBySourceLine(s, pl[1]) \/ rows' = rows
    <3>1. rows' \in SUBSET rows
      BY <2>4 DEF FulfillBySourceLine
    <3>2. IsFiniteSet(rows')
      BY <1>0, <3>1, FS_Subset
    <3>3. PromiseInv'
      BY <1>0, <2>3, <3>1, <3>2, RowsKeep
    <3>4. Promised' \subseteq Promised
      BY <2>3, <3>1 DEF Promised
    <3>5. QED
      BY <3>3, <3>4, NoNewPromise
  <2>5. CASE s \in WorkOrders /\ rows' = Consume(s, pl[1], q)
    <3>1. IsFiniteSet(rows') /\ rows' \subseteq Rows
      BY <1>0, <2>2, <2>5, ConsumeFinite, ConsumeType
    <3>2. \A r \in rows' : \E t \in rows : r.source = t.source
      <4>1. \A r \in rows' : r \in rows \/ \E t \in rows : r = [t EXCEPT !.qty = @ - q]
        BY <2>5 DEF Consume
      <4>2. \A t \in rows : [t EXCEPT !.qty = @ - q].source = t.source
        BY <1>0 DEF Rows
      <4>3. QED
        BY <4>1, <4>2
    <3>3. \A r \in rows' : stage[r.source] # "New"
      BY <1>0, <3>2
    <3>4. PromiseInv'
      BY <2>3, <3>1, <3>3, RowsKeep
    <3>5. PromiseStep
      BY <2>2, <2>3, <2>5, ConsumeFits
    <3>6. QED
      BY <3>4, <3>5
  <2>6. QED
    BY <1>2, <2>1, <2>4, <2>5 DEF FinishTake, ShipProduct, IssueMaterial
<1>3. ASSUME NEW s \in WorkOrders, NEW p \in Products, NEW q \in Quantity,
             StartReturn(c, s, p, q)
      PROVE  PromiseInv' /\ PromiseStep
  <2>1. /\ UNCHANGED <<rows, draft, mutex, stage>> /\ stage[s] # "New" /\ s \in Sources
        /\ \A d \in Clerks \ {c} : desk'[d] = desk[d]
        /\ desk[c] = Free /\ desk'[c].op = "return" /\ desk'[c].source = s
    BY <1>3 DEF StartReturn, promised, TypeOK, Sources
  <2>2. ~Reserving(c) /\ ~Reserving(c)'
    BY <2>1 DEF Reserving, Busy
  <2>3. PromiseInv'
    BY <1>0, <2>1, <2>2, RowsKeep
  <2>4. Promised' \subseteq Promised
    BY <2>1 DEF Promised
  <2>5. QED
    BY <2>3, <2>4, NoNewPromise
<1>4. CASE FinishReturn(c)
  <2>1. PICK s \in WorkOrders, q \in Quantity : desk[c].source = s /\ desk[c].qty = q
    BY <1>4, DeskType DEF FinishReturn
  <2>2. s \in Sources /\ q \in Nat /\ stage[s] # "New" /\ Busy(c, "return")
    BY <1>4, <2>1, ConstantsAssumption DEF FinishReturn, PromiseInv, RowsOfReleased, Quantity, Sources
  <2> DEFINE pl == desk[c].place
             n == Len(LinesOf[s]) + desk[c].no
             atp == AvailableAtp(rows, pl[1], pl[2]) + q
             New == {[source |-> s, no |-> n, product |-> pl[1], warehouse |-> pl[2], qty |-> g] :
                       g \in Granted(q, atp)}
  <2>3. rows' = rows \cup New
    BY <1>4, <2>1 DEF FinishReturn
  <2> HIDE DEF pl, n, atp
  <2>4. (\A r \in New : r.source = s) /\ IsFiniteSet(New)
    <3>1. \A g, h \in Granted(q, atp) : g = h
      BY <2>2, GrantedOnce
    <3>2. \A r, t \in New : r = t
      BY <3>1
    <3>3. IsFiniteSet(New)
      BY <3>2, OneIsFinite
    <3>4. QED
      BY <3>3
  <2>5. rows' = rows \cup New
    BY <2>3
  <2> HIDE DEF New
  <2>6. IsFiniteSet(rows') /\ \A r \in rows' : stage[r.source] # "New"
    BY <1>0, <2>2, <2>4, <2>5, FS_Union
  <2>7. rows' \subseteq Rows
    BY <1>4, MoveTypes DEF MoveSteps, TypeOK
  <2>8. /\ UNCHANGED <<draft, mutex, stage>>
        /\ \A d \in Clerks \ {c} : desk'[d] = desk[d]
        /\ ~Reserving(c) /\ ~Reserving(c)' /\ ~Busy(c, "return")'
    BY <1>4 DEF FinishReturn, TypeOK, Reserving, Busy
  <2>9. PromiseInv'
    BY <2>6, <2>7, <2>8, RowsKeep
  <2>10. QED
    BY <1>4, <2>9, ReturnFits
<1>5. QED
  BY <1>1, <1>2, <1>3, <1>4 DEF MoveSteps

LEMMA PromiseInvStep ==
  ASSUME TypeOK, PromiseInv, [Next]_vars
  PROVE  PromiseInv' /\ PromiseStep
<1>0. /\ IsFiniteSet(rows) /\ rows \subseteq Rows
      /\ \A r \in rows : stage[r.source] # "New" /\ r.source \in Sources
  BY DEF PromiseInv, RowsFinite, RowsOfReleased, TypeOK, Rows
<1>1. ASSUME NEW c \in Clerks, ReserveSteps(c) \/ MoveSteps(c)  PROVE PromiseInv' /\ PromiseStep
  BY <1>1, ReserveKeeps, MoveKeeps
<1>2. ASSUME rows' \in SUBSET rows, UNCHANGED <<draft, mutex>>,
             \A s \in Sources : stage'[s] = "New" <=> stage[s] = "New",
             \A c \in Clerks : \/ desk'[c] = desk[c]
                               \/ ~Reserving(c) /\ ~Reserving(c)' /\ ~Busy(c, "return")'
      PROVE  PromiseInv' /\ PromiseStep
  <2>1. IsFiniteSet(rows')
    BY <1>0, <1>2, FS_Subset
  <2>2. PromiseInv'
    BY <1>0, <1>2, <2>1, RowsKeep DEF Sources
  <2>3. Promised' \subseteq Promised
    BY <1>2 DEF Promised
  <2>4. QED
    BY <2>2, <2>3, NoNewPromise
<1>3. ASSUME NEW c \in Clerks, FinishUnlock(c) \/ \E k \in Locks : StartUnlock(c, k)
      PROVE  PromiseInv' /\ PromiseStep
  <2>1. /\ UNCHANGED <<rows, draft, mutex, stage>>
        /\ \A d \in Clerks \ {c} : desk'[d] = desk[d]
        /\ ~Reserving(c) /\ ~Reserving(c)' /\ ~Busy(c, "return")'
    <3>1. CASE FinishUnlock(c)
      BY <3>1 DEF FinishUnlock, promised, work, Reserving, Busy, TypeOK
    <3>2. ASSUME NEW k \in Locks, StartUnlock(c, k)
          PROVE  /\ UNCHANGED <<rows, draft, mutex, stage>>
                 /\ \A d \in Clerks \ {c} : desk'[d] = desk[d]
                 /\ desk[c] = Free /\ desk'[c].op = "unlock"
      BY <3>2 DEF StartUnlock, promised, work, TypeOK
    <3>3. QED
      BY <1>3, <3>1, <3>2 DEF Reserving, Busy
  <2>2. QED
    BY <1>2, <2>1
<1>4. ASSUME NEW s \in Sources, CancelBySource(s)  PROVE PromiseInv' /\ PromiseStep
  <2>1. rows' \in SUBSET rows /\ UNCHANGED <<draft, mutex, desk>>
    BY <1>4 DEF CancelBySource
  <2>2. \A x \in Sources : stage'[x] = "New" <=> stage[x] = "New"
    BY <1>4 DEF CancelBySource, TypeOK
  <2>3. QED
    BY <1>2, <2>1, <2>2
<1>5. ASSUME NEW s \in WorkOrders, ScrapBatch(s)  PROVE PromiseInv' /\ PromiseStep
  <2>1. rows' \in SUBSET rows /\ UNCHANGED <<draft, mutex, stage, desk>>
    BY <1>5 DEF ScrapBatch, work
  <2>2. QED
    BY <1>2, <2>1
<1>6. CASE UNCHANGED <<rows, draft, mutex, stage, desk>>
  BY <1>2, <1>6
<1>7. QED
  BY <1>1, <1>3, <1>4, <1>5, <1>6
     DEF Next, ReserveSteps, MoveSteps, Receive, Adjust, CreateLock, promised, work, vars

(* Uncommitted reservations are of products their request has locked, a     *)
(* work order is released by one request, and only what was confirmed or    *)
(* released has rows: so a request that has locked a product reads all      *)
(* that is promised of it.                                                  *)
THEOREM LocksShowAllPromises == Spec => []PromiseInv
<1>1. Init => PromiseInv
  BY FS_EmptySet
     DEF Init, PromiseInv, DraftsLocked, RowsOfReleased, OneRelease, RowsFinite, Reserving, Busy
<1>2. QED
  BY <1>1, TypeInvariance, PromiseInvStep, PTL DEF Spec

(* However requests interleave, a step that promises more within a          *)
(* warehouse filter leaves what is promised there within the stock there,   *)
(* uncommitted promises of others included (lock_for_reserve, reserve, and  *)
(* the reservation return_materials makes again).                           *)
THEOREM PromisesFitTheStock == Spec => PromiseFitsStock
<1>1. ASSUME TypeOK, PromiseInv, [Next]_vars
      PROVE  [\A p \in Products, w \in Warehouses \cup {AnyWarehouse} :
                (\E r \in Promised' \ Promised : r.product = p /\ r.warehouse = w)
                  => \/ Total(ReservedIn(Promised, p, w))' <= OnHand(p, w)'
                     \/ Total(ReservedIn(Promised, p, w))'
                          <= Total(ReservedIn(Promised, p, w))]_vars
  <2>1. PromiseStep
    BY <1>1, PromiseInvStep
  <2>2. QED
    BY <2>1 DEF PromiseStep, NewPromise, StillFits
<1>2. QED
  BY <1>1, TypeInvariance, LocksShowAllPromises, PTL DEF Spec, PromiseFitsStock
=============================================================================
