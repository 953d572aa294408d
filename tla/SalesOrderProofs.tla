-------------------------- MODULE SalesOrderProofs --------------------------
(***************************************************************************)
(* What SalesOrder promises, for any lines, pickings and users.            *)
(*                                                                         *)
(* Whoever derives a status counts on lines that nobody else may change    *)
(* before it commits, so what it found to have happened is still true      *)
(* then: lines only grow.  That the header says all needs that nobody      *)
(* committed in between, and that a cancelled order is left alone needs    *)
(* the log of the state machine to agree with the header.                  *)
(***************************************************************************)
EXTENDS SalesOrder, TLAPS

Truth(s, ln) ==
  /\ s = "Shipped" => AllSettled(ln) /\ AnyShipped(ln)
  /\ s = "PartiallyShipped" => AnyShipped(ln)
  /\ s = "ReadyToShip" => \A l \in Lines : ln[l].status \in {"Allocated", "Cancelled"}

Follows(s, ln) ==
  /\ (s = "Shipped") = (AllSettled(ln) /\ AnyShipped(ln))
  /\ (s = "PartiallyShipped") = (AnyShipped(ln) /\ ~AllSettled(ln))

(* Requests that have derived a status from the lines                      *)
Derives(u) == Writing(u) /\ request[u].op \in {"request", "ship", "cancelLine", "recalc"}
Moved(u) == request[u] # Free /\ request[u].stage = "moved"

(* confirm and cancel have no other stages, and know where they go         *)
Destined ==
  \A u \in Users : Writing(u) =>
    /\ request[u].op \in {"request", "ship", "cancelLine", "recalc", "confirm", "cancel"}
    /\ request[u].op \in {"confirm", "cancel"} => request[u].stage = "moved"
    /\ request[u].op = "confirm" => request[u].to = "Confirmed" /\ request[u].moves
    /\ request[u].op = "cancel" => request[u].to = "Cancelled" /\ request[u].moves

(* A line is written by one transaction at a time                          *)
Apart ==
  \A u, v \in Users : \A l \in Lines :
    /\ u # v /\ Writing(u) /\ Writing(v)
    /\ {request[u].op, request[v].op} \subseteq {"ship", "cancelLine"}
    => request[u].qty[l] = 0 \/ request[v].qty[l] = 0

(* What a request is about to write is true of the lines it will commit    *)
DerivesTruth ==
  \A u \in Users : Derives(u) =>
    /\ Truth(request[u].to, LinesOf(u))
    /\ request[u].to = "ReadyToShip" => \E l \in Lines : line[l].status # "New"

TruthInv == TypeOK /\ Destined /\ Apart /\ HeaderIsTrue /\ DerivesTruth

(* ... and it is all there is to say, unless somebody committed since      *)
DerivesAll ==
  \A u \in Users : Derives(u) /\ request[u].alone =>
    /\ request[u].to \notin {"Draft", "Cancelled"}
    /\ Follows(request[u].to, LinesOf(u))

StaysIfEqual ==
  \A u \in Users : Moved(u) /\ request[u].alone /\ ~request[u].moves => status = request[u].to

FollowInv == TypeOK /\ Destined /\ HeaderFollowsLines /\ DerivesAll /\ StaysIfEqual

LogTells == ~crossed /\ ~disordered => log = status

AllowedFromHere ==
  \A u \in Users :
    Moved(u) /\ request[u].alone /\ request[u].moves /\ ~crossed /\ ~disordered =>
      <<status, request[u].to>> \in Transitions

LogInv == FollowInv /\ LogTells /\ AllowedFromHere

-----------------------------------------------------------------------------
(* Types                                                                    *)

LEMMA TransitionsTyped == Transitions \subseteq OrderStatus \X OrderStatus
BY DEF Transitions, OrderStatus

LEMMA HeaderOfTyped ==
  ASSUME NEW ln, NEW waiting
  PROVE  Derived(ln, waiting) \in {"Confirmed", "ReadyToShip", "ShippingRequested",
                                   "PartiallyShipped", "Shipped"}
<1>1. HeaderOf(ln) \in {"Confirmed", "ReadyToShip", "PartiallyShipped", "Shipped"}
  BY DEF HeaderOf
<1> QED BY <1>1 DEF Derived

LEMMA NothingTyped == Nothing \in Amounts
BY SalesOrderAssumption DEF Nothing, Amounts

(* LinesOf for any lines and request                                        *)
LinesFor(ln, r) ==
  CASE r.op = "ship" -> [l \in Lines |-> [ln[l] EXCEPT !.shipped = @ + r.qty[l]]]
    [] r.op = "cancelLine" ->
         [l \in Lines |->
            [ln[l] EXCEPT !.cancelled = @ + r.qty[l],
                          !.status = IF r.qty[l] > 0 /\ r.qty[l] = Open(ln, l)
                                     THEN "Cancelled" ELSE @]]
    [] OTHER -> ln

LEMMA LinesForFields ==
  ASSUME NEW ln \in [Lines -> LineRecords], NEW r \in Requests, NEW l \in Lines
  PROVE  /\ r.qty[l] \in Nat
         /\ LinesFor(ln, r)[l].shipped
              = IF r.op = "ship" THEN ln[l].shipped + r.qty[l] ELSE ln[l].shipped
         /\ LinesFor(ln, r)[l].cancelled
              = IF r.op = "cancelLine" THEN ln[l].cancelled + r.qty[l] ELSE ln[l].cancelled
         /\ LinesFor(ln, r)[l].status
              = IF r.op = "cancelLine" /\ r.qty[l] > 0 /\ r.qty[l] = Open(ln, l)
                THEN "Cancelled" ELSE ln[l].status
<1>1. r.qty[l] \in Nat
  BY SalesOrderAssumption DEF Requests, Amounts
<1>2. CASE r.op = "ship"
  BY <1>1, <1>2 DEF LinesFor, LineRecords
<1>3. CASE r.op = "cancelLine"
  <2>1. LinesFor(ln, r) = [m \in Lines |->
            [ln[m] EXCEPT !.cancelled = @ + r.qty[m],
                          !.status = IF r.qty[m] > 0 /\ r.qty[m] = Open(ln, m)
                                     THEN "Cancelled" ELSE @]]
    BY <1>3 DEF LinesFor
  <2>2. LinesFor(ln, r)[l] =
            [ln[l] EXCEPT !.cancelled = @ + r.qty[l],
                          !.status = IF r.qty[l] > 0 /\ r.qty[l] = Open(ln, l)
                                     THEN "Cancelled" ELSE @]
    BY <2>1
  <2> QED BY <1>1, <1>3, <2>2 DEF LineRecords
<1>4. CASE r.op \notin {"ship", "cancelLine"}
  BY <1>1, <1>4 DEF LinesFor
<1> QED BY <1>2, <1>3, <1>4

LEMMA LinesForTyped ==
  ASSUME NEW ln \in [Lines -> LineRecords], NEW r \in Requests
  PROVE  LinesFor(ln, r) \in [Lines -> LineRecords]
<1>1. r.qty \in [Lines -> Nat]
  BY SalesOrderAssumption DEF Requests, Amounts
<1>2. CASE r.op = "ship"
  <2>1. \A l \in Lines : [ln[l] EXCEPT !.shipped = @ + r.qty[l]] \in LineRecords
    BY <1>1 DEF LineRecords
  <2> QED BY <1>2, <2>1 DEF LinesFor
<1>3. CASE r.op = "cancelLine"
  <2>1. ASSUME NEW l \in Lines, NEW s \in {ln[l].status, "Cancelled"}
        PROVE  [ln[l] EXCEPT !.cancelled = @ + r.qty[l], !.status = s] \in LineRecords
    <3>1. ln[l] \in LineRecords /\ r.qty[l] \in Nat
      BY <1>1
    <3>2. ln[l].cancelled + r.qty[l] \in Nat
      BY <3>1 DEF LineRecords
    <3>3. s \in {"New", "Pending", "Allocated", "Cancelled"}
      BY <2>1, <3>1 DEF LineRecords
    <3> QED BY <3>1, <3>2, <3>3 DEF LineRecords
  <2> QED BY <1>3, <2>1 DEF LinesFor
<1>4. CASE r.op \notin {"ship", "cancelLine"}
  BY <1>4 DEF LinesFor
<1> QED BY <1>2, <1>3, <1>4

LEMMA LinesForSame ==
  ASSUME NEW ln, NEW r, NEW s, r.op = s.op, r.qty = s.qty
  PROVE  LinesFor(ln, r) = LinesFor(ln, s)
BY DEF LinesFor

LEMMA LinesOfFor ==
  ASSUME NEW u \in Users
  PROVE  LinesOf(u) = LinesFor(line, request[u]) /\ LinesOf(u)' = LinesFor(line', request'[u])
BY DEF LinesOf, LinesFor, Open

LEMMA LinesOfTyped ==
  ASSUME TypeOK, NEW u \in Users, request[u] # Free
  PROVE  LinesOf(u) \in [Lines -> LineRecords]
BY LinesForTyped, LinesOfFor DEF TypeOK

(* What a request leaves behind in the others                               *)
LEMMA LeftTyped ==
  ASSUME TypeOK, NEW u \in Users
  PROVE  Left(u) \in [Users -> {Free} \cup Requests]
<1>1. ASSUME NEW v \in Users, request[v] # Free
      PROVE  [request[v] EXCEPT !.alone = @ /\ request[v].stage = "begun",
                                !.older = @ \ {u}] \in Requests
  <2>1. request[v] \in Requests
    BY <1>1 DEF TypeOK
  <2>2. (request[v].alone /\ request[v].stage = "begun") \in BOOLEAN
    OBVIOUS
  <2>3. request[v].older \ {u} \in SUBSET Users
    BY <2>1 DEF Requests
  <2> QED BY <2>1, <2>2, <2>3 DEF Requests
<1> QED BY <1>1 DEF Left

LEMMA QuitTyped ==
  ASSUME TypeOK, NEW u \in Users, Quit(u)
  PROVE  request' \in [Users -> {Free} \cup Requests]
<1>1. ASSUME NEW v \in Users, request[v] # Free
      PROVE  [request[v] EXCEPT !.older = @ \ {u}] \in Requests
  BY <1>1 DEF TypeOK, Requests
<1> QED BY <1>1 DEF Quit

LEMMA BeginTyped ==
  ASSUME TypeOK, NEW u \in Users, NEW op, NEW p, NEW q, NEW allocated,
         Begin(u, op, p, q, allocated),
         op \in {"confirm", "request", "ship", "cancelLine", "recalc", "cancel",
                 "confirmPicking", "cancelPicking"},
         p \in Pickings \cup {Free}, q \in Amounts, allocated \in SUBSET Lines
  PROVE  TypeOK'
<1>1. "Draft" \in OrderStatus
  BY DEF OrderStatus
<1>2. (status = "Cancelled") \in BOOLEAN
  OBVIOUS
<1> DEFINE r == [op |-> op, stage |-> "begun", on |-> p, qty |-> q, allocated |-> allocated,
                 to |-> "Draft", moves |-> FALSE,
                 older |-> {v \in Users : request[v] # Free}, alone |-> TRUE,
                 late |-> status = "Cancelled"]
<1>3. r \in Requests
  BY <1>1, <1>2 DEF Requests
<1>4. request' \in [Users -> {Free} \cup Requests]
  BY <1>3 DEF Begin, TypeOK
<1> QED BY <1>4 DEF Begin, TypeOK

(* The steps that matter to the header, by what they do to it               *)
Settles(u) ==
  /\ Moved(u)
  /\ request[u].op \in {"request", "ship", "cancelLine", "recalc", "cancel"}
  /\ line' = LinesOf(u)
  /\ WriteHeader(u) /\ Commit(u)

LEMMA FinishesSettle ==
  ASSUME NEW u \in Users, Finishes(u)
  PROVE  Settles(u) \/ FinishConfirm(u) \/ (Quit(u) /\ FinishPicking(u))
<1>1. CASE FinishRequest(u)
  BY <1>1 DEF FinishRequest, Settles, Doing, Moved, LinesOf
<1>2. CASE FinishShip(u)
  BY <1>2 DEF FinishShip, Settles, Doing, Moved
<1>3. CASE FinishCancelLine(u)
  BY <1>3 DEF FinishCancelLine, Settles, Doing, Moved
<1>4. CASE FinishRecalc(u)
  BY <1>4 DEF FinishRecalc, Settles, Doing, Moved, LinesOf
<1>5. CASE FinishCancel(u)
  BY <1>5 DEF FinishCancel, Settles, Doing, Moved, LinesOf
<1>6. CASE FinishPicking(u)
  BY <1>6 DEF FinishPicking
<1> QED BY <1>1, <1>2, <1>3, <1>4, <1>5, <1>6 DEF Finishes

LEMMA SettlesTyped ==
  ASSUME TypeOK, NEW u \in Users, Settles(u), picking' \in [Pickings -> PickingRecords]
  PROVE  TypeOK'
<1>1. request[u] \in Requests
  BY DEF Settles, Moved, TypeOK
<1>2. request' \in [Users -> {Free} \cup Requests]
  BY LeftTyped DEF Settles, Commit
<1>3. line' \in [Lines -> LineRecords]
  BY LinesOfTyped DEF Settles, Moved
<1>4. status' \in OrderStatus /\ log' \in OrderStatus /\ disordered' \in BOOLEAN
  BY <1>1 DEF Settles, WriteHeader, Logged, Unlogged, Requests, TypeOK
<1>5. later' \subseteq Users
  BY DEF Settles, WriteHeader, Logged, Unlogged, TypeOK
<1>6. crossed' \in BOOLEAN
  BY DEF Settles, Commit, TypeOK
<1> QED BY <1>2, <1>3, <1>4, <1>5, <1>6 DEF TypeOK

LEMMA ConfirmTyped ==
  ASSUME TypeOK, NEW u \in Users, FinishConfirm(u)
  PROVE  TypeOK'
<1>1. request' \in [Users -> {Free} \cup Requests]
  BY LeftTyped DEF FinishConfirm, Commit
<1>2. line' \in [Lines -> LineRecords]
  <2>1. ASSUME NEW l \in Lines, NEW s \in {"Allocated", "Pending"}
        PROVE  [line[l] EXCEPT !.status = s] \in LineRecords
    BY <2>1 DEF TypeOK, LineRecords
  <2> QED BY <2>1 DEF FinishConfirm, Planned
<1>3. Derived(Planned(u), Waiting) \in OrderStatus
  BY HeaderOfTyped DEF OrderStatus
<1>4. status' \in OrderStatus /\ log' \in OrderStatus /\ disordered' \in BOOLEAN
  BY <1>3 DEF FinishConfirm, Logged, TypeOK
<1>5. later' \subseteq Users
  BY DEF FinishConfirm, Logged, TypeOK
<1>6. crossed' \in BOOLEAN /\ picking' = picking
  BY DEF FinishConfirm, Commit, TypeOK
<1> QED BY <1>1, <1>2, <1>4, <1>5, <1>6 DEF TypeOK

LEMMA CountTyped ==
  ASSUME TypeOK, NEW u \in Users, NEW waiting, request[u] # Free, Count(u, waiting)
  PROVE  TypeOK'
<1> DEFINE s == Derived(ReadAfter(u), waiting)
<1>1. s \in OrderStatus
  BY HeaderOfTyped DEF OrderStatus
<1>2. request[u] \in Requests
  BY DEF TypeOK
<1>3. [[request[u] EXCEPT !.stage = "counted"] EXCEPT !.to = s] \in Requests
  BY <1>1, <1>2 DEF Requests
<1>4. request' \in [Users -> {Free} \cup Requests]
  BY <1>3 DEF Count, TypeOK
<1> QED BY <1>4 DEF Count, TypeOK

LEMMA MovesTyped ==
  ASSUME TypeOK, NEW u \in Users, Moves(u)
  PROVE  TypeOK'
<1>1. request[u] \in Requests
  BY DEF TypeOK, Moves, Move, MoveConfirm, MoveCancel, MoveTo, Doing, Writing
<1>2. PICK s \in OrderStatus, m \in BOOLEAN :
        request' = [request EXCEPT ![u] = [request[u] EXCEPT !.stage = "moved", !.to = s,
                                                             !.moves = m]]
  <2>1. CASE Move(u)
    <3>1. ASSUME NEW m
          PROVE  [request[u] EXCEPT !.stage = "moved", !.moves = m]
                   = [request[u] EXCEPT !.stage = "moved", !.to = request[u].to, !.moves = m]
      BY <1>1 DEF Requests
    <3>2. request[u].to \in OrderStatus /\ (request[u].to # status) \in BOOLEAN
      BY <1>1 DEF Requests
    <3>3. request' = [request EXCEPT ![u] = [request[u] EXCEPT !.stage = "moved",
                         !.to = request[u].to, !.moves = request[u].to # status]]
      <4>1. request' = [request EXCEPT ![u] = [request[u] EXCEPT !.stage = "moved",
                           !.moves = request[u].to # status]]
        BY <2>1 DEF Move, TypeOK
      <4> QED BY <3>1, <4>1
    <3> QED BY <3>2, <3>3
  <2>2. CASE MoveConfirm(u)
    BY <2>2 DEF MoveConfirm, MoveTo, OrderStatus
  <2>3. CASE MoveCancel(u)
    BY <2>3 DEF MoveCancel, MoveTo, OrderStatus
  <2> QED BY <2>1, <2>2, <2>3 DEF Moves
<1>3. [request[u] EXCEPT !.stage = "moved", !.to = s, !.moves = m] \in Requests
  BY <1>1 DEF Requests
<1>4. request' \in [Users -> {Free} \cup Requests]
  BY <1>2, <1>3 DEF TypeOK
<1>5. UNCHANGED <<status, log, later, line, picking, crossed, disordered>>
  BY DEF Moves, Move, MoveConfirm, MoveCancel, MoveTo
<1> QED BY <1>4, <1>5 DEF TypeOK

LEMMA StartsBegin ==
  ASSUME TypeOK, NEW u \in Users, Starts(u)
  PROVE  \E op \in {"confirm", "request", "ship", "cancelLine", "recalc", "cancel",
                    "confirmPicking", "cancelPicking"},
            p \in Pickings \cup {Free}, q \in Amounts, allocated \in SUBSET Lines :
           Begin(u, op, p, q, allocated)
<1>1. CASE \E allocated \in SUBSET Lines : StartConfirm(u, allocated)
  BY <1>1, NothingTyped DEF StartConfirm
<1>2. CASE \E p \in Pickings, q \in Deliveries : StartRequest(u, p, q) \/ StartShip(u, p, q)
  <2>1. PICK p \in Pickings, q \in Deliveries : StartRequest(u, p, q) \/ StartShip(u, p, q)
    BY <1>2
  <2>2. q \in Amounts
    BY SalesOrderAssumption DEF Amounts
  <2>3. {} \in SUBSET Lines
    OBVIOUS
  <2> QED BY <2>1, <2>2, <2>3 DEF StartRequest, StartShip
<1>3. CASE \E l \in Lines : \E n \in 1..Quantity[l] : StartCancelLine(u, l, n)
  <2>1. PICK l \in Lines : \E n \in 1..Quantity[l] : StartCancelLine(u, l, n)
    BY <1>3
  <2>4. PICK n \in 1..Quantity[l] : StartCancelLine(u, l, n)
    BY <2>1
  <2>2. n \in 0..MaxQuantity
    BY SalesOrderAssumption
  <2>3. [Nothing EXCEPT ![l] = n] \in Amounts
    BY <2>2, NothingTyped DEF Amounts
  <2>5. {} \in SUBSET Lines
    OBVIOUS
  <2> QED BY <2>3, <2>4, <2>5 DEF StartCancelLine
<1>4. CASE StartRecalc(u) \/ StartCancel(u)
  BY <1>4, NothingTyped DEF StartRecalc, StartCancel
<1>5. CASE \E op \in {"confirmPicking", "cancelPicking"}, p \in Pickings : StartPicking(u, op, p)
  BY <1>5, NothingTyped DEF StartPicking
<1> QED BY <1>1, <1>2, <1>3, <1>4, <1>5 DEF Starts

LEMMA CountsCount ==
  ASSUME NEW u \in Users, Counts(u)
  PROVE  /\ request[u] # Free /\ request[u].stage = "begun"
         /\ request[u].op \in {"request", "ship", "cancelLine", "recalc"}
         /\ \E waiting \in BOOLEAN : Count(u, waiting)
<1>1. Waiting \in BOOLEAN
  BY DEF Waiting
<1> QED BY <1>1 DEF Counts, CountRequest, CountShip, CountCancelLine, CountRecalc, Doing

(* The pickings keep their type                                             *)
LEMMA PickingsTyped ==
  ASSUME TypeOK, Next
  PROVE  picking' \in [Pickings -> PickingRecords]
<1>1. ASSUME NEW p \in Pickings, NEW q \in Deliveries, CreateFromOrder(p, q)
      PROVE  picking' \in [Pickings -> PickingRecords]
  <2>1. [status |-> "Draft", qty |-> q] \in PickingRecords
    BY SalesOrderAssumption DEF PickingRecords, Amounts
  <2> QED BY <1>1, <2>1 DEF CreateFromOrder, TypeOK
<1>2. ASSUME NEW u \in Users, Finishes(u)
      PROVE  picking' \in [Pickings -> PickingRecords]
  <2>1. ASSUME NEW p, NEW s \in {"Confirmed", "Done", "Cancelled"},
               picking' = [picking EXCEPT ![p].status = s]
        PROVE  picking' \in [Pickings -> PickingRecords]
    BY <2>1 DEF TypeOK, PickingRecords
  <2>2. CASE FinishRequest(u)
    <3>1. request[u].qty \in Amounts
      BY <2>2 DEF FinishRequest, Doing, TypeOK, Requests
    <3>2. [status |-> "Confirmed", qty |-> request[u].qty] \in PickingRecords
      BY <3>1 DEF PickingRecords
    <3> QED BY <2>2, <3>2 DEF FinishRequest, TypeOK
  <2>3. CASE FinishShip(u)
    BY <2>1, <2>3 DEF FinishShip
  <2>4. CASE FinishPicking(u)
    BY <2>1, <2>4 DEF FinishPicking
  <2>5. CASE FinishConfirm(u) \/ FinishCancelLine(u) \/ FinishRecalc(u) \/ FinishCancel(u)
    BY <2>5 DEF FinishConfirm, FinishCancelLine, FinishRecalc, FinishCancel, TypeOK
  <2> QED BY <1>2, <2>2, <2>3, <2>4, <2>5 DEF Finishes
<1>3. ASSUME NEW u \in Users, Starts(u) \/ Counts(u) \/ Moves(u) \/ RollBack(u)
      PROVE  picking' = picking
  BY <1>3, StartsBegin, CountsCount
     DEF Begin, Count, Moves, Move, MoveConfirm, MoveCancel, MoveTo, RollBack
<1> QED BY <1>1, <1>2, <1>3 DEF Next, TypeOK

(* Whatever happens, it is one of these                                     *)
LEMMA StepsOfNext ==
  ASSUME TypeOK, Next
  PROVE  \/ UNCHANGED <<status, log, later, line, request, crossed, disordered>>
         \/ \E u \in Users :
              \/ \E op \in {"confirm", "request", "ship", "cancelLine", "recalc", "cancel",
                            "confirmPicking", "cancelPicking"},
                    p \in Pickings \cup {Free}, q \in Amounts, allocated \in SUBSET Lines :
                   Begin(u, op, p, q, allocated)
              \/ Counts(u) \/ Moves(u) \/ Settles(u) \/ FinishConfirm(u) \/ Quit(u)
<1>1. CASE \E p \in Pickings, q \in Deliveries : CreateFromOrder(p, q)
  BY <1>1 DEF CreateFromOrder
<1>2. ASSUME NEW u \in Users,
             Starts(u) \/ Counts(u) \/ Moves(u) \/ Finishes(u) \/ RollBack(u)
      PROVE  \/ Counts(u) \/ Moves(u) \/ Settles(u) \/ FinishConfirm(u) \/ Quit(u)
             \/ \E op \in {"confirm", "request", "ship", "cancelLine", "recalc", "cancel",
                           "confirmPicking", "cancelPicking"},
                   p \in Pickings \cup {Free}, q \in Amounts, allocated \in SUBSET Lines :
                  Begin(u, op, p, q, allocated)
  BY <1>2, StartsBegin, FinishesSettle DEF RollBack
<1> QED BY <1>1, <1>2 DEF Next

LEMMA TypeStep == TypeOK /\ [Next]_vars => TypeOK'
<1> SUFFICES ASSUME TypeOK, [Next]_vars PROVE TypeOK'
  OBVIOUS
<1>1. CASE UNCHANGED vars
  BY <1>1 DEF vars, TypeOK
<1>2. CASE Next
  <2>1. picking' \in [Pickings -> PickingRecords]
    BY <1>2, PickingsTyped
  <2>2. CASE UNCHANGED <<status, log, later, line, request, crossed, disordered>>
    BY <2>1, <2>2 DEF TypeOK
  <2>3. ASSUME NEW u \in Users, Counts(u) PROVE TypeOK'
    BY <2>3, CountsCount, CountTyped
  <2>4. ASSUME NEW u \in Users, Quit(u) PROVE TypeOK'
    BY <2>1, <2>4, QuitTyped DEF Quit, TypeOK
  <2>5. ASSUME NEW u \in Users, Settles(u) PROVE TypeOK'
    BY <2>1, <2>5, SettlesTyped
  <2> QED
    BY <1>2, <2>2, <2>3, <2>4, <2>5, StepsOfNext, BeginTyped, MovesTyped, ConfirmTyped
<1> QED BY <1>1, <1>2

LEMMA TypeInit == Init => TypeOK
<1>1. NoPicking \in PickingRecords
  BY NothingTyped DEF NoPicking, PickingRecords
<1>2. [shipped |-> 0, cancelled |-> 0, status |-> "New"] \in LineRecords
  BY DEF LineRecords
<1> QED BY <1>1, <1>2 DEF Init, TypeOK, OrderStatus

(* Every variable keeps its type.                                           *)
THEOREM TypeInvariance == Spec => []TypeOK
BY TypeInit, TypeStep, PTL DEF Spec

-----------------------------------------------------------------------------
(* Lines only grow                                                          *)

Grows(a, b) ==
  \A l \in Lines : b[l].shipped >= a[l].shipped /\ b[l].cancelled >= a[l].cancelled

KeepsReady(a, b) ==
  \A l \in Lines : a[l].status \in {"Allocated", "Cancelled"} =>
                   b[l].status \in {"Allocated", "Cancelled"}

LEMMA TruthKeeps ==
  ASSUME NEW a \in [Lines -> LineRecords], NEW b \in [Lines -> LineRecords], NEW s,
         Truth(s, a), Grows(a, b), s = "ReadyToShip" => KeepsReady(a, b)
  PROVE  Truth(s, b)
<1>1. \A l \in Lines : /\ a[l].shipped \in Nat /\ a[l].cancelled \in Nat
                       /\ b[l].shipped \in Nat /\ b[l].cancelled \in Nat
                       /\ Quantity[l] \in Nat
  BY SalesOrderAssumption DEF LineRecords
<1>2. AllSettled(a) => AllSettled(b)
  <2>1. ASSUME NEW l \in Lines, a[l].shipped + a[l].cancelled >= Quantity[l]
        PROVE  b[l].shipped + b[l].cancelled >= Quantity[l]
    BY <1>1, <2>1 DEF Grows
  <2> QED BY <2>1 DEF AllSettled
<1>3. AnyShipped(a) => AnyShipped(b)
  BY <1>1 DEF AnyShipped, Grows
<1> QED BY <1>2, <1>3 DEF Truth, KeepsReady

LEMMA DerivedTruth ==
  ASSUME NEW ln \in [Lines -> LineRecords], NEW waiting
  PROVE  /\ Truth(Derived(ln, waiting), ln)
         /\ Follows(Derived(ln, waiting), ln)
         /\ Derived(ln, waiting) = "ReadyToShip" => AllAllocated(ln)
<1>1. HeaderOf(ln) = "Shipped" <=> AllSettled(ln) /\ AnyShipped(ln)
  BY DEF HeaderOf
<1>2. HeaderOf(ln) = "PartiallyShipped" <=> AnyShipped(ln) /\ ~AllSettled(ln)
  BY DEF HeaderOf
<1>3. HeaderOf(ln) = "ReadyToShip" => AllAllocated(ln)
  BY DEF HeaderOf
<1>4. /\ Derived(ln, waiting) = "Shipped" <=> HeaderOf(ln) = "Shipped"
      /\ Derived(ln, waiting) = "PartiallyShipped" <=> HeaderOf(ln) = "PartiallyShipped"
      /\ Derived(ln, waiting) = "ReadyToShip" => HeaderOf(ln) = "ReadyToShip"
  BY DEF Derived
<1>5. AllSettled(ln) \in BOOLEAN /\ AnyShipped(ln) \in BOOLEAN
  BY DEF AllSettled, AnyShipped
<1> QED BY <1>1, <1>2, <1>3, <1>4, <1>5 DEF Truth, Follows, AllAllocated

-----------------------------------------------------------------------------
(* What a step does to the requests of those who stay                       *)

Kept(v) ==
  /\ request[v] # Free
  /\ request'[v].op = request[v].op /\ request'[v].qty = request[v].qty
  /\ request'[v].stage = request[v].stage
  /\ request'[v].to = request[v].to /\ request'[v].moves = request[v].moves
  /\ request'[v].alone => request[v].alone

LEMMA CommitKeeps ==
  ASSUME TypeOK, NEW u \in Users, Commit(u)
  PROVE  /\ request'[u] = Free
         /\ \A v \in Users : Writing(v)' =>
              v # u /\ Kept(v) /\ Writing(v) /\ ~request'[v].alone
<1>1. request'[u] = Free
  BY DEF Commit, Left
<1>2. ASSUME NEW v \in Users, Writing(v)'
      PROVE  v # u /\ Kept(v) /\ Writing(v) /\ ~request'[v].alone
  <2>1. v # u /\ request[v] # Free
    BY <1>2 DEF Commit, Left, Writing
  <2>2. request'[v] = [request[v] EXCEPT !.alone = @ /\ request[v].stage = "begun",
                                         !.older = @ \ {u}]
    BY <2>1 DEF Commit, Left
  <2>3. request[v] \in Requests
    BY <2>1 DEF TypeOK
  <2>4. /\ request'[v].op = request[v].op /\ request'[v].qty = request[v].qty
        /\ request'[v].stage = request[v].stage
        /\ request'[v].to = request[v].to /\ request'[v].moves = request[v].moves
        /\ request'[v].alone = (request[v].alone /\ request[v].stage = "begun")
    BY <2>2, <2>3 DEF Requests
  <2> QED BY <1>2, <2>1, <2>4 DEF Kept, Writing
<1> QED BY <1>1, <1>2

LEMMA QuitKeeps ==
  ASSUME TypeOK, NEW u \in Users, Quit(u)
  PROVE  \A v \in Users : Writing(v)' => Kept(v) /\ Writing(v)
<1> SUFFICES ASSUME NEW v \in Users, Writing(v)' PROVE Kept(v) /\ Writing(v)
  OBVIOUS
<1>1. v # u /\ request[v] # Free
  BY DEF Quit, Writing
<1>2. request'[v] = [request[v] EXCEPT !.older = @ \ {u}]
  BY <1>1 DEF Quit
<1>3. request[v] \in Requests
  BY <1>1 DEF TypeOK
<1> QED BY <1>1, <1>2, <1>3 DEF Kept, Writing, Requests

(* A request has just derived its status                                    *)
Deriving(v) ==
  /\ request[v] # Free /\ request[v].op \in {"request", "ship", "cancelLine", "recalc"}
  /\ request'[v].op = request[v].op /\ request'[v].qty = request[v].qty
  /\ request'[v].stage = "counted"
  /\ \E waiting \in BOOLEAN : request'[v].to = Derived(LinesOf(v), waiting)

(* ... has just compared it with the header and asked the state machine     *)
Asking(v) ==
  /\ request[v] # Free /\ request[v].stage = "counted"
  /\ request'[v].op = request[v].op /\ request'[v].qty = request[v].qty
  /\ request'[v].to = request[v].to /\ request'[v].alone = request[v].alone
  /\ request'[v].stage = "moved"
  /\ request'[v].moves = (request[v].to # status)
  /\ request[v].to # status => <<log, request[v].to>> \in Transitions

(* ... has just asked it for what it wants anyhow                           *)
Claiming(v) ==
  /\ request'[v].stage = "moved" /\ request'[v].moves
  /\ \/ request'[v].op = "confirm" /\ request'[v].to = "Confirmed"
     \/ request'[v].op = "cancel" /\ request'[v].to = "Cancelled"
  /\ <<log, request'[v].to>> \in Transitions

Prepares ==
  /\ UNCHANGED <<status, log, line, crossed, disordered>>
  /\ \A v \in Users : Writing(v)' =>
       (Kept(v) /\ Writing(v)) \/ Deriving(v) \/ Asking(v) \/ Claiming(v)

LEMMA StepsPrepare ==
  ASSUME TypeOK, Next
  PROVE  Prepares \/ \E u \in Users : Settles(u) \/ FinishConfirm(u)
<1>1. CASE UNCHANGED <<status, log, later, line, request, crossed, disordered>>
  BY <1>1 DEF Prepares, Kept, Writing
<1>2. ASSUME NEW u \in Users,
             NEW op \in {"confirm", "request", "ship", "cancelLine", "recalc", "cancel",
                         "confirmPicking", "cancelPicking"},
             NEW p \in Pickings \cup {Free}, NEW q \in Amounts, NEW allocated \in SUBSET Lines,
             Begin(u, op, p, q, allocated)
      PROVE  Prepares
  <2>1. request'[u].stage = "begun"
    BY <1>2 DEF Begin, TypeOK
  <2>2. \A v \in Users : v # u => request'[v] = request[v]
    BY <1>2 DEF Begin, TypeOK
  <2>3. UNCHANGED <<status, log, line, crossed, disordered>>
    BY <1>2 DEF Begin
  <2> QED BY <2>1, <2>2, <2>3 DEF Prepares, Kept, Writing
<1>3. ASSUME NEW u \in Users, Counts(u) PROVE Prepares
  <2>1. PICK waiting \in BOOLEAN : Count(u, waiting)
    BY <1>3, CountsCount
  <2>2. request[u] \in Requests /\ request[u].op \in {"request", "ship", "cancelLine", "recalc"}
    BY <1>3, CountsCount DEF TypeOK
  <2>3. request' = [request EXCEPT ![u] = [request[u] EXCEPT !.stage = "counted",
                                               !.to = Derived(LinesOf(u), waiting)]]
    BY <2>1 DEF Count, ReadAfter, TypeOK
  <2>4. Deriving(u)
    BY <1>3, <2>2, <2>3, CountsCount DEF Deriving, Requests, TypeOK
  <2>5. \A v \in Users : v # u => request'[v] = request[v]
    BY <2>3 DEF TypeOK
  <2>6. UNCHANGED <<status, log, line, crossed, disordered>>
    BY <2>1 DEF Count
  <2> QED BY <2>4, <2>5, <2>6 DEF Prepares, Kept, Writing
<1>4. ASSUME NEW u \in Users, Moves(u) PROVE Prepares
  <2>1. request[u] \in Requests /\ request[u] # Free
    BY <1>4 DEF Moves, Move, MoveConfirm, MoveCancel, MoveTo, Doing, Writing, TypeOK
  <2>2. Asking(u) \/ Claiming(u)
    <3>1. CASE Move(u)
      <4>1. request' = [request EXCEPT ![u] = [request[u] EXCEPT !.stage = "moved",
                                                   !.moves = request[u].to # status]]
        BY <3>1 DEF Move, TypeOK
      <4>2. request'[u] = [request[u] EXCEPT !.stage = "moved", !.moves = request[u].to # status]
        BY <4>1 DEF TypeOK
      <4>3. /\ request'[u].op = request[u].op /\ request'[u].qty = request[u].qty
            /\ request'[u].to = request[u].to /\ request'[u].alone = request[u].alone
            /\ request'[u].stage = "moved"
        BY <2>1, <4>2 DEF Requests
      <4>4. request'[u].moves = (request[u].to # status)
        BY <2>1, <4>2 DEF Requests
      <4>5. request[u].to # status => <<log, request[u].to>> \in Transitions
        BY <3>1 DEF Move, Allowed
      <4> QED BY <2>1, <3>1, <4>3, <4>4, <4>5 DEF Move, Asking
    <3>2. ASSUME NEW op \in {"confirm", "cancel"}, NEW to, MoveTo(u, op, to),
                 (op = "confirm" /\ to = "Confirmed") \/ (op = "cancel" /\ to = "Cancelled")
          PROVE  Claiming(u)
      <4>1. request' = [request EXCEPT ![u] = [request[u] EXCEPT !.stage = "moved", !.to = to,
                                                                 !.moves = TRUE]]
        BY <3>2 DEF MoveTo, TypeOK
      <4>2. request'[u] = [request[u] EXCEPT !.stage = "moved", !.to = to, !.moves = TRUE]
        BY <4>1 DEF TypeOK
      <4>3. request[u].op = op
        BY <3>2 DEF MoveTo, Doing
      <4>4. request'[u].op = request[u].op
        BY <2>1, <4>2 DEF Requests
      <4>5. request'[u].to = to /\ request'[u].stage = "moved"
        BY <2>1, <4>2 DEF Requests
      <4>6. request'[u].moves = TRUE
        BY <2>1, <4>2 DEF Requests
      <4>7. <<log, to>> \in Transitions
        BY <3>2 DEF MoveTo, Allowed
      <4> QED BY <3>2, <4>3, <4>4, <4>5, <4>6, <4>7 DEF Claiming
    <3>3. MoveConfirm(u) => Claiming(u)
      BY <3>2 DEF MoveConfirm
    <3>4. MoveCancel(u) => Claiming(u)
      BY <3>2 DEF MoveCancel
    <3> QED BY <1>4, <3>1, <3>3, <3>4 DEF Moves
  <2>3. \A v \in Users : v # u => request'[v] = request[v]
    BY <1>4 DEF Moves, Move, MoveConfirm, MoveCancel, MoveTo, TypeOK
  <2>4. UNCHANGED <<status, log, line, crossed, disordered>>
    BY <1>4 DEF Moves, Move, MoveConfirm, MoveCancel, MoveTo
  <2> QED BY <2>2, <2>3, <2>4 DEF Prepares, Kept, Writing
<1>5. ASSUME NEW u \in Users, Quit(u) PROVE Prepares
  BY <1>5, QuitKeeps DEF Prepares, Quit
<1> QED BY <1>1, <1>2, <1>3, <1>4, <1>5, StepsOfNext

(* Destined is kept by every step                                           *)
LEMMA DestinedStep ==
  ASSUME TypeOK, Destined, Next
  PROVE  Destined'
<1>1. CASE Prepares
  <2> SUFFICES ASSUME NEW v \in Users, Writing(v)'
               PROVE  /\ request'[v].op \in {"request", "ship", "cancelLine", "recalc",
                                              "confirm", "cancel"}
                      /\ request'[v].op \in {"confirm", "cancel"} =>
                           request'[v].stage = "moved"
                      /\ request'[v].op = "confirm" =>
                           request'[v].to = "Confirmed" /\ request'[v].moves
                      /\ request'[v].op = "cancel" =>
                           request'[v].to = "Cancelled" /\ request'[v].moves
    BY DEF Destined
  <2>1. (Kept(v) /\ Writing(v)) \/ Deriving(v) \/ Asking(v) \/ Claiming(v)
    BY <1>1 DEF Prepares
  <2>2. CASE Kept(v) /\ Writing(v)
    BY <2>2 DEF Destined, Kept
  <2>3. CASE Deriving(v)
    BY <2>3 DEF Deriving
  <2>4. CASE Asking(v)
    BY <2>4 DEF Asking, Destined, Writing
  <2>5. CASE Claiming(v)
    BY <2>5 DEF Claiming
  <2> QED BY <2>1, <2>2, <2>3, <2>4, <2>5
<1>2. ASSUME NEW u \in Users, Commit(u) PROVE Destined'
  BY <1>2, CommitKeeps DEF Destined, Kept
<1> QED BY <1>1, <1>2, StepsPrepare DEF Settles, FinishConfirm

(* ... and the lines of two writers stay apart                              *)
LEMMA ApartStep ==
  ASSUME TypeOK, Apart, Next
  PROVE  Apart'
<1> DEFINE Writes(v, l) == Writing(v) /\ request[v].op \in {"ship", "cancelLine"}
                           /\ request[v].qty[l] > 0
<1>1. ASSUME \A v \in Users : Writing(v)' => Kept(v) /\ Writing(v) PROVE Apart'
  BY <1>1 DEF Apart, Kept
<1>2. ASSUME NEW u \in Users, Counts(u) PROVE Apart'
  <2>1. PICK waiting \in BOOLEAN : Count(u, waiting)
    BY <1>2, CountsCount
  <2>2. request[u] \in Requests
    BY <1>2, CountsCount DEF TypeOK
  <2>3. request' = [request EXCEPT ![u] = [request[u] EXCEPT !.stage = "counted",
                                               !.to = Derived(LinesOf(u), waiting)]]
    BY <2>1 DEF Count, ReadAfter, TypeOK
  <2>4. request'[u].op = request[u].op /\ request'[u].qty = request[u].qty
    BY <2>2, <2>3 DEF Requests, TypeOK
  <2>5. \A v \in Users : v # u => request'[v] = request[v]
    BY <2>3 DEF TypeOK
  <2>6. request[u].op \in {"ship", "cancelLine"} =>
          \A l \in Lines : request[u].qty[l] > 0 => ~LineLocked(l)
    BY <1>2 DEF Counts, CountRequest, CountShip, CountCancelLine, CountRecalc, Doing
  <2>7. \A v \in Users, l \in Lines :
          /\ v # u /\ Writing(v) /\ {request[u].op, request[v].op} \subseteq {"ship", "cancelLine"}
          => request[u].qty[l] = 0 \/ request[v].qty[l] = 0
    <3> SUFFICES ASSUME NEW v \in Users, NEW l \in Lines, v # u, Writing(v),
                        {request[u].op, request[v].op} \subseteq {"ship", "cancelLine"},
                        request[u].qty[l] # 0, request[v].qty[l] # 0
                 PROVE  FALSE
      OBVIOUS
    <3>1. request[v] \in Requests
      BY DEF Writing, TypeOK
    <3>2. request[u].qty[l] \in Nat /\ request[v].qty[l] \in Nat
      BY <2>2, <3>1, SalesOrderAssumption DEF Requests, Amounts
    <3>3. LineLocked(l)
      BY <3>2 DEF LineLocked
    <3> QED BY <2>6, <3>2, <3>3
  <2> QED BY <2>4, <2>5, <2>7 DEF Apart, Writing
<1>3. ASSUME NEW u \in Users, Moves(u) PROVE Apart'
  <2>1. CASE Move(u)
    <3>1. request[u] \in Requests
      BY <2>1 DEF Move, Writing, TypeOK
    <3>2. \A v \in Users : Writing(v)' => /\ Writing(v) /\ request'[v].op = request[v].op
                                          /\ request'[v].qty = request[v].qty
      BY <2>1, <3>1 DEF Move, Writing, TypeOK, Requests
    <3> QED BY <3>2 DEF Apart
  <2>2. ASSUME NEW op \in {"confirm", "cancel"}, NEW to, MoveTo(u, op, to) PROVE Apart'
    <3>1. request[u] \in Requests /\ request[u].op = op
      BY <2>2 DEF MoveTo, Doing, TypeOK
    <3>2. request'[u].op = op
      BY <2>2, <3>1 DEF MoveTo, TypeOK, Requests
    <3>3. \A v \in Users : v # u => request'[v] = request[v]
      BY <2>2 DEF MoveTo, TypeOK
    <3> QED BY <3>2, <3>3 DEF Apart, Writing
  <2> QED BY <1>3, <2>1, <2>2 DEF Moves, MoveConfirm, MoveCancel
<1>4. ASSUME NEW u \in Users,
             NEW op \in {"confirm", "request", "ship", "cancelLine", "recalc", "cancel",
                         "confirmPicking", "cancelPicking"},
             NEW p \in Pickings \cup {Free}, NEW q \in Amounts, NEW allocated \in SUBSET Lines,
             Begin(u, op, p, q, allocated)
      PROVE  Apart'
  <2>1. request'[u].stage = "begun"
    BY <1>4 DEF Begin, TypeOK
  <2>2. \A v \in Users : v # u => request'[v] = request[v]
    BY <1>4 DEF Begin, TypeOK
  <2> QED BY <2>1, <2>2 DEF Apart, Writing
<1>5. CASE UNCHANGED <<status, log, later, line, request, crossed, disordered>>
  BY <1>5 DEF Apart, Writing
<1>6. ASSUME NEW u \in Users, Commit(u) PROVE Apart'
  BY <1>1, <1>6, CommitKeeps
<1> QED BY <1>1, <1>2, <1>3, <1>4, <1>5, <1>6, StepsOfNext, QuitKeeps DEF Settles, FinishConfirm

-----------------------------------------------------------------------------
(* The header is true                                                       *)

LEMMA LinesKept ==
  ASSUME NEW v \in Users, Kept(v) \/ Deriving(v) \/ Asking(v), line' = line
  PROVE  LinesOf(v)' = LinesOf(v)
<1>1. request'[v].op = request[v].op /\ request'[v].qty = request[v].qty
  BY DEF Kept, Deriving, Asking
<1>2. LinesFor(line, request'[v]) = LinesFor(line, request[v])
  BY <1>1, LinesForSame
<1> QED BY <1>2, LinesOfFor

LEMMA LinesGrow ==
  ASSUME TypeOK, NEW u \in Users, request[u] # Free
  PROVE  Grows(line, LinesOf(u)) /\ KeepsReady(line, LinesOf(u))
<1> SUFFICES ASSUME NEW l \in Lines
             PROVE  /\ LinesOf(u)[l].shipped >= line[l].shipped
                    /\ LinesOf(u)[l].cancelled >= line[l].cancelled
                    /\ line[l].status \in {"Allocated", "Cancelled"} =>
                         LinesOf(u)[l].status \in {"Allocated", "Cancelled"}
  BY DEF Grows, KeepsReady
<1>1. request[u] \in Requests /\ line \in [Lines -> LineRecords]
  BY DEF TypeOK
<1>2. line[l].shipped \in Nat /\ line[l].cancelled \in Nat
  BY <1>1 DEF LineRecords
<1> QED BY <1>1, <1>2, LinesForFields, LinesOfFor

(* ... and so do the lines another request will commit                      *)
LEMMA OthersGrow ==
  ASSUME TypeOK, TypeOK', Apart, Destined, NEW u \in Users, Settles(u),
         NEW v \in Users, Writing(v)'
  PROVE  Grows(LinesOf(v), LinesOf(v)') /\ KeepsReady(LinesOf(v), LinesOf(v)')
<1>1. v # u /\ Kept(v) /\ Writing(v)
  BY CommitKeeps DEF Settles
<1>2. /\ request[u] \in Requests /\ request[v] \in Requests /\ request'[v] \in Requests
      /\ line \in [Lines -> LineRecords] /\ line' \in [Lines -> LineRecords]
  BY <1>1 DEF Settles, Moved, Writing, TypeOK
<1>3. request'[v].op = request[v].op /\ request'[v].qty = request[v].qty
  BY <1>1 DEF Kept
<1>4. line' = LinesFor(line, request[u])
  BY LinesOfFor DEF Settles
<1> SUFFICES ASSUME NEW l \in Lines
             PROVE  /\ LinesOf(v)'[l].shipped >= LinesOf(v)[l].shipped
                    /\ LinesOf(v)'[l].cancelled >= LinesOf(v)[l].cancelled
                    /\ LinesOf(v)[l].status \in {"Allocated", "Cancelled"} =>
                         LinesOf(v)'[l].status \in {"Allocated", "Cancelled"}
  BY DEF Grows, KeepsReady
<1>5. /\ line[l].shipped \in Nat /\ line[l].cancelled \in Nat
      /\ line'[l].shipped \in Nat /\ line'[l].cancelled \in Nat
      /\ request[u].qty[l] \in Nat /\ request[v].qty[l] \in Nat
  BY <1>2, LinesForFields DEF LineRecords
<1>6. /\ line'[l].shipped >= line[l].shipped /\ line'[l].cancelled >= line[l].cancelled
      /\ line'[l].status = line[l].status \/ line'[l].status = "Cancelled"
  BY <1>2, <1>4, <1>5, LinesForFields
<1>7. request[v].op = "cancelLine" /\ request[v].qty[l] > 0 => line'[l].status = line[l].status
                                                              /\ Open(line', l) = Open(line, l)
  <2> SUFFICES ASSUME request[v].op = "cancelLine", request[v].qty[l] > 0
               PROVE  line'[l].status = line[l].status /\ Open(line', l) = Open(line, l)
    OBVIOUS
  <2>1. request[u].op \in {"ship", "cancelLine"} => request[u].qty[l] = 0
    BY <1>1, <1>5 DEF Apart, Settles, Moved, Writing
  <2>2. /\ line'[l].shipped = line[l].shipped /\ line'[l].cancelled = line[l].cancelled
        /\ line'[l].status = line[l].status
    BY <1>2, <1>4, <1>5, <2>1, LinesForFields
  <2> QED BY <2>2 DEF Open
<1>8. /\ LinesOf(v)[l].shipped
           = IF request[v].op = "ship" THEN line[l].shipped + request[v].qty[l]
             ELSE line[l].shipped
      /\ LinesOf(v)[l].cancelled
           = IF request[v].op = "cancelLine" THEN line[l].cancelled + request[v].qty[l]
             ELSE line[l].cancelled
      /\ LinesOf(v)[l].status
           = IF /\ request[v].op = "cancelLine" /\ request[v].qty[l] > 0
                /\ request[v].qty[l] = Open(line, l)
             THEN "Cancelled" ELSE line[l].status
  BY <1>2, LinesForFields, LinesOfFor
<1>9. /\ LinesOf(v)'[l].shipped
           = IF request[v].op = "ship" THEN line'[l].shipped + request[v].qty[l]
             ELSE line'[l].shipped
      /\ LinesOf(v)'[l].cancelled
           = IF request[v].op = "cancelLine" THEN line'[l].cancelled + request[v].qty[l]
             ELSE line'[l].cancelled
      /\ LinesOf(v)'[l].status
           = IF /\ request[v].op = "cancelLine" /\ request[v].qty[l] > 0
                /\ request[v].qty[l] = Open(line', l)
             THEN "Cancelled" ELSE line'[l].status
  BY <1>2, <1>3, LinesForFields, LinesOfFor
<1>10. /\ LinesOf(v)'[l].shipped >= LinesOf(v)[l].shipped
       /\ LinesOf(v)'[l].cancelled >= LinesOf(v)[l].cancelled
  BY <1>5, <1>6, <1>8, <1>9
<1> QED BY <1>6, <1>7, <1>8, <1>9, <1>10

LEMMA HeaderTruthForm == HeaderIsTrue = Truth(status, line)
BY DEF HeaderIsTrue, Truth, AllSettled, AnyShipped

LEMMA TruthPrepares ==
  ASSUME TruthInv, TypeOK', Prepares
  PROVE  HeaderIsTrue' /\ DerivesTruth'
<1>1. HeaderIsTrue'
  BY DEF Prepares, TruthInv, HeaderIsTrue, AllSettled, AnyShipped
<1> SUFFICES ASSUME NEW v \in Users, Derives(v)'
             PROVE  /\ Truth(request'[v].to, LinesOf(v)')
                    /\ request'[v].to = "ReadyToShip" => \E l \in Lines : line'[l].status # "New"
  BY <1>1 DEF DerivesTruth, Truth, AllSettled, AnyShipped
<1>2. line' = line
  BY DEF Prepares
<1>3. CASE (Kept(v) /\ Writing(v)) \/ Asking(v)
  <2>1. LinesOf(v)' = LinesOf(v)
    BY <1>2, <1>3, LinesKept
  <2>2. Derives(v) /\ request'[v].to = request[v].to
    BY <1>3 DEF Kept, Asking, Derives, Writing
  <2> QED BY <1>2, <2>1, <2>2 DEF TruthInv, DerivesTruth
<1>4. CASE Deriving(v)
  <2>1. LinesOf(v)' = LinesOf(v)
    BY <1>2, <1>4, LinesKept
  <2>2. PICK waiting \in BOOLEAN : request'[v].to = Derived(LinesOf(v), waiting)
    BY <1>4 DEF Deriving
  <2>3. LinesOf(v) \in [Lines -> LineRecords]
    BY <1>4, LinesOfTyped DEF Deriving, TruthInv
  <2>4. request'[v].to = "ReadyToShip" => \E l \in Lines : line[l].status # "New"
    <3> SUFFICES ASSUME AllAllocated(LinesOf(v)) PROVE \E l \in Lines : line[l].status # "New"
      BY <2>2, <2>3, DerivedTruth
    <3>1. PICK l \in Lines : LinesOf(v)[l].status = "Allocated"
      BY DEF AllAllocated
    <3>2. line[l].status = "Allocated"
      BY <1>4, <3>1, LinesForFields, LinesOfFor DEF Deriving, TruthInv, TypeOK
    <3> QED BY <3>2
  <2> QED BY <1>2, <2>1, <2>2, <2>3, <2>4, DerivedTruth
<1>5. CASE Claiming(v)
  BY <1>5 DEF Claiming, Derives
<1> QED BY <1>3, <1>4, <1>5 DEF Prepares, Derives

LEMMA TruthSettles ==
  ASSUME TruthInv, TypeOK', NEW u \in Users, Settles(u)
  PROVE  HeaderIsTrue' /\ DerivesTruth'
<1>1. line' \in [Lines -> LineRecords] /\ line \in [Lines -> LineRecords]
  BY DEF TruthInv, TypeOK
<1>2. Grows(line, line') /\ KeepsReady(line, line')
  BY LinesGrow DEF Settles, Moved, TruthInv
<1>3. Truth(status', line')
  <2>1. CASE ~request[u].moves
    BY <1>1, <1>2, <2>1, TruthKeeps, HeaderTruthForm DEF Settles, WriteHeader, TruthInv
  <2>2. CASE request[u].moves /\ request[u].op = "cancel"
    BY <2>2 DEF Settles, Moved, WriteHeader, TruthInv, Destined, Writing, Truth
  <2>3. CASE request[u].moves /\ request[u].op # "cancel"
    <3>1. Derives(u)
      BY <2>3 DEF Settles, Moved, Derives, Writing
    <3> QED BY <2>3, <3>1 DEF Settles, WriteHeader, TruthInv, DerivesTruth
  <2> QED BY <2>1, <2>2, <2>3
<1>4. ASSUME NEW v \in Users, Derives(v)'
      PROVE  /\ Truth(request'[v].to, LinesOf(v)')
             /\ request'[v].to = "ReadyToShip" => \E l \in Lines : line'[l].status # "New"
  <2>1. Kept(v) /\ Writing(v)
    BY <1>4, CommitKeeps DEF Settles, Derives, TruthInv
  <2>2. Derives(v) /\ request'[v].to = request[v].to
    BY <1>4, <2>1 DEF Kept, Derives
  <2>3. Truth(request[v].to, LinesOf(v))
    BY <2>2 DEF TruthInv, DerivesTruth
  <2>4. LinesOf(v) \in [Lines -> LineRecords] /\ LinesOf(v)' \in [Lines -> LineRecords]
    <3>1. LinesOf(v) \in [Lines -> LineRecords]
      BY <2>1, LinesOfTyped DEF TruthInv, Kept
    <3>2. /\ request'[v] \in Requests
          /\ request[v].op = request'[v].op /\ request[v].qty = request'[v].qty
      BY <1>4, <2>1 DEF Derives, Writing, TypeOK, Kept
    <3>3. LinesFor(line', request'[v]) \in [Lines -> LineRecords]
      BY <1>1, <3>2, LinesForTyped
    <3> QED BY <3>1, <3>3, LinesOfFor
  <2>5. Grows(LinesOf(v), LinesOf(v)') /\ KeepsReady(LinesOf(v), LinesOf(v)')
    BY <1>4, OthersGrow DEF TruthInv, Derives
  <2>6. Truth(request[v].to, LinesOf(v)')
    BY <2>3, <2>4, <2>5, TruthKeeps
  <2>7. \A l \in Lines : line[l].status # "New" => line'[l].status # "New"
    BY LinesForFields, LinesOfFor DEF Settles, Moved, TruthInv, TypeOK
  <2>8. request[v].to = "ReadyToShip" => \E l \in Lines : line[l].status # "New"
    BY <2>2 DEF TruthInv, DerivesTruth
  <2> QED BY <2>2, <2>6, <2>7, <2>8
<1> QED BY <1>3, <1>4 DEF HeaderIsTrue, DerivesTruth, Truth, AllSettled, AnyShipped

LEMMA TruthConfirmed ==
  ASSUME TruthInv, TypeOK', NEW u \in Users, FinishConfirm(u)
  PROVE  HeaderIsTrue' /\ DerivesTruth'
<1>1. /\ line' = Planned(u) /\ status' = Derived(Planned(u), Waiting)
      /\ \A l \in Lines : line[l].status = "New"
      /\ Commit(u)
  BY DEF FinishConfirm
<1>2. line' \in [Lines -> LineRecords] /\ line \in [Lines -> LineRecords]
  BY DEF TruthInv, TypeOK
<1>3. Truth(status', line')
  BY <1>1, <1>2, DerivedTruth
<1>4. ASSUME NEW v \in Users, Derives(v)'
      PROVE  /\ Truth(request'[v].to, LinesOf(v)')
             /\ request'[v].to = "ReadyToShip" => \E l \in Lines : line'[l].status # "New"
  <2>1. Kept(v) /\ Writing(v)
    BY <1>1, <1>4, CommitKeeps DEF Derives, TruthInv
  <2>2. Derives(v) /\ request'[v].to = request[v].to
    BY <1>4, <2>1 DEF Kept, Derives
  <2>3. Truth(request[v].to, LinesOf(v)) /\ request[v].to # "ReadyToShip"
    BY <1>1, <2>2 DEF TruthInv, DerivesTruth
  <2>4. /\ request[v] \in Requests /\ request'[v] \in Requests
        /\ request'[v].op = request[v].op /\ request'[v].qty = request[v].qty
    BY <1>4, <2>1 DEF Derives, Writing, TypeOK, Kept, TruthInv
  <2>5. LinesOf(v) \in [Lines -> LineRecords] /\ LinesOf(v)' \in [Lines -> LineRecords]
    BY <1>2, <2>4, LinesForTyped, LinesOfFor
  <2>6. \A l \in Lines : line'[l].shipped = line[l].shipped
                         /\ line'[l].cancelled = line[l].cancelled
    BY <1>1, <1>2 DEF Planned, LineRecords
  <2>7. Grows(LinesOf(v), LinesOf(v)')
    <3> SUFFICES ASSUME NEW l \in Lines
                 PROVE  /\ LinesOf(v)'[l].shipped >= LinesOf(v)[l].shipped
                        /\ LinesOf(v)'[l].cancelled >= LinesOf(v)[l].cancelled
      BY DEF Grows
    <3>1. /\ LinesOf(v)'[l].shipped = LinesOf(v)[l].shipped
          /\ LinesOf(v)'[l].cancelled = LinesOf(v)[l].cancelled
      BY <1>2, <2>4, <2>6, LinesForFields, LinesOfFor
    <3>2. LinesOf(v)[l].shipped \in Nat /\ LinesOf(v)[l].cancelled \in Nat
      BY <2>5 DEF LineRecords
    <3> QED BY <3>1, <3>2
  <2> QED BY <2>2, <2>3, <2>5, <2>7, TruthKeeps
<1> QED BY <1>3, <1>4 DEF HeaderIsTrue, DerivesTruth, Truth, AllSettled, AnyShipped

LEMMA TruthStep == TruthInv /\ [Next]_vars => TruthInv'
<1> SUFFICES ASSUME TruthInv, [Next]_vars PROVE TruthInv'
  OBVIOUS
<1>1. CASE UNCHANGED vars
  BY <1>1 DEF vars, TruthInv, TypeOK, Destined, Apart, HeaderIsTrue, DerivesTruth, Truth,
              AllSettled, AnyShipped, Derives, Writing, LinesOf, Open
<1>2. CASE Next
  <2>1. TypeOK'
    BY TypeStep DEF TruthInv
  <2>2. Destined' /\ Apart'
    BY <1>2, DestinedStep, ApartStep DEF TruthInv
  <2>3. HeaderIsTrue' /\ DerivesTruth'
    BY <1>2, <2>1, StepsPrepare, TruthPrepares, TruthSettles, TruthConfirmed DEF TruthInv
  <2> QED BY <2>1, <2>2, <2>3 DEF TruthInv
<1> QED BY <1>1, <1>2

(* What the header says is true, however many users ship, cancel and plan   *)
(* at the same time: who derives it counts on lines it holds.               *)
THEOREM HeaderTells == Spec => []HeaderIsTrue
<1>1. Init => TruthInv
  <2>1. Init => Destined /\ Apart /\ HeaderIsTrue /\ DerivesTruth
    BY DEF Init, Destined, Apart, HeaderIsTrue, DerivesTruth, Derives, Writing
  <2> QED BY <2>1, TypeInit DEF TruthInv
<1>2. TruthInv => HeaderIsTrue
  BY DEF TruthInv
<1> QED BY <1>1, <1>2, TruthStep, PTL DEF Spec

-----------------------------------------------------------------------------
(* The header follows the lines, and a cancelled order is left alone        *)

LEMMA FollowForm ==
  HeaderFollowsLines = (~crossed /\ status \notin {"Draft", "Cancelled"} => Follows(status, line))
BY DEF HeaderFollowsLines, Follows

LEMMA FollowPrepares ==
  ASSUME FollowInv, Prepares
  PROVE  HeaderFollowsLines' /\ DerivesAll' /\ StaysIfEqual'
<1>1. UNCHANGED <<status, line, crossed>>
  BY DEF Prepares
<1>2. HeaderFollowsLines'
  BY <1>1 DEF FollowInv, HeaderFollowsLines, AllSettled, AnyShipped
<1>3. ASSUME NEW v \in Users, Derives(v)', request'[v].alone
      PROVE  /\ request'[v].to \notin {"Draft", "Cancelled"}
             /\ Follows(request'[v].to, LinesOf(v)')
  <2>1. CASE (Kept(v) /\ Writing(v)) \/ Asking(v)
    <3>1. LinesOf(v)' = LinesOf(v)
      BY <1>1, <2>1, LinesKept
    <3>2. Derives(v) /\ request[v].alone /\ request'[v].to = request[v].to
      BY <1>3, <2>1 DEF Kept, Asking, Derives, Writing
    <3> QED BY <3>1, <3>2 DEF FollowInv, DerivesAll
  <2>2. CASE Deriving(v)
    <3>1. LinesOf(v)' = LinesOf(v)
      BY <1>1, <2>2, LinesKept
    <3>2. PICK waiting \in BOOLEAN : request'[v].to = Derived(LinesOf(v), waiting)
      BY <2>2 DEF Deriving
    <3>3. LinesOf(v) \in [Lines -> LineRecords]
      BY <2>2, LinesOfTyped DEF Deriving, FollowInv
    <3>4. Derived(LinesOf(v), waiting) \notin {"Draft", "Cancelled"}
      BY HeaderOfTyped
    <3> QED BY <3>1, <3>2, <3>3, <3>4, DerivedTruth
  <2>3. CASE Claiming(v)
    BY <1>3, <2>3 DEF Claiming, Derives
  <2> QED BY <1>3, <2>1, <2>2, <2>3 DEF Prepares, Derives
<1>4. StaysIfEqual'
  <2> SUFFICES ASSUME NEW v \in Users, Moved(v)', request'[v].alone, ~request'[v].moves
               PROVE  status' = request'[v].to
    BY DEF StaysIfEqual
  <2>1. (Kept(v) /\ Writing(v)) \/ Deriving(v) \/ Asking(v) \/ Claiming(v)
    BY DEF Prepares, Moved, Writing
  <2>2. CASE Kept(v) /\ Writing(v)
    BY <1>1, <2>2 DEF Kept, Moved, FollowInv, StaysIfEqual
  <2>3. CASE Asking(v)
    BY <1>1, <2>3 DEF Asking
  <2> QED BY <2>1, <2>2, <2>3 DEF Deriving, Claiming, Moved
<1> QED BY <1>2, <1>3, <1>4 DEF DerivesAll, Follows, AllSettled, AnyShipped

LEMMA FollowCommits ==
  ASSUME FollowInv, TypeOK', NEW u \in Users, Settles(u) \/ FinishConfirm(u)
  PROVE  HeaderFollowsLines' /\ DerivesAll' /\ StaysIfEqual'
<1>1. Commit(u)
  BY DEF Settles, FinishConfirm
<1>2. \A v \in Users : Writing(v)' => ~request'[v].alone
  BY <1>1, CommitKeeps DEF FollowInv
<1>3. DerivesAll' /\ StaysIfEqual'
  BY <1>2 DEF DerivesAll, StaysIfEqual, Derives, Moved, Writing
<1>4. ASSUME ~crossed', status' \notin {"Draft", "Cancelled"} PROVE Follows(status', line')
  <2>1. request[u].alone
    BY <1>1, <1>4 DEF Commit
  <2>2. CASE FinishConfirm(u)
    <3>1. Planned(u) \in [Lines -> LineRecords]
      BY <2>2 DEF FinishConfirm, TypeOK
    <3> QED BY <2>2, <3>1, DerivedTruth DEF FinishConfirm
  <2>3. CASE Settles(u)
    <3>1. status' = request[u].to
      BY <2>1, <2>3 DEF Settles, WriteHeader, FollowInv, StaysIfEqual
    <3>2. Derives(u)
      BY <1>4, <2>3, <3>1 DEF Settles, Derives, Moved, Writing, FollowInv, Destined
    <3> QED BY <2>1, <2>3, <3>1, <3>2 DEF Settles, FollowInv, DerivesAll
  <2> QED BY <2>2, <2>3
<1>5. HeaderFollowsLines'
  BY <1>4 DEF HeaderFollowsLines, Follows, AllSettled, AnyShipped
<1> QED BY <1>3, <1>5

LEMMA FollowStep == FollowInv /\ [Next]_vars => FollowInv'
<1> SUFFICES ASSUME FollowInv, [Next]_vars PROVE FollowInv'
  OBVIOUS
<1>1. CASE UNCHANGED vars
  BY <1>1 DEF vars, FollowInv, TypeOK, Destined, HeaderFollowsLines, DerivesAll, StaysIfEqual,
              Follows, AllSettled, AnyShipped, Derives, Writing, Moved, LinesOf, Open
<1>2. CASE Next
  <2>1. TypeOK' /\ Destined'
    BY <1>2, TypeStep, DestinedStep DEF FollowInv
  <2>2. HeaderFollowsLines' /\ DerivesAll' /\ StaysIfEqual'
    BY <1>2, <2>1, StepsPrepare, FollowPrepares, FollowCommits DEF FollowInv
  <2> QED BY <2>1, <2>2 DEF FollowInv
<1> QED BY <1>1, <1>2

LEMMA FollowInit == Init => FollowInv
<1>1. Init => Destined /\ HeaderFollowsLines /\ DerivesAll /\ StaysIfEqual
  BY DEF Init, Destined, HeaderFollowsLines, DerivesAll, StaysIfEqual, Derives, Writing, Moved
<1> QED BY <1>1, TypeInit DEF FollowInv

(* The header follows the lines as long as no two requests overlap.         *)
THEOREM HeaderFollows == Spec => []HeaderFollowsLines
<1>1. FollowInv => HeaderFollowsLines
  BY DEF FollowInv
<1> QED BY <1>1, FollowInit, FollowStep, PTL DEF Spec

LEMMA LogPrepares ==
  ASSUME LogInv, Prepares
  PROVE  LogTells' /\ AllowedFromHere'
<1>1. LogTells'
  BY DEF Prepares, LogInv, LogTells
<1>2. AllowedFromHere'
  <2> SUFFICES ASSUME NEW v \in Users, Moved(v)', request'[v].alone, request'[v].moves,
                      ~crossed', ~disordered'
               PROVE  <<status', request'[v].to>> \in Transitions
    BY DEF AllowedFromHere
  <2>1. log = status /\ UNCHANGED <<status, crossed, disordered>>
    BY DEF Prepares, LogInv, LogTells
  <2>2. (Kept(v) /\ Writing(v)) \/ Deriving(v) \/ Asking(v) \/ Claiming(v)
    BY DEF Prepares, Moved, Writing
  <2>3. CASE Kept(v) /\ Writing(v)
    BY <2>1, <2>3 DEF Kept, Moved, LogInv, AllowedFromHere
  <2>4. CASE Asking(v)
    BY <2>1, <2>4 DEF Asking
  <2>5. CASE Claiming(v)
    BY <2>1, <2>5 DEF Claiming
  <2> QED BY <2>2, <2>3, <2>4, <2>5 DEF Deriving, Moved
<1> QED BY <1>1, <1>2

LEMMA LogCommits ==
  ASSUME LogInv, NEW u \in Users, Settles(u) \/ FinishConfirm(u)
  PROVE  LogTells' /\ AllowedFromHere'
<1>1. Commit(u)
  BY DEF Settles, FinishConfirm
<1>2. \A v \in Users : Writing(v)' => ~request'[v].alone
  BY <1>1, CommitKeeps DEF LogInv, FollowInv
<1>3. AllowedFromHere'
  BY <1>2 DEF AllowedFromHere, Moved, Writing
<1>4. LogTells'
  <2> SUFFICES ASSUME ~crossed', ~disordered' PROVE log' = status'
    BY DEF LogTells
  <2>1. ~crossed
    BY <1>1 DEF Commit
  <2>2. CASE FinishConfirm(u)
    BY <2>2 DEF FinishConfirm, Logged
  <2>3. CASE Settles(u) /\ request[u].moves
    BY <2>3 DEF Settles, WriteHeader, Logged
  <2>4. CASE Settles(u) /\ ~request[u].moves
    BY <2>1, <2>4 DEF Settles, WriteHeader, Unlogged, LogInv, LogTells
  <2> QED BY <2>2, <2>3, <2>4
<1> QED BY <1>3, <1>4

LEMMA LogStep == LogInv /\ [Next]_vars => LogInv'
<1> SUFFICES ASSUME LogInv, [Next]_vars PROVE LogInv'
  OBVIOUS
<1>1. FollowInv'
  BY FollowStep DEF LogInv
<1>2. CASE UNCHANGED vars
  BY <1>1, <1>2 DEF vars, LogInv, LogTells, AllowedFromHere, Moved
<1>3. CASE Next
  <2>1. LogTells' /\ AllowedFromHere'
    BY <1>3, StepsPrepare, LogPrepares, LogCommits DEF LogInv, FollowInv
  <2> QED BY <1>1, <2>1 DEF LogInv
<1> QED BY <1>2, <1>3

LEMMA NothingAfterCancelled ==
  \A s \in OrderStatus : <<"Cancelled", s>> \notin Transitions
BY DEF Transitions, OrderStatus

LEMMA CancelledStep ==
  ASSUME LogInv, [Next]_vars, status = "Cancelled", ~crossed', ~disordered
  PROVE  status' = "Cancelled" /\ \A l \in Lines : line'[l].shipped = line[l].shipped
<1>1. CASE UNCHANGED vars
  BY <1>1 DEF vars
<1>2. CASE Prepares
  BY <1>2 DEF Prepares
<1>3. ASSUME NEW u \in Users, Settles(u) \/ FinishConfirm(u) PROVE FALSE
  <2>1. request[u].alone /\ ~crossed
    BY <1>3 DEF Settles, FinishConfirm, Commit
  <2>2. Moved(u) /\ request[u] \in Requests
    BY <1>3 DEF Settles, FinishConfirm, Doing, Moved, LogInv, FollowInv, TypeOK
  <2>3. ~request[u].moves
    BY <2>1, <2>2, NothingAfterCancelled DEF LogInv, AllowedFromHere, Requests
  <2>4. request[u].to = "Cancelled"
    BY <2>1, <2>2, <2>3 DEF LogInv, FollowInv, StaysIfEqual
  <2>5. ~Derives(u)
    BY <2>1, <2>4 DEF LogInv, FollowInv, DerivesAll
  <2>6. request[u].op \in {"confirm", "cancel"}
    BY <2>2, <2>5 DEF Moved, Writing, Derives, LogInv, FollowInv, Destined
  <2> QED BY <2>2, <2>3, <2>6 DEF Moved, Writing, LogInv, FollowInv, Destined
<1> QED BY <1>1, <1>2, <1>3, StepsPrepare DEF LogInv, FollowInv

(* A cancelled order stays cancelled and ships nothing more, unless         *)
(* requests overlapped or the log hides its newest row.                     *)
THEOREM CancelledStays == Spec => CancelledIsFinal
<1>1. Init => LogInv
  BY FollowInit DEF Init, LogInv, LogTells, AllowedFromHere, Moved
<1>2. LogInv /\ [Next]_vars =>
        [status = "Cancelled" /\ ~crossed' /\ ~disordered =>
           status' = "Cancelled" /\ \A l \in Lines : line'[l].shipped = line[l].shipped]_vars
  BY CancelledStep
<1> QED BY <1>1, <1>2, LogStep, PTL DEF Spec, CancelledIsFinal
=============================================================================
