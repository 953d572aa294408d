---------------------------- MODULE LedgerProofs ----------------------------
(***************************************************************************)
(* Proofs about Ledger, for any documents, amounts, cashiers and bounds:   *)
(* its type invariant; that no document is applied beyond its amount,      *)
(* although settle checks the amounts on rows that nobody keeps from       *)
(* changing; that a shipment has no revenue before its cost; and that the  *)
(* rows say what the settlements add up to.                                *)
(*                                                                         *)
(* The invariants hold too while the receipts of Purchasing rewrite the    *)
(* payables of orders (OrderWritten): what they say of the amount of a row *)
(* leaves the orders out, and what they say of an order's sum stands only  *)
(* as long as no request has written it from an older row.                 *)
(***************************************************************************)
EXTENDS Ledger, SumsProofs

(***************************************************************************)
(* Types                                                                   *)
(***************************************************************************)

LEMMA Kinds ==
  /\ Shipments \subseteq Docs /\ Returns \subseteq Docs /\ Journals \subseteq Docs
  /\ Adjustments \subseteq Docs /\ Orders \subseteq Docs
  /\ Announced \subseteq Docs \ Orders
  /\ Journals \cap Orders = {} /\ Adjustments \cap Orders = {}
  /\ Shipments \cap (Journals \cup Adjustments \cup Returns) = {}
  /\ \A i \in Invoices, p \in Payments : i # p /\ i \in Docs /\ p \in Docs /\ p \notin Orders
BY LedgerAssumption DEF Docs, Invoices, Payments, Announced

LEMMA RequestType ==
  ASSUME LedgerTypeOK, NEW c \in Cashiers, desk[c] # Free
  PROVE  /\ desk[c] \in Requests
         /\ desk[c].row \in Settlements
         /\ desk[c].inv \in LedgerRows /\ desk[c].pay \in LedgerRows
         /\ desk[c].row.invoice \in Invoices /\ desk[c].row.payment \in Payments
         /\ desk[c].row.amount \in Nat \ {0}
<1>1. desk[c] \in Requests
  BY DEF LedgerTypeOK
<1>2. desk[c].row \in Settlements /\ desk[c].inv \in LedgerRows /\ desk[c].pay \in LedgerRows
  BY <1>1 DEF Requests
<1>3. QED
  BY <1>1, <1>2 DEF Settlements

(* The rows that a request holds are those it names. *)
LEMMA HeldBy ==
  ASSUME LedgerTypeOK, NEW c \in Cashiers, desk[c] # Free
  PROVE  /\ HeldRows(c)[desk[c].row.invoice] = desk[c].inv
         /\ HeldRows(c)[desk[c].row.payment] = desk[c].pay
  BY RequestType, Kinds DEF HeldRows

LEMMA NewRowType ==
  ASSUME NEW d \in Docs \ Orders
  PROVE  NewRow(d) \in LedgerRows /\ NewRow(d).amount = Amount[d] /\ NewRow(d).applied = 0
         /\ Amount[d] \in Nat /\ (d \in Journals => Amount[d] > 0)
  BY LedgerAssumption DEF NewRow, LedgerRows

(* Two sums written at once *)
WithApplied(d, a) == [amount |-> ledger[d].amount, applied |-> a]

LEMMA WriteTwo ==
  ASSUME LedgerTypeOK, NEW i \in Docs, NEW p \in Docs \ {i}, NEW x \in Nat, NEW y \in Nat,
         ledger' = [ledger EXCEPT ![i].applied = x, ![p].applied = y]
  PROVE  /\ ledger' \in [Docs -> LedgerRows]
         /\ ledger'[i] = WithApplied(i, x) /\ ledger'[p] = WithApplied(p, y)
         /\ \A d \in Docs \ {i, p} : ledger'[d] = ledger[d]
<1>1. ledger[i] \in LedgerRows /\ ledger[p] \in LedgerRows
  BY DEF LedgerTypeOK
<1>2. /\ [ledger[i] EXCEPT !.applied = x] = WithApplied(i, x)
      /\ [ledger[p] EXCEPT !.applied = y] = WithApplied(p, y)
  BY <1>1 DEF LedgerRows, WithApplied
<1>3. WithApplied(i, x) \in LedgerRows /\ WithApplied(p, y) \in LedgerRows
  BY <1>1 DEF LedgerRows, WithApplied
<1>4. ledger' = [ledger EXCEPT ![i] = WithApplied(i, x), ![p] = WithApplied(p, y)]
  BY <1>2 DEF LedgerTypeOK
<1>5. QED
  BY <1>3, <1>4 DEF LedgerTypeOK

LEMMA InsertType ==
  ASSUME LedgerTypeOK, NEW row \in Settlements, Insert(row)
  PROVE  settlements' \in SUBSET Settlements /\ issued' \in Nat
  BY DEF LedgerTypeOK, Insert, Settlements

LEMMA SettleTypes ==
  ASSUME LedgerTypeOK, NEW c \in Cashiers,
         \/ \E i \in Invoices, p \in Payments : StartSettle(c, i, p)
         \/ FinishSettle(c)
  PROVE  LedgerTypeOK'
<1>1. ASSUME NEW i \in Invoices, NEW p \in Payments, StartSettle(c, i, p)
      PROVE  LedgerTypeOK'
  <2>1. PICK a \in Settleable(i, p) :
          desk' = [desk EXCEPT ![c] = Request("settle", "read",
            [no |-> 0, invoice |-> i, payment |-> p, amount |-> a], ledger[i], ledger[p])]
    BY <1>1 DEF StartSettle
  <2>2. ledger[i] \in LedgerRows /\ ledger[p] \in LedgerRows
    BY Kinds DEF LedgerTypeOK
  <2>3. a \in Nat \ {0}
    BY <2>2 DEF Settleable, Outstanding, LedgerRows
  <2>4. [no |-> 0, invoice |-> i, payment |-> p, amount |-> a] \in Settlements
    BY <2>3 DEF Settlements
  <2>5. desk' \in [Cashiers -> {Free} \cup Requests]
    BY <2>1, <2>2, <2>4 DEF Request, Requests, LedgerTypeOK
  <2>6. QED
    BY <1>1, <2>5 DEF StartSettle, LedgerTypeOK, events
<1>2. CASE FinishSettle(c)
  <2> DEFINE row == desk[c].row
  <2>1. desk[c] # Free
    BY <1>2 DEF FinishSettle, AtStep
  <2>2. /\ desk[c].inv.applied + row.amount \in Nat
        /\ desk[c].pay.applied + row.amount \in Nat
    BY <2>1, RequestType DEF LedgerRows
  <2>3. ledger' = [ledger EXCEPT ![row.invoice].applied = desk[c].inv.applied + row.amount,
                                 ![row.payment].applied = desk[c].pay.applied + row.amount]
    BY <1>2, <2>1, HeldBy DEF FinishSettle, AppliedTo
  <2>4. ledger' \in [Docs -> LedgerRows]
    BY <2>1, <2>2, <2>3, RequestType, Kinds, WriteTwo
  <2>5. settlements' \in SUBSET Settlements /\ issued' \in Nat
    BY <1>2, <2>1, RequestType, InsertType DEF FinishSettle
  <2>6. stale' \in SUBSET Docs
    BY <1>2, <2>1, RequestType, Kinds DEF FinishSettle, Overtaken, LedgerTypeOK
  <2>7. QED
    BY <1>2, <2>4, <2>5, <2>6 DEF FinishSettle, LedgerTypeOK, events
<1>3. QED
  BY <1>1, <1>2

LEMMA UnsettleTypes ==
  ASSUME LedgerTypeOK, NEW c \in Cashiers,
         \/ \E s \in settlements : StartUnsettle(c, s)
         \/ ReadPayment(c) \/ UpdatePayment(c) \/ FinishUnsettle(c) \/ RollBack(c)
  PROVE  LedgerTypeOK'
<1>1. ASSUME NEW s \in settlements, StartUnsettle(c, s)  PROVE LedgerTypeOK'
  <2>1. s \in Settlements /\ NoRow \in LedgerRows
    BY DEF LedgerTypeOK, NoRow, LedgerRows
  <2>2. Request("unsettle", "found", s, NoRow, NoRow) \in Requests
    BY <2>1 DEF Request, Requests
  <2>3. QED
    BY <1>1, <2>2 DEF StartUnsettle, LedgerTypeOK, events
<1>2. CASE ReadPayment(c) \/ UpdatePayment(c)
  <2>1. desk[c] # Free
    BY <1>2 DEF ReadPayment, UpdatePayment, AtStep
  <2>2. /\ ledger[desk[c].row.payment] \in LedgerRows /\ ledger[desk[c].row.invoice] \in LedgerRows
        /\ desk[c] \in Requests
    BY <2>1, RequestType, Kinds DEF LedgerTypeOK
  <2>3. /\ [desk[c] EXCEPT !.step = "read", !.pay = ledger[desk[c].row.payment]] \in Requests
        /\ [desk[c] EXCEPT !.step = "locked", !.inv = ledger[desk[c].row.invoice]] \in Requests
    BY <2>2 DEF Requests
  <2>4. desk' \in [Cashiers -> {Free} \cup Requests]
    BY <1>2, <2>3 DEF ReadPayment, UpdatePayment, LedgerTypeOK
  <2>5. QED
    BY <1>2, <2>4 DEF ReadPayment, UpdatePayment, LedgerTypeOK, events
<1>3. CASE FinishUnsettle(c)
  <2> DEFINE row == desk[c].row
  <2>1. desk[c] # Free
    BY <1>3 DEF FinishUnsettle, AtStep
  <2>2. /\ Reduced(desk[c].inv.applied, row.amount) \in Nat
        /\ Reduced(desk[c].pay.applied, row.amount) \in Nat
    BY <2>1, RequestType DEF LedgerRows, Reduced
  <2>3. ledger' \in [Docs -> LedgerRows]
    BY <1>3, <2>1, <2>2, RequestType, Kinds, WriteTwo DEF FinishUnsettle
  <2>4. settlements' \in SUBSET Settlements
    BY <1>3 DEF FinishUnsettle, Delete, LedgerTypeOK
  <2>5. stale' \in SUBSET Docs
    BY <1>3, <2>1, RequestType, Kinds DEF FinishUnsettle, Overtaken, LedgerTypeOK
  <2>6. QED
    BY <1>3, <2>3, <2>4, <2>5 DEF FinishUnsettle, LedgerTypeOK, events
<1>4. CASE RollBack(c)
  BY <1>4 DEF RollBack, LedgerTypeOK, events
<1>5. QED
  BY <1>1, <1>2, <1>3, <1>4

LEMMA CashTypes ==
  ASSUME LedgerTypeOK,
         \/ \E j \in Journals : Confirm(j)
         \/ \E c \in Cashiers : FinishConfirm(c) \/ \E j \in Journals : StartConfirm(c, j)
         \/ \E d \in Adjustments : CreateAdjustment(d)
  PROVE  LedgerTypeOK'
<1>1. ASSUME NEW j \in Journals, Confirm(j)  PROVE LedgerTypeOK'
  <2>1. NewRow(j) \in LedgerRows
    BY Kinds, NewRowType
  <2>2. QED
    BY <1>1, <2>1 DEF Confirm, LedgerTypeOK, events
<1>2. ASSUME NEW c \in Cashiers, NEW j \in Journals, StartConfirm(c, j)  PROVE LedgerTypeOK'
  <2>1. SourceOf[j] \in Shipments /\ SourceOf[j] \in Invoices /\ j \in Payments
    BY <1>2, LedgerAssumption DEF StartConfirm, Invoices, Payments
  <2>2. NewRow(j) \in LedgerRows /\ Amount[j] \in Nat \ {0} /\ ledger[SourceOf[j]] \in LedgerRows
    BY <2>1, Kinds, NewRowType DEF LedgerTypeOK
  <2>3. [no |-> 0, invoice |-> SourceOf[j], payment |-> j, amount |-> Amount[j]] \in Settlements
    BY <2>1, <2>2 DEF Settlements
  <2>4. desk' \in [Cashiers -> {Free} \cup Requests]
    BY <1>2, <2>2, <2>3 DEF StartConfirm, Request, Requests, LedgerTypeOK
  <2>5. QED
    BY <1>2, <2>4 DEF StartConfirm, LedgerTypeOK, events
<1>3. ASSUME NEW c \in Cashiers, FinishConfirm(c)  PROVE LedgerTypeOK'
  <2> DEFINE row == desk[c].row
  <2>1. desk[c] # Free
    BY <1>3 DEF FinishConfirm, AtStep
  <2>2. desk[c].inv.applied + row.amount \in Nat /\ row.amount \in Nat
    BY <2>1, RequestType DEF LedgerRows
  <2>3. [amount |-> row.amount, applied |-> row.amount] \in LedgerRows
    BY <2>2 DEF LedgerRows
  <2>4. ledger' \in [Docs -> LedgerRows]
    BY <1>3, <2>2, <2>3 DEF FinishConfirm, LedgerTypeOK, LedgerRows
  <2>5. settlements' \in SUBSET Settlements /\ issued' \in Nat
    BY <1>3, <2>1, RequestType, InsertType DEF FinishConfirm
  <2>6. stale' \in SUBSET Docs
    BY ZenonT(40), <1>3, <2>1, RequestType, Kinds DEF FinishConfirm, Overtaken, LedgerTypeOK
  <2>7. journal' \in [Journals -> {"Draft", "Confirmed"}]
    BY <1>3 DEF FinishConfirm, LedgerTypeOK
  <2>8. QED
    BY <1>3, <2>4, <2>5, <2>6, <2>7 DEF FinishConfirm, LedgerTypeOK, events
<1>4. ASSUME NEW d \in Adjustments, CreateAdjustment(d)  PROVE LedgerTypeOK'
  <2>1. NewRow(d) \in LedgerRows
    BY Kinds, NewRowType
  <2>2. QED
    BY <1>4, <2>1 DEF CreateAdjustment, LedgerTypeOK, events
<1>5. QED
  BY <1>1, <1>2, <1>3, <1>4

Hands == [doc : Announced, step : Nat \ {0}]

(* A handler with an event moves on, or lets go of it *)
LEMMA HandType ==
  ASSUME LedgerTypeOK, NEW h \in Handlers, hand[h] # Free
  PROVE  hand[h] \in Hands /\ hand[h].doc \in Announced /\ hand[h].step \in Nat \ {0}
<1>1. hand[h] \in Hands
  BY DEF LedgerTypeOK, Hands
<1>2. QED
  BY <1>1 DEF Hands

LEMMA HandMoves ==
  ASSUME LedgerTypeOK, NEW h \in Handlers, hand[h] # Free, NEW n \in Nat \ {0},
         hand' = [hand EXCEPT ![h].step = n]
  PROVE  /\ hand'[h] = [doc |-> hand[h].doc, step |-> n]
         /\ \A g \in Handlers \ {h} : hand'[g] = hand[g]
         /\ hand' \in [Handlers -> {Free} \cup Hands]
<1>1. hand[h] \in Hands /\ hand \in [Handlers -> {Free} \cup Hands]
  BY HandType DEF LedgerTypeOK, Hands
<1>2. [hand[h] EXCEPT !.step = n] = [doc |-> hand[h].doc, step |-> n]
  BY <1>1 DEF Hands
<1>3. [doc |-> hand[h].doc, step |-> n] \in Hands
  BY <1>1 DEF Hands
<1>4. hand' = [hand EXCEPT ![h] = [doc |-> hand[h].doc, step |-> n]]
  BY <1>1, <1>2
<1>5. QED
  BY <1>1, <1>3, <1>4

LEMMA PostingStepType ==
  ASSUME NEW d \in Announced
  PROVE  PostingStep(d) \in Nat \ {0}
BY LedgerAssumption DEF PostingStep

LEMMA EventTypes ==
  ASSUME LedgerTypeOK, EventSteps
  PROVE  LedgerTypeOK'
<1>1. event \in [Announced -> EventStates] /\ hand \in [Handlers -> {Free} \cup Hands]
  BY DEF LedgerTypeOK, Hands
<1>2. ASSUME NEW d \in Announced, NEW st \in EventStates, SetEvent(d, st)
      PROVE  event' \in [Announced -> EventStates]
  BY <1>1, <1>2 DEF SetEvent
<1>3. ASSUME NEW d \in Announced, Announce(d) \/ ResetStale(d) \/ Redrive(d)  PROVE LedgerTypeOK'
  <2>1. event' \in [Announced -> EventStates]
    BY <1>2, <1>3 DEF Announce, ResetStale, Redrive, EventStates
  <2>2. QED
    BY <1>3, <2>1 DEF Announce, ResetStale, Redrive, LedgerTypeOK, books
<1>4. ASSUME NEW h \in Handlers, NEW d \in Announced, Claim(h, d)  PROVE LedgerTypeOK'
  <2>1. event' \in [Announced -> EventStates]
    BY <1>2, <1>4 DEF Claim, EventStates
  <2>2. hand' \in [Handlers -> {Free} \cup Hands]
    BY <1>1, <1>4 DEF Claim, Hands
  <2>3. QED
    BY <1>4, <2>1, <2>2 DEF Claim, LedgerTypeOK, books, Hands
<1>5. ASSUME NEW h \in Handlers, BookCost(h)  PROVE LedgerTypeOK'
  <2>1. /\ hand[h] # Free /\ hand[h].step \in Nat \ {0}
        /\ hand' = [hand EXCEPT ![h].step = hand[h].step + 1]
    BY <1>5, HandType DEF BookCost
  <2> DEFINE n == hand[h].step + 1
  <2>5. n \in Nat \ {0} /\ hand' = [hand EXCEPT ![h].step = n]
    BY <2>1
  <2>2. hand' \in [Handlers -> {Free} \cup Hands]
    <3> HIDE DEF n
    <3>1. QED
      BY <2>1, <2>5, HandMoves
  <2>3. cost' \in [Shipments -> SUBSET Nat]
    BY <1>5, <2>1 DEF BookCost, LedgerTypeOK
  <2>4. QED
    BY <1>5, <2>2, <2>3 DEF BookCost, LedgerTypeOK, books, Hands
<1>6. ASSUME NEW h \in Handlers, HandleEvent(h)  PROVE LedgerTypeOK'
  <2>1. /\ hand[h] # Free /\ hand[h].doc \in Announced
        /\ PostingStep(hand[h].doc) + 1 \in Nat \ {0}
        /\ hand' = [hand EXCEPT ![h].step = PostingStep(hand[h].doc) + 1]
    BY <1>6, HandType, PostingStepType DEF HandleEvent
  <2>2. hand' \in [Handlers -> {Free} \cup Hands]
    BY <2>1, HandMoves
  <2>3. ledger' \in [Docs -> LedgerRows]
    BY <1>6, <2>1, Kinds, NewRowType DEF HandleEvent, PostEntry, LedgerTypeOK
  <2>4. QED
    BY <1>6, <2>2, <2>3 DEF HandleEvent, LedgerTypeOK, Hands
<1>7. ASSUME NEW h \in Handlers, MarkProcessed(h) \/ HandlerFails(h) \/ Abandon(h)
      PROVE  LedgerTypeOK'
  <2>1. hand' \in [Handlers -> {Free} \cup Hands]
    BY <1>1, <1>7 DEF MarkProcessed, HandlerFails, Abandon, Release
  <2>2. hand[h].doc \in Announced
    BY <1>7, HandType DEF MarkProcessed, HandlerFails, Abandon
  <2>3. event' \in [Announced -> EventStates]
    BY <1>1, <1>2, <1>7, <2>2 DEF MarkProcessed, HandlerFails, Abandon, EventStates
  <2>4. QED
    BY <1>7, <2>1, <2>3 DEF MarkProcessed, HandlerFails, Abandon, LedgerTypeOK, books, Hands
<1>8. QED
  BY <1>3, <1>4, <1>5, <1>6, <1>7 DEF EventSteps

LEMMA InitTypes == LedgerInit => LedgerTypeOK
BY DEF LedgerInit, LedgerTypeOK, NoRow, LedgerRows, EventStates

LEMMA TypeStep ==
  ASSUME LedgerTypeOK, LedgerNext
  PROVE  LedgerTypeOK'
<1>1. ASSUME NEW c \in Cashiers, CashierSteps(c)  PROVE LedgerTypeOK'
  BY <1>1, SettleTypes, UnsettleTypes, CashTypes DEF CashierSteps
<1>2. QED
  BY <1>1, CashTypes, EventTypes DEF LedgerNext

(***************************************************************************)
(* No document is applied beyond its amount                                *)
(***************************************************************************)

(* The row of a document has its amount from the first, and keeps it; that  *)
(* of an order follows the receipts.                                        *)
AmountsHold == \A d \in Docs \ Orders : ledger[d].amount \in {0, Amount[d]}

(* What a request is going to write fits the row it has read, and that row  *)
(* had the amount there is, whatever became of the sums since.              *)
HeldFits(c) ==
  LET row == desk[c].row
      inv == desk[c].inv
      pay == desk[c].pay
      Grew(d, held) == d \notin Orders => held.amount <= ledger[d].amount
  IN /\ desk[c].op \in {"settle", "confirm"} =>
          /\ desk[c].step = "read"
          /\ inv.applied + row.amount <= inv.amount /\ Grew(row.invoice, inv)
     /\ desk[c].op = "settle" =>
          pay.applied + row.amount <= pay.amount /\ Grew(row.payment, pay)
     /\ desk[c].op = "confirm" => row.payment \in Journals /\ row.amount = Amount[row.payment]
     /\ desk[c].op = "unsettle" /\ desk[c].step # "found" =>
          pay.applied <= pay.amount /\ Grew(row.payment, pay)
     /\ desk[c].op = "unsettle" /\ desk[c].step = "locked" =>
          /\ row.invoice \notin Orders \cap stale => inv.applied <= inv.amount
          /\ Grew(row.invoice, inv)

Fits == AmountsHold /\ AppliedWithinAmount /\ \A c \in Cashiers : desk[c] # Free => HeldFits(c)

(* Amounts do not shrink, other than those of orders, and what was written  *)
(* from an older row stays marked.                                          *)
Grown ==
  /\ \A d \in Docs \ Orders : ledger'[d].amount >= ledger[d].amount
  /\ stale \subseteq stale'

(* The steps that write no row *)
Reads ==
  \/ \E c \in Cashiers : \/ \E i \in Invoices, p \in Payments : StartSettle(c, i, p)
                         \/ \E s \in settlements : StartUnsettle(c, s)
                         \/ ReadPayment(c) \/ UpdatePayment(c) \/ RollBack(c)
                         \/ \E j \in Journals : StartConfirm(c, j)
  \/ \E d \in Announced : Announce(d) \/ ResetStale(d) \/ Redrive(d)
  \/ \E h \in Handlers, d \in Announced : Claim(h, d)
  \/ \E h \in Handlers : BookCost(h) \/ MarkProcessed(h) \/ HandlerFails(h) \/ Abandon(h)

(* A handler posts the row of a document *)
Posts(d) == \E h \in Handlers : HandleEvent(h) /\ hand[h].doc = d

LEMMA PostsWhat ==
  ASSUME NEW d, Posts(d)
  PROVE  /\ ledger' = PostEntry(d)
         /\ UNCHANGED <<settlements, issued, journal, desk, stale>>
BY DEF Posts, HandleEvent

LEMMA ReadsWriteNothing ==
  ASSUME Reads
  PROVE  ledger' = ledger
BY DEF Reads, StartSettle, StartUnsettle, ReadPayment, UpdatePayment, RollBack, StartConfirm,
       Announce, ResetStale, Redrive, Claim, BookCost, MarkProcessed, HandlerFails, Abandon, books

LEMMA ReadsKeepBooks ==
  ASSUME Reads
  PROVE  /\ settlements' = settlements /\ issued' = issued
         /\ journal' = journal /\ stale' = stale /\ ledger' = ledger
BY DEF Reads, StartSettle, StartUnsettle, ReadPayment, UpdatePayment, RollBack, StartConfirm,
       Announce, ResetStale, Redrive, Claim, BookCost, MarkProcessed, HandlerFails, Abandon, books

LEMMA StepKinds ==
  ASSUME LedgerTypeOK, LedgerNext
  PROVE  \/ Reads
         \/ \E c \in Cashiers : FinishSettle(c) \/ FinishUnsettle(c) \/ FinishConfirm(c)
         \/ \E j \in Journals : Confirm(j)
         \/ \E d \in Adjustments : CreateAdjustment(d)
         \/ \E d \in Announced : Posts(d)
<1>1. ASSUME NEW c \in Cashiers, CashierSteps(c)
      PROVE  Reads \/ FinishSettle(c) \/ FinishUnsettle(c) \/ FinishConfirm(c)
  BY <1>1 DEF CashierSteps, Reads
<1>2. ASSUME NEW h \in Handlers, HandleEvent(h)  PROVE \E d \in Announced : Posts(d)
  BY <1>2, HandType DEF Posts, HandleEvent
<1>3. EventSteps => Reads \/ \E d \in Announced : Posts(d)
  BY <1>2 DEF EventSteps, Reads
<1>4. QED
  BY <1>1, <1>3 DEF LedgerNext

(* A new row does no harm. *)
LEMMA NewRowFits ==
  ASSUME LedgerTypeOK, AmountsHold, AppliedWithinAmount, NEW d \in Docs \ Orders,
         ledger' = [ledger EXCEPT ![d] = NewRow(d)], stale' = stale
  PROVE  AmountsHold' /\ AppliedWithinAmount' /\ Grown
<1>1. NewRow(d).amount = Amount[d] /\ NewRow(d).applied = 0 /\ Amount[d] \in Nat
  BY NewRowType
<1>2. ledger'[d] = NewRow(d) /\ \A e \in Docs \ {d} : ledger'[e] = ledger[e]
  BY DEF LedgerTypeOK
<1>3. \A e \in Docs : ledger[e].amount \in Nat
  BY DEF LedgerTypeOK, LedgerRows
<1>4. AmountsHold'
  BY <1>1, <1>2 DEF AmountsHold
<1>5. AppliedWithinAmount'
  BY <1>1, <1>2 DEF AppliedWithinAmount
<1>6. Grown
  <2>1. ledger[d].amount \in {0, Amount[d]}
    BY DEF AmountsHold
  <2>2. ledger'[d].amount >= ledger[d].amount
    BY <1>1, <1>2, <2>1
  <2>3. QED
    BY <1>2, <1>3, <2>2 DEF Grown
<1>7. QED
  BY <1>4, <1>5, <1>6

(* Two sums that fit do no harm. *)
LEMMA SumsFit ==
  ASSUME LedgerTypeOK, AmountsHold, AppliedWithinAmount, NEW i \in Docs, NEW p \in Docs \ {i},
         NEW x \in Nat, NEW y \in Nat, y <= ledger[p].amount,
         i \in Orders \cap stale' \/ x <= ledger[i].amount, stale \subseteq stale',
         ledger' = [ledger EXCEPT ![i].applied = x, ![p].applied = y]
  PROVE  AmountsHold' /\ AppliedWithinAmount' /\ Grown
<1>1. /\ ledger'[i].amount = ledger[i].amount /\ ledger'[i].applied = x
      /\ ledger'[p].amount = ledger[p].amount /\ ledger'[p].applied = y
      /\ \A d \in Docs \ {i, p} : ledger'[d] = ledger[d]
  <2>1. /\ ledger'[i] = WithApplied(i, x) /\ ledger'[p] = WithApplied(p, y)
        /\ \A d \in Docs \ {i, p} : ledger'[d] = ledger[d]
    <3>1. [ledger[p] EXCEPT !.applied = y] = WithApplied(p, y)
      BY DEF LedgerTypeOK, LedgerRows, WithApplied
    <3>2. ledger'[p] = [ledger[p] EXCEPT !.applied = y]
      BY DEF LedgerTypeOK
    <3>3. ledger'[i] = WithApplied(i, x)
      BY WriteTwo
    <3>4. \A d \in Docs \ {i, p} : ledger'[d] = ledger[d]
      BY DEF LedgerTypeOK
    <3>5. QED
      BY <3>1, <3>2, <3>3, <3>4
  <2>2. /\ WithApplied(i, x).amount = ledger[i].amount /\ WithApplied(i, x).applied = x
        /\ WithApplied(p, y).amount = ledger[p].amount /\ WithApplied(p, y).applied = y
    BY DEF WithApplied
  <2>3. QED
    BY <2>1, <2>2
<1>2. \A d \in Docs : ledger'[d].amount = ledger[d].amount /\ ledger[d].amount \in Nat
  BY <1>1 DEF LedgerTypeOK, LedgerRows
<1>3. AmountsHold'
  BY <1>2, Kinds DEF AmountsHold
<1>4. AppliedWithinAmount'
  BY <1>1 DEF AppliedWithinAmount
<1>5. Grown
  <2>1. ASSUME NEW d \in Docs  PROVE ledger'[d].amount >= ledger[d].amount
    <3>1. ledger'[d].amount = ledger[d].amount /\ ledger[d].amount \in Nat
      BY <1>2
    <3>2. QED
      BY <3>1
  <2>2. QED
    BY <2>1 DEF Grown
<1>6. QED
  BY <1>3, <1>4, <1>5

LEMMA ReducedFits ==
  ASSUME NEW n \in Nat, NEW a \in Nat
  PROVE  Reduced(n, a) \in Nat /\ Reduced(n, a) <= n
BY DEF Reduced

LEMMA RowsStep ==
  ASSUME LedgerTypeOK, Fits, LedgerNext
  PROVE  AmountsHold' /\ AppliedWithinAmount' /\ Grown
<1>1. AmountsHold /\ AppliedWithinAmount /\ \A c \in Cashiers : desk[c] # Free => HeldFits(c)
  BY DEF Fits
<1>2. ASSUME ledger' = ledger, stale' = stale
      PROVE  AmountsHold' /\ AppliedWithinAmount' /\ Grown
  BY <1>1, <1>2 DEF AmountsHold, AppliedWithinAmount, Grown, LedgerTypeOK, LedgerRows
<1>3. ASSUME NEW c \in Cashiers, FinishSettle(c)  PROVE AmountsHold' /\ AppliedWithinAmount' /\ Grown
  <2> DEFINE row == desk[c].row
  <2>1. desk[c] # Free /\ desk[c].op = "settle"
    BY <1>3 DEF FinishSettle, AtStep
  <2>2. /\ desk[c].inv.applied + row.amount <= desk[c].inv.amount
        /\ desk[c].pay.applied + row.amount <= desk[c].pay.amount
        /\ row.invoice \notin Orders => desk[c].inv.amount <= ledger[row.invoice].amount
        /\ row.payment \notin Orders => desk[c].pay.amount <= ledger[row.payment].amount
    BY <1>1, <2>1 DEF HeldFits
  <2>3. /\ desk[c].inv.applied + row.amount \in Nat
        /\ desk[c].pay.applied + row.amount \in Nat
    BY <2>1, RequestType DEF LedgerRows
  <2>4. ledger' = [ledger EXCEPT ![row.invoice].applied = desk[c].inv.applied + row.amount,
                                 ![row.payment].applied = desk[c].pay.applied + row.amount]
    BY <1>3, <2>1, HeldBy DEF FinishSettle, AppliedTo
  <2>5. /\ row.invoice \in Docs /\ row.payment \in Docs \ {row.invoice}
        /\ row.payment \notin Orders /\ row.invoice \in Invoices
    BY <2>1, RequestType, Kinds
  <2>6. /\ ledger[row.invoice].amount \in Nat /\ ledger[row.payment].amount \in Nat
        /\ desk[c].inv.amount \in Nat /\ desk[c].pay.amount \in Nat
    BY <2>1, <2>5, RequestType DEF LedgerTypeOK, LedgerRows
  <2>7. stale \subseteq stale' /\ (row.invoice \notin stale' => ledger[row.invoice] = desk[c].inv)
    BY <1>3, <2>1, HeldBy DEF FinishSettle, Overtaken
  <2>8. /\ row.invoice \in Orders \cap stale'
             \/ desk[c].inv.applied + row.amount <= ledger[row.invoice].amount
        /\ desk[c].pay.applied + row.amount <= ledger[row.payment].amount
    BY <2>2, <2>3, <2>5, <2>6, <2>7
  <2> HIDE DEF row
  <2>9. QED
    BY <1>1, <2>3, <2>4, <2>5, <2>7, <2>8, SumsFit
<1>4. ASSUME NEW c \in Cashiers, FinishUnsettle(c)  PROVE AmountsHold' /\ AppliedWithinAmount' /\ Grown
  <2> DEFINE row == desk[c].row
             x == Reduced(desk[c].inv.applied, row.amount)
             y == Reduced(desk[c].pay.applied, row.amount)
  <2>1. desk[c] # Free /\ desk[c].op = "unsettle" /\ desk[c].step = "locked"
    BY <1>4 DEF FinishUnsettle, AtStep
  <2>2. /\ row.invoice \notin Orders \cap stale => desk[c].inv.applied <= desk[c].inv.amount
        /\ desk[c].pay.applied <= desk[c].pay.amount
        /\ row.invoice \notin Orders => desk[c].inv.amount <= ledger[row.invoice].amount
        /\ row.payment \notin Orders => desk[c].pay.amount <= ledger[row.payment].amount
    BY <1>1, <2>1 DEF HeldFits
  <2>3. /\ row.invoice \in Docs /\ row.payment \in Docs \ {row.invoice}
        /\ row.payment \notin Orders /\ row.invoice \in Invoices /\ row.amount \in Nat
    BY <2>1, RequestType, Kinds
  <2>4. /\ ledger[row.invoice].amount \in Nat /\ ledger[row.payment].amount \in Nat
        /\ desk[c].inv.amount \in Nat /\ desk[c].pay.amount \in Nat
        /\ desk[c].inv.applied \in Nat /\ desk[c].pay.applied \in Nat
    BY <2>1, <2>3, RequestType DEF LedgerTypeOK, LedgerRows
  <2>5. stale \subseteq stale' /\ (row.invoice \notin stale' => ledger[row.invoice] = desk[c].inv)
    BY <1>4, <2>1, HeldBy DEF FinishUnsettle, Overtaken
  <2>6. /\ x \in Nat /\ y \in Nat /\ x <= desk[c].inv.applied /\ y <= desk[c].pay.applied
    BY <2>3, <2>4, ReducedFits
  <2>7. ledger' = [ledger EXCEPT ![row.invoice].applied = x, ![row.payment].applied = y]
    BY <1>4 DEF FinishUnsettle
  <2> HIDE DEF x, y
  <2>8. /\ row.invoice \in Orders \cap stale' \/ x <= ledger[row.invoice].amount
        /\ y <= ledger[row.payment].amount
    BY <2>2, <2>3, <2>4, <2>5, <2>6
  <2> HIDE DEF row
  <2>9. QED
    BY <1>1, <2>3, <2>5, <2>6, <2>7, <2>8, SumsFit
<1>5. ASSUME NEW c \in Cashiers, FinishConfirm(c)  PROVE AmountsHold' /\ AppliedWithinAmount' /\ Grown
  <2> DEFINE row == desk[c].row
             i == row.invoice
             p == row.payment
             x == desk[c].inv.applied + row.amount
  <2>1. desk[c] # Free /\ desk[c].op = "confirm"
    BY <1>5 DEF FinishConfirm, AtStep
  <2>2. /\ x <= desk[c].inv.amount /\ p \in Journals /\ row.amount = Amount[p]
        /\ i \notin Orders => desk[c].inv.amount <= ledger[i].amount
    BY <1>1, <2>1 DEF HeldFits
  <2>3. /\ i \in Docs /\ p \in Docs /\ i # p /\ p \notin Orders
        /\ x \in Nat /\ row.amount \in Nat
    BY <2>1, RequestType, Kinds DEF LedgerRows
  <2>4. ledger[i] \in LedgerRows /\ ledger[p] \in LedgerRows
    BY <2>3 DEF LedgerTypeOK
  <2>5. [ledger[i] EXCEPT !.applied = x] = WithApplied(i, x)
    BY <2>4 DEF LedgerRows, WithApplied
  <2>6. ledger' = [ledger EXCEPT ![p] = [amount |-> row.amount, applied |-> row.amount],
                                 ![i] = WithApplied(i, x)]
    BY <1>5, <2>3, <2>5 DEF FinishConfirm, LedgerTypeOK
  <2>7. /\ ledger'[p] = [amount |-> row.amount, applied |-> row.amount]
        /\ ledger'[i] = WithApplied(i, x)
        /\ \A d \in Docs \ {i, p} : ledger'[d] = ledger[d]
    BY <2>3, <2>6 DEF LedgerTypeOK
  <2>8. /\ ledger'[p].amount = Amount[p] /\ ledger'[p].applied = Amount[p]
        /\ ledger'[i].amount = ledger[i].amount /\ ledger'[i].applied = x
    BY <2>2, <2>7 DEF WithApplied
  <2>9. ledger[p].amount \in {0, Amount[p]}
    BY <1>1, <2>3 DEF AmountsHold
  <2>10. AmountsHold'
    BY <1>1, <2>3, <2>7, <2>8, Kinds DEF AmountsHold
  <2>11. stale \subseteq stale' /\ (i \in Orders \cap stale' \/ x <= ledger[i].amount)
    <3>1. stale \subseteq stale' /\ (i \notin stale' => ledger[i] = desk[c].inv)
      BY <1>5, <2>1, HeldBy DEF FinishConfirm, Overtaken
    <3>2. desk[c].inv.amount \in Nat /\ ledger[i].amount \in Nat
      BY <2>1, <2>4, RequestType DEF LedgerRows
    <3>3. QED
      BY <2>2, <2>3, <3>1, <3>2
  <2>14. AppliedWithinAmount'
    <3>1. Amount[p] \in Nat
      BY <2>2, <2>3
    <3>2. QED
      BY <1>1, <2>3, <2>7, <2>8, <2>11, <3>1 DEF AppliedWithinAmount
  <2>12. Grown
    <3>1. \A d \in Docs : ledger[d].amount \in Nat
      BY DEF LedgerTypeOK, LedgerRows
    <3>2. ledger'[p].amount >= ledger[p].amount
      BY <2>2, <2>3, <2>8, <2>9
    <3>3. QED
      BY <2>7, <2>8, <2>11, <3>1, <3>2 DEF Grown
  <2>13. QED
    BY <2>10, <2>12, <2>14
<1>6. ASSUME NEW j \in Journals, Confirm(j)  PROVE AmountsHold' /\ AppliedWithinAmount' /\ Grown
  BY <1>1, <1>6, Kinds, NewRowFits DEF Confirm
<1>7. ASSUME NEW d \in Adjustments, CreateAdjustment(d)  PROVE AmountsHold' /\ AppliedWithinAmount' /\ Grown
  BY <1>1, <1>7, Kinds, NewRowFits DEF CreateAdjustment
<1>8. ASSUME NEW d \in Announced, Posts(d)  PROVE AmountsHold' /\ AppliedWithinAmount' /\ Grown
  <2>1. ledger' = [ledger EXCEPT ![d] = NewRow(d)] \/ ledger' = ledger
    <3>1. ledger' = PostEntry(d)
      BY <1>8, PostsWhat
    <3>2. CASE ledger[d].amount = 0
      BY <3>1, <3>2 DEF PostEntry
    <3>3. CASE ledger[d].amount # 0
      BY <3>1, <3>3 DEF PostEntry, LedgerTypeOK
    <3>4. QED
      BY <3>2, <3>3
  <2>2. stale' = stale
    BY <1>8, PostsWhat
  <2>3. QED
    BY <1>1, <1>2, <2>1, <2>2, Kinds, NewRowFits
<1>9. QED
  BY <1>2, <1>3, <1>4, <1>5, <1>6, <1>7, <1>8, StepKinds, ReadsKeepBooks

(* Only a step of its own changes what a request holds. *)
LEMMA DeskStep ==
  ASSUME LedgerTypeOK, LedgerNext, NEW c \in Cashiers, desk'[c] # Free, desk'[c] # desk[c]
  PROVE  /\ ledger' = ledger
         /\ \/ \E i \in Invoices, p \in Payments : StartSettle(c, i, p)
            \/ \E s \in settlements : StartUnsettle(c, s)
            \/ ReadPayment(c) \/ UpdatePayment(c)
            \/ \E j \in Journals : StartConfirm(c, j)
<1>1. ASSUME NEW e \in Cashiers, CashierSteps(e), e # c  PROVE FALSE
  <2>1. ASSUME NEW x, desk' = [desk EXCEPT ![e] = x]  PROVE FALSE
    BY <1>1, <2>1 DEF LedgerTypeOK
  <2>2. \A i \in Invoices, p \in Payments : ~StartSettle(e, i, p)
    BY <2>1 DEF StartSettle
  <2>3. ~FinishSettle(e) /\ ~FinishUnsettle(e) /\ ~FinishConfirm(e) /\ ~RollBack(e)
    BY <2>1 DEF FinishSettle, FinishUnsettle, FinishConfirm, RollBack
  <2>4. \A s \in settlements : ~StartUnsettle(e, s)
    BY <2>1 DEF StartUnsettle
  <2>5. ~ReadPayment(e) /\ ~UpdatePayment(e)
    BY <1>1 DEF ReadPayment, UpdatePayment, LedgerTypeOK
  <2>6. \A j \in Journals : ~StartConfirm(e, j)
    BY <2>1 DEF StartConfirm
  <2>7. QED
    BY <1>1, <2>2, <2>3, <2>4, <2>5, <2>6 DEF CashierSteps
<1>2. ~FinishSettle(c) /\ ~FinishUnsettle(c) /\ ~FinishConfirm(c) /\ ~RollBack(c)
  BY DEF FinishSettle, FinishUnsettle, FinishConfirm, RollBack, LedgerTypeOK
<1>3. \A j \in Journals : ~Confirm(j)
  BY DEF Confirm
<1>4. \A d \in Adjustments : ~CreateAdjustment(d)
  BY DEF CreateAdjustment
<1>5. ~EventSteps
  BY DEF EventSteps, Announce, ResetStale, Redrive, Claim, BookCost, HandleEvent, MarkProcessed,
         HandlerFails, Abandon, books
<1>7. CashierSteps(c)
  BY <1>1, <1>3, <1>4, <1>5 DEF LedgerNext
<1>8. Reads
  BY <1>2, <1>7 DEF CashierSteps, Reads
<1>9. QED
  BY <1>2, <1>7, <1>8, ReadsWriteNothing DEF CashierSteps

LEMMA HeldStep ==
  ASSUME LedgerTypeOK, LedgerTypeOK', Fits, LedgerNext, Grown, NEW c \in Cashiers,
         desk'[c] # Free
  PROVE  HeldFits(c)'
<1>1. \A d \in Docs : /\ ledger[d] \in LedgerRows
                      /\ ledger[d].amount \in Nat /\ ledger[d].applied \in Nat
  BY DEF LedgerTypeOK, LedgerRows
<1> DEFINE Sound(d) == d \notin Orders \cap stale => ledger[d].applied <= ledger[d].amount
<1>8. \A d \in Docs : Sound(d)
  BY DEF Fits, AppliedWithinAmount
<1>2. CASE desk'[c] = desk[c]
  <2>1. HeldFits(c)
    BY <1>2 DEF Fits
  <2>2. /\ desk[c].row.invoice \in Docs /\ desk[c].row.payment \in Docs
        /\ desk[c].inv.amount \in Nat /\ desk[c].pay.amount \in Nat
    BY <1>2, RequestType, Kinds DEF LedgerRows
  <2>3. ASSUME NEW d \in Docs, NEW n \in Nat, d \notin Orders => n <= ledger[d].amount
        PROVE  d \notin Orders => n <= ledger'[d].amount
    <3>1. CASE d \in Orders
      BY <3>1
    <3>2. CASE d \notin Orders
      <4>1. ledger'[d].amount \in Nat /\ ledger[d].amount \in Nat
        BY DEF LedgerTypeOK, LedgerRows
      <4>2. ledger'[d].amount >= ledger[d].amount
        BY <3>2 DEF Grown
      <4>3. QED
        BY <2>3, <3>2, <4>1, <4>2
    <3>3. QED
      BY <3>1, <3>2
  <2>4. stale \subseteq stale'
    BY DEF Grown
  <2>5. QED
    BY <1>2, <2>1, <2>2, <2>3, <2>4 DEF HeldFits
<1>3. ASSUME NEW i \in Invoices, NEW p \in Payments, StartSettle(c, i, p), ledger' = ledger
      PROVE  HeldFits(c)'
  <2>1. PICK a \in Settleable(i, p) :
          desk' = [desk EXCEPT ![c] = Request("settle", "read",
            [no |-> 0, invoice |-> i, payment |-> p, amount |-> a], ledger[i], ledger[p])]
    BY <1>3 DEF StartSettle
  <2>2. desk'[c] = Request("settle", "read",
            [no |-> 0, invoice |-> i, payment |-> p, amount |-> a], ledger[i], ledger[p])
    BY <2>1 DEF LedgerTypeOK
  <2>3. /\ desk'[c].op = "settle" /\ desk'[c].step = "read"
        /\ desk'[c].inv = ledger[i] /\ desk'[c].pay = ledger[p]
        /\ desk'[c].row.invoice = i /\ desk'[c].row.payment = p /\ desk'[c].row.amount = a
    BY <2>2 DEF Request
  <2>4. i \in Docs /\ p \in Docs
    BY Kinds
  <2>5. /\ ledger[i].applied + a <= ledger[i].amount
        /\ ledger[p].applied + a <= ledger[p].amount
    BY <1>1, <2>4 DEF Settleable, Outstanding
  <2>6. QED
    BY <1>1, <1>3, <2>3, <2>4, <2>5 DEF HeldFits
<1>4. ASSUME NEW s \in settlements, StartUnsettle(c, s)  PROVE HeldFits(c)'
  <2>1. desk'[c].op = "unsettle" /\ desk'[c].step = "found"
    BY <1>4 DEF StartUnsettle, Request, LedgerTypeOK
  <2>2. QED
    BY <2>1 DEF HeldFits
<1>5. ASSUME ReadPayment(c) \/ UpdatePayment(c), ledger' = ledger  PROVE HeldFits(c)'
  <2> DEFINE row == desk[c].row
  <2>1. desk[c] # Free /\ desk[c].op = "unsettle"
    BY <1>5 DEF ReadPayment, UpdatePayment, AtStep
  <2>2. row.invoice \in Docs /\ row.payment \in Docs /\ desk[c] \in Requests
    BY <2>1, RequestType, Kinds
  <2>3. CASE ReadPayment(c)
    <3>1. desk'[c] = [desk[c] EXCEPT !.step = "read", !.pay = ledger[row.payment]]
      BY <2>3 DEF ReadPayment, LedgerTypeOK
    <3>2. /\ desk'[c].op = "unsettle" /\ desk'[c].step = "read" /\ desk'[c].row = row
          /\ desk'[c].pay = ledger[row.payment]
      BY <2>1, <2>2, <3>1 DEF Requests
    <3>3. row.payment \notin Orders
      BY <2>1, RequestType, Kinds
    <3>4. ledger[row.payment].applied <= ledger[row.payment].amount
      BY <1>8, <2>2, <3>3
    <3>5. QED
      BY <1>1, <1>5, <2>2, <3>2, <3>4 DEF HeldFits
  <2>4. CASE UpdatePayment(c)
    <3>1. desk'[c] = [desk[c] EXCEPT !.step = "locked", !.inv = ledger[row.invoice]]
      BY <2>4 DEF UpdatePayment, LedgerTypeOK
    <3>2. /\ desk'[c].op = "unsettle" /\ desk'[c].step = "locked" /\ desk'[c].row = row
          /\ desk'[c].inv = ledger[row.invoice] /\ desk'[c].pay = desk[c].pay
      BY <2>1, <2>2, <3>1 DEF Requests
    <3>3. /\ desk[c].pay.applied <= desk[c].pay.amount
          /\ row.payment \notin Orders => desk[c].pay.amount <= ledger[row.payment].amount
      BY <2>1, <2>4 DEF Fits, HeldFits, UpdatePayment, AtStep
    <3>4. stale' = stale /\ Sound(row.invoice)
      BY <1>8, <2>2, <2>4 DEF UpdatePayment
    <3>5. QED
      BY <1>1, <1>5, <2>2, <3>2, <3>3, <3>4 DEF HeldFits
  <2>5. QED
    BY <1>5, <2>3, <2>4
<1>6. ASSUME NEW j \in Journals, StartConfirm(c, j), ledger' = ledger  PROVE HeldFits(c)'
  <2>1. desk'[c] = Request("confirm", "read",
          [no |-> 0, invoice |-> SourceOf[j], payment |-> j, amount |-> Amount[j]],
          ledger[SourceOf[j]], NewRow(j))
    BY <1>6 DEF StartConfirm, LedgerTypeOK
  <2>2. /\ desk'[c].op = "confirm" /\ desk'[c].step = "read"
        /\ desk'[c].inv = ledger[SourceOf[j]]
        /\ desk'[c].row.invoice = SourceOf[j] /\ desk'[c].row.payment = j
        /\ desk'[c].row.amount = Amount[j]
    BY <2>1 DEF Request
  <2>3. SourceOf[j] \in Docs /\ Amount[j] \in Nat
    BY <1>6, Kinds, NewRowType, LedgerAssumption DEF StartConfirm
  <2>4. ledger[SourceOf[j]].applied + Amount[j] <= ledger[SourceOf[j]].amount
    BY <1>1, <1>6, <2>3 DEF StartConfirm, Outstanding
  <2>5. QED
    BY <1>1, <1>6, <2>2, <2>3, <2>4 DEF HeldFits
<1>7. QED
  BY <1>2, <1>3, <1>4, <1>5, <1>6, DeskStep

LEMMA InitFits == LedgerInit => Fits
BY LedgerAssumption, Kinds DEF LedgerInit, Fits, AmountsHold, AppliedWithinAmount, NoRow

(***************************************************************************)
(* Revenue and cost of a shipment                                          *)
(***************************************************************************)

(* What a handler has passed is in the tables: the entries before its next  *)
(* statement, and the row of the shipment once it is past the posting.      *)
HandAhead(h, s) ==
  /\ hand[h].step <= CostLines[s] + 2
  /\ \A k \in 1..CostLines[s] : k < hand[h].step => k \in cost[s]
  /\ hand[h].step > CostLines[s] + 1 => ledger[s].amount = Amount[s]

CostOf(s) ==
  /\ cost[s] \subseteq 1..CostLines[s]
  /\ ledger[s].amount > 0 => 1..CostLines[s] \subseteq cost[s]
  /\ event[s] = "Processed" =>
       ledger[s].amount = Amount[s] /\ 1..CostLines[s] \subseteq cost[s]
  /\ \A h \in Handlers : hand[h] # Free /\ hand[h].doc = s => HandAhead(h, s)

CostComesFirst == \A s \in Shipments : CostOf(s)

(* Only its own event gives a shipment an amount. *)
LEMMA ShipmentRow ==
  ASSUME LedgerTypeOK, Fits, LedgerNext, NEW s \in Shipments, ledger'[s].amount # ledger[s].amount
  PROVE  Posts(s)
<1>1. s \in Docs /\ s \notin Journals /\ s \notin Adjustments /\ s \notin Payments
  BY Kinds DEF Payments
<1>2. ASSUME NEW c \in Cashiers, FinishSettle(c) \/ FinishUnsettle(c)
      PROVE  ledger'[s].amount = ledger[s].amount
  <2>1. ledger \in [Docs -> LedgerRows]
    BY DEF LedgerTypeOK
  <2>2. CASE FinishSettle(c)
    BY <1>1, <2>1, <2>2 DEF FinishSettle, AppliedTo, LedgerRows
  <2>3. CASE FinishUnsettle(c)
    BY <1>1, <2>1, <2>3 DEF FinishUnsettle, LedgerRows
  <2>4. QED
    BY <1>2, <2>2, <2>3
<1>3. ASSUME NEW c \in Cashiers, FinishConfirm(c)
      PROVE  ledger'[s].amount = ledger[s].amount
  <2>1. desk[c].row.payment # s
    BY <1>1, <1>3, RequestType DEF FinishConfirm, AtStep
  <2>2. QED
    BY <1>1, <1>3, <2>1 DEF FinishConfirm, LedgerTypeOK, LedgerRows
<1>4. \A j \in Journals : ~Confirm(j)
  BY <1>1 DEF Confirm, LedgerTypeOK
<1>5. \A d \in Adjustments : ~CreateAdjustment(d)
  BY <1>1 DEF CreateAdjustment, LedgerTypeOK
<1>6. ASSUME NEW d \in Announced, Posts(d), d # s  PROVE FALSE
  BY <1>1, <1>6, PostsWhat DEF PostEntry, LedgerTypeOK
<1>7. QED
  BY <1>2, <1>3, <1>4, <1>5, <1>6, StepKinds, ReadsWriteNothing

(* Steps that book nothing, post nothing and finish nothing for a shipment *)
LEMMA CostKept ==
  ASSUME NEW s \in Shipments, CostOf(s),
         ledger'[s].amount = ledger[s].amount, cost'[s] = cost[s],
         event'[s] = event[s] \/ event'[s] # "Processed",
         \A h \in Handlers : \/ hand'[h] \in {hand[h], Free}
                              \/ hand'[h].doc # s
                              \/ hand'[h].step = 1
  PROVE  CostOf(s)'
<1>1. ASSUME NEW h \in Handlers, hand'[h] # Free, hand'[h].doc = s  PROVE HandAhead(h, s)'
  <2>1. CASE hand'[h] = hand[h]
    BY <1>1, <2>1 DEF CostOf, HandAhead
  <2>2. CASE hand'[h].step = 1
    BY <2>2, LedgerAssumption DEF HandAhead
  <2>3. QED
    BY <1>1, <2>1, <2>2
<1>2. QED
  BY <1>1 DEF CostOf

(* One more entry *)
LEMMA CostBooked ==
  ASSUME LedgerTypeOK, NEW h \in Handlers, BookCost(h),
         NEW s \in Shipments, CostOf(s)
  PROVE  CostOf(s)'
<1>1. /\ hand[h] # Free /\ hand[h].doc \in Announced /\ hand[h].step \in Nat \ {0}
      /\ hand[h].step < PostingStep(hand[h].doc)
      /\ ledger' = ledger /\ event' = event
      /\ cost' = [cost EXCEPT ![hand[h].doc] = @ \cup {hand[h].step}]
      /\ hand' = [hand EXCEPT ![h].step = hand[h].step + 1]
  BY HandType DEF BookCost, books
<1>2. /\ hand'[h] = [doc |-> hand[h].doc, step |-> hand[h].step + 1]
      /\ \A g \in Handlers \ {h} : hand'[g] = hand[g]
  <2> DEFINE n == hand[h].step + 1
  <2>1. n \in Nat \ {0} /\ hand' = [hand EXCEPT ![h].step = n]
    BY <1>1
  <2>2. /\ hand'[h] = [doc |-> hand[h].doc, step |-> n]
        /\ \A g \in Handlers \ {h} : hand'[g] = hand[g]
    <3> HIDE DEF n
    <3>1. QED
      BY <1>1, <2>1, HandMoves
  <2>3. QED
    BY <2>2
<1>3. hand[h].doc \in Shipments
  BY <1>1 DEF PostingStep
<1>4. CASE hand[h].doc # s
  <2>1. cost'[s] = cost[s]
    BY <1>1, <1>4 DEF LedgerTypeOK
  <2>2. QED
    BY <1>1, <1>2, <1>4, <2>1, CostKept
<1>5. CASE hand[h].doc = s
  <2> DEFINE n == hand[h].step
  <2>1. /\ cost'[s] = cost[s] \cup {n} /\ n \in 1..CostLines[s] /\ CostLines[s] \in Nat
    <3>1. cost'[s] = cost[s] \cup {n}
      BY <1>1, <1>5 DEF LedgerTypeOK
    <3>2. PostingStep(s) = CostLines[s] + 1 /\ CostLines[s] \in Nat
      BY LedgerAssumption DEF PostingStep
    <3>3. n \in Nat \ {0} /\ n < CostLines[s] + 1
      BY <1>1, <1>5, <3>2
    <3>4. QED
      BY <3>1, <3>2, <3>3
  <2>2. HandAhead(h, s)
    BY <1>1, <1>5 DEF CostOf
  <2>3. ASSUME NEW g \in Handlers, hand'[g] # Free, hand'[g].doc = s  PROVE HandAhead(g, s)'
    <3>1. CASE g = h
      BY <1>1, <1>2, <1>5, <2>1, <2>2, <3>1 DEF HandAhead
    <3>2. CASE g # h
      <4>1. HandAhead(g, s) /\ hand'[g] = hand[g]
        BY <1>2, <2>3, <3>2 DEF CostOf
      <4>2. QED
        BY <1>1, <2>1, <4>1 DEF HandAhead
    <3>3. QED
      BY <3>1, <3>2
  <2>4. QED
    BY <1>1, <2>1, <2>3 DEF CostOf
<1>6. QED
  BY <1>4, <1>5

(* The row is posted by a handler that has all the entries behind it *)
LEMMA CostPosted ==
  ASSUME LedgerTypeOK, Fits, NEW h \in Handlers, HandleEvent(h),
         NEW s \in Shipments, hand[h].doc = s, CostOf(s)
  PROVE  CostOf(s)'
<1>1. /\ hand[h] # Free /\ hand[h].step = CostLines[s] + 1
      /\ ledger' = PostEntry(s) /\ event' = event /\ cost' = cost
      /\ hand' = [hand EXCEPT ![h].step = CostLines[s] + 2]
      /\ CostLines[s] \in Nat
  <2>1. PostingStep(s) = CostLines[s] + 1 /\ CostLines[s] \in Nat
    BY LedgerAssumption DEF PostingStep
  <2>2. PostingStep(s) + 1 = CostLines[s] + 2
    BY <2>1
  <2>3. /\ hand[h] # Free /\ hand[h].step = PostingStep(s)
        /\ ledger' = PostEntry(s) /\ event' = event /\ cost' = cost
        /\ hand' = [hand EXCEPT ![h].step = PostingStep(s) + 1]
    BY DEF HandleEvent, ReadyToPost
  <2>4. QED
    BY <2>1, <2>2, <2>3
<1>2. /\ hand'[h] = [doc |-> s, step |-> CostLines[s] + 2]
      /\ \A g \in Handlers \ {h} : hand'[g] = hand[g]
  <2> DEFINE n == CostLines[s] + 2
  <2>1. n \in Nat \ {0} /\ hand' = [hand EXCEPT ![h].step = n]
    BY <1>1
  <2> HIDE DEF n
  <2>2. /\ hand'[h] = [doc |-> hand[h].doc, step |-> n]
        /\ \A g \in Handlers \ {h} : hand'[g] = hand[g]
    BY <1>1, <2>1, HandMoves
  <2>3. QED
    BY <2>2 DEF n
<1>3. /\ s \in Docs \ Orders /\ ledger[s].amount \in {0, Amount[s]} /\ Amount[s] \in Nat
  BY Kinds, NewRowType DEF Fits, AmountsHold, Announced
<1>4. ledger'[s].amount = Amount[s]
  <2>1. CASE ledger[s].amount = 0
    BY <1>1, <1>3, <2>1, NewRowType DEF PostEntry, LedgerTypeOK
  <2>2. CASE ledger[s].amount # 0
    BY <1>1, <1>3, <2>2 DEF PostEntry, LedgerTypeOK
  <2>3. QED
    BY <2>1, <2>2
<1>5. 1..CostLines[s] \subseteq cost[s]
  <2>1. HandAhead(h, s)
    BY <1>1 DEF CostOf
  <2>2. QED
    BY <1>1, <2>1 DEF HandAhead
<1>6. ASSUME NEW g \in Handlers, hand'[g] # Free, hand'[g].doc = s  PROVE HandAhead(g, s)'
  <2>1. CASE g = h
    BY <1>1, <1>2, <1>4, <1>5, <2>1 DEF HandAhead
  <2>2. CASE g # h
    <3>1. HandAhead(g, s) /\ hand'[g] = hand[g]
      BY <1>2, <1>6, <2>2 DEF CostOf
    <3>2. QED
      BY <1>1, <1>4, <3>1 DEF HandAhead
  <2>3. QED
    BY <2>1, <2>2
<1>7. QED
  BY <1>1, <1>4, <1>5, <1>6 DEF CostOf

(* The event is processed when its handler is past the posting *)
LEMMA CostFinished ==
  ASSUME LedgerTypeOK, NEW h \in Handlers, MarkProcessed(h),
         NEW s \in Shipments, CostOf(s)
  PROVE  CostOf(s)'
<1>1. /\ hand[h] # Free /\ hand[h].doc \in Announced /\ hand[h].step \in Nat
      /\ hand[h].step > PostingStep(hand[h].doc)
      /\ ledger' = ledger /\ cost' = cost
      /\ event' = [event EXCEPT ![hand[h].doc] = "Processed"]
      /\ \A g \in Handlers : hand'[g] \in {hand[g], Free}
  BY HandType DEF MarkProcessed, Release, SetEvent, books, LedgerTypeOK
<1>2. s \in Announced
  BY DEF Announced
<1>3. CASE hand[h].doc # s
  <2>1. event'[s] = event[s]
    BY <1>1, <1>2, <1>3 DEF LedgerTypeOK
  <2>2. QED
    BY <1>1, <2>1, CostKept
<1>4. CASE hand[h].doc = s
  <2>1. HandAhead(h, s) /\ hand[h].step > CostLines[s] + 1 /\ CostLines[s] \in Nat
    BY <1>1, <1>4, LedgerAssumption DEF CostOf, PostingStep
  <2>2. ledger[s].amount = Amount[s] /\ 1..CostLines[s] \subseteq cost[s]
    BY <1>1, <2>1 DEF HandAhead
  <2>3. ASSUME NEW g \in Handlers, hand'[g] # Free, hand'[g].doc = s  PROVE HandAhead(g, s)'
    BY <1>1, <2>3 DEF CostOf, HandAhead
  <2>4. QED
    BY <1>1, <2>2, <2>3 DEF CostOf
<1>5. QED
  BY <1>3, <1>4

LEMMA CostStep ==
  ASSUME LedgerTypeOK, Fits, CostComesFirst, LedgerNext
  PROVE  CostComesFirst'
<1>1. SUFFICES ASSUME NEW s \in Shipments  PROVE CostOf(s)'
  BY DEF CostComesFirst
<1>2. s \in Announced /\ CostOf(s)
  BY DEF Announced, CostComesFirst
<1>3. CASE Posts(s)
  BY <1>2, <1>3, CostPosted DEF Posts
<1>4. ASSUME ~Posts(s)  PROVE ledger'[s].amount = ledger[s].amount
  BY <1>4, ShipmentRow
<1>5. CASE UNCHANGED events /\ ~Posts(s)
  BY <1>2, <1>4, <1>5, CostKept DEF events
<1>6. CASE EventSteps /\ ~Posts(s)
  <2>1. ASSUME NEW d \in Announced, Announce(d) \/ ResetStale(d) \/ Redrive(d)  PROVE CostOf(s)'
    <3>1. event'[s] \in {event[s], "Queued"} /\ UNCHANGED <<hand, cost>>
      BY <1>2, <2>1 DEF Announce, ResetStale, Redrive, SetEvent, LedgerTypeOK
    <3>2. QED
      BY <1>2, <1>4, <1>6, <3>1, CostKept
  <2>2. ASSUME NEW h \in Handlers, NEW d \in Announced, Claim(h, d)  PROVE CostOf(s)'
    <3>1. /\ event'[s] \in {event[s], "Claimed"} /\ UNCHANGED cost
          /\ \A g \in Handlers : hand'[g] = hand[g] \/ hand'[g].step = 1
      BY <1>2, <2>2 DEF Claim, SetEvent, LedgerTypeOK
    <3>2. QED
      BY <1>2, <1>4, <1>6, <3>1, CostKept
  <2>3. ASSUME NEW h \in Handlers, BookCost(h)  PROVE CostOf(s)'
    BY <1>2, <2>3, CostBooked
  <2>4. ASSUME NEW h \in Handlers, HandleEvent(h)  PROVE CostOf(s)'
    <3>1. hand[h].doc # s
      BY <1>6, <2>4 DEF Posts
    <3>2. hand'[h].doc # s /\ \A g \in Handlers \ {h} : hand'[g] = hand[g]
      <4>1. /\ hand[h] # Free /\ PostingStep(hand[h].doc) + 1 \in Nat \ {0}
            /\ hand' = [hand EXCEPT ![h].step = PostingStep(hand[h].doc) + 1]
        BY <2>4, HandType, PostingStepType DEF HandleEvent
      <4>2. QED
        BY <3>1, <4>1, HandMoves
    <3>3. UNCHANGED <<event, cost>>
      BY <2>4 DEF HandleEvent
    <3>4. QED
      BY <1>2, <1>4, <1>6, <3>2, <3>3, CostKept
  <2>5. ASSUME NEW h \in Handlers, MarkProcessed(h)  PROVE CostOf(s)'
    BY <1>2, <2>5, CostFinished
  <2>6. ASSUME NEW h \in Handlers, HandlerFails(h) \/ Abandon(h)  PROVE CostOf(s)'
    <3>1. /\ event'[s] \in {event[s], "Queued", "DeadLetter"} /\ UNCHANGED cost
          /\ \A g \in Handlers : hand'[g] \in {hand[g], Free}
      BY <1>2, <2>6 DEF HandlerFails, Abandon, Release, SetEvent, LedgerTypeOK
    <3>2. QED
      BY <1>2, <1>4, <1>6, <3>1, CostKept
  <2>7. QED
    BY <1>6, <2>1, <2>2, <2>3, <2>4, <2>5, <2>6 DEF EventSteps
<1>7. LedgerNext => UNCHANGED events \/ EventSteps
  <2>1. ASSUME NEW c \in Cashiers, CashierSteps(c)  PROVE UNCHANGED events
    BY <2>1 DEF CashierSteps, StartSettle, FinishSettle, StartUnsettle, ReadPayment, UpdatePayment,
                FinishUnsettle, RollBack, StartConfirm, FinishConfirm
  <2>2. \A j \in Journals : Confirm(j) => UNCHANGED events
    BY DEF Confirm
  <2>3. \A d \in Adjustments : CreateAdjustment(d) => UNCHANGED events
    BY DEF CreateAdjustment
  <2>4. QED
    BY <2>1, <2>2, <2>3 DEF LedgerNext
<1>8. QED
  BY <1>3, <1>5, <1>6, <1>7

LEMMA InitCost == LedgerInit => CostComesFirst
BY Kinds DEF LedgerInit, CostComesFirst, CostOf, NoRow, Announced

(***************************************************************************)
(* The rows say what the settlements add up to                             *)
(***************************************************************************)

AmountOf == [s \in Settlements |-> s.amount]

Of(d, S) == {s \in S : s.invoice = d \/ s.payment = d}

LEMMA SettledIs ==
  ASSUME NEW S \in SUBSET Settlements, IsFiniteSet(S), NEW d
  PROVE  SumOver([s \in S |-> s.amount], {s \in S : s.invoice = d \/ s.payment = d})
           = SumOver(AmountOf, Of(d, S))
<1>1. IsFiniteSet(Of(d, S)) /\ Of(d, S) \subseteq S
  BY FS_Subset DEF Of
<1> DEFINE f == [s \in S |-> s.amount]
<1>2. \A s \in Of(d, S) : AmountOf[s] \in Int /\ f[s] = AmountOf[s]
  BY <1>1 DEF AmountOf, Settlements
<1> HIDE DEF f
<1>3. SumOver(f, Of(d, S)) = SumOver(AmountOf, Of(d, S))
  BY <1>1, <1>2, SumSame
<1>4. QED
  BY <1>3 DEF f, Of

(* A settlement more counts for its two documents *)
LEMMA SettledWith ==
  ASSUME NEW S \in SUBSET Settlements, IsFiniteSet(S), NEW r \in Settlements, r \notin S
  PROVE  \A d : SumOver(AmountOf, Of(d, S \cup {r}))
                 = SumOver(AmountOf, Of(d, S)) + (IF d \in {r.invoice, r.payment} THEN r.amount ELSE 0)
<1> SUFFICES ASSUME NEW d
             PROVE  SumOver(AmountOf, Of(d, S \cup {r}))
                      = SumOver(AmountOf, Of(d, S)) + (IF d \in {r.invoice, r.payment} THEN r.amount ELSE 0)
  OBVIOUS
<1>1. IsFiniteSet(Of(d, S)) /\ r \notin Of(d, S)
  BY FS_Subset DEF Of
<1>2. /\ \A s \in Of(d, S) \cup {r} : AmountOf[s] \in Int
      /\ AmountOf[r] = r.amount
  BY DEF AmountOf, Settlements, Of
<1>3. SumOver(AmountOf, Of(d, S)) \in Int
  BY <1>1, <1>2, SumType
<1>4. CASE d \in {r.invoice, r.payment}
  <2>1. Of(d, S \cup {r}) = Of(d, S) \cup {r}
    BY <1>4 DEF Of
  <2>2. SumOver(AmountOf, Of(d, S) \cup {r}) = AmountOf[r] + SumOver(AmountOf, Of(d, S))
    BY <1>1, <1>2, SumAdd
  <2>3. r.amount \in Int
    BY DEF Settlements
  <2>4. SumOver(AmountOf, Of(d, S \cup {r})) = r.amount + SumOver(AmountOf, Of(d, S))
    BY <1>2, <2>1, <2>2
  <2>5. QED
    BY <1>3, <1>4, <2>3, <2>4
<1>5. CASE d \notin {r.invoice, r.payment}
  <2>1. Of(d, S \cup {r}) = Of(d, S)
    BY <1>5 DEF Of
  <2>2. SumOver(AmountOf, Of(d, S \cup {r})) = SumOver(AmountOf, Of(d, S))
    BY <2>1
  <2>3. QED
    BY <1>3, <1>5, <2>2
<1>6. QED
  BY <1>4, <1>5

(* The numbers of the settlements tell them apart; a journal that waits to  *)
(* be confirmed has no row, and one request at most confirms it; the rest   *)
(* is the statement itself.                                                 *)
Numbered == IsFiniteSet(settlements) /\ \A s \in settlements : s.no <= issued

DraftsHaveNoRow ==
  /\ \A j \in Journals : journal[j] = "Draft" => ledger[j].amount = 0
  /\ \A c \in Cashiers : AtStep(c, "confirm", "read") => journal[desk[c].row.payment] = "Draft"
  /\ \A c, e \in Cashiers :
       AtStep(c, "confirm", "read") /\ AtStep(e, "confirm", "read")
         /\ desk[c].row.payment = desk[e].row.payment => c = e

Kept(d, S) == ledger[d].applied = SumOver(AmountOf, Of(d, S))

Balanced == Numbered /\ DraftsHaveNoRow /\ \A d \in Docs \ stale : Kept(d, settlements)

LEMMA NumberedStep ==
  ASSUME LedgerTypeOK, Numbered, LedgerNext
  PROVE  Numbered'
<1>1. CASE settlements' = settlements /\ issued' = issued
  BY <1>1 DEF Numbered
<1>2. ASSUME NEW row \in Settlements, Insert(row)  PROVE Numbered'
  <2> DEFINE r == [row EXCEPT !.no = issued + 1]
  <2>1. settlements' = settlements \cup {r} /\ issued' = issued + 1 /\ issued \in Nat
    BY <1>2 DEF Insert, LedgerTypeOK
  <2>2. r.no = issued + 1
    BY DEF Settlements
  <2>3. IsFiniteSet(settlements')
    BY <2>1, FS_AddElement DEF Numbered
  <2>4. \A s \in settlements : s.no \in Nat /\ s.no <= issued
    BY DEF Numbered, LedgerTypeOK, Settlements
  <2>5. ASSUME NEW s \in settlements'  PROVE s.no <= issued'
    <3>1. CASE s = r
      BY <2>1, <2>2, <3>1
    <3>2. CASE s \in settlements
      <4>1. s.no \in Nat /\ s.no <= issued
        BY <2>4, <3>2
      <4>2. QED
        BY <2>1, <4>1
    <3>3. QED
      BY <2>1, <3>1, <3>2
  <2>6. QED
    BY <2>3, <2>5 DEF Numbered
<1>3. ASSUME NEW c \in Cashiers, FinishUnsettle(c)  PROVE Numbered'
  <2>1. settlements' \subseteq settlements /\ issued' = issued
    BY <1>3 DEF FinishUnsettle, Delete
  <2>2. QED
    BY <2>1, FS_Subset DEF Numbered
<1>4. ASSUME NEW c \in Cashiers, FinishSettle(c) \/ FinishConfirm(c)
      PROVE  desk[c].row \in Settlements /\ Insert(desk[c].row)
  BY <1>4, RequestType DEF FinishSettle, FinishConfirm, AtStep
<1>5. CASE Reads
  BY <1>1, <1>5, ReadsKeepBooks
<1>6. QED
  BY <1>1, <1>2, <1>3, <1>4, <1>5, StepKinds, PostsWhat DEF Confirm, CreateAdjustment

(* Nothing but its confirmation gives a journal a row. *)
LEMMA JournalRow ==
  ASSUME LedgerTypeOK, LedgerNext, NEW j \in Journals, ledger'[j].amount # ledger[j].amount
  PROVE  Confirm(j) \/ \E c \in Cashiers : FinishConfirm(c) /\ desk[c].row.payment = j
<1>1. j \in Docs /\ j \notin Shipments /\ j \notin Adjustments /\ j \notin Returns /\ j \notin Announced
      /\ j \notin Invoices
  BY Kinds, LedgerAssumption DEF Announced, Invoices, Payments
<1>2. ASSUME NEW c \in Cashiers, FinishSettle(c) \/ FinishUnsettle(c)
      PROVE  ledger'[j].amount = ledger[j].amount
  <2>1. ledger \in [Docs -> LedgerRows]
    BY DEF LedgerTypeOK
  <2>2. CASE FinishSettle(c)
    BY <1>1, <2>1, <2>2 DEF FinishSettle, AppliedTo, LedgerRows
  <2>3. CASE FinishUnsettle(c)
    BY <1>1, <2>1, <2>3 DEF FinishUnsettle, LedgerRows
  <2>4. QED
    BY <1>2, <2>2, <2>3
<1>3. ASSUME NEW c \in Cashiers, FinishConfirm(c), desk[c].row.payment # j
      PROVE  ledger'[j].amount = ledger[j].amount
  <2>1. desk[c].row.invoice # j
    BY <1>1, <1>3, RequestType DEF FinishConfirm, AtStep
  <2>2. QED
    BY <1>1, <1>3, <2>1 DEF FinishConfirm, LedgerTypeOK, LedgerRows
<1>4. ASSUME NEW k \in Journals, Confirm(k), k # j  PROVE FALSE
  BY <1>1, <1>4 DEF Confirm, LedgerTypeOK
<1>5. \A d \in Adjustments : ~CreateAdjustment(d)
  BY <1>1 DEF CreateAdjustment, LedgerTypeOK
<1>6. ASSUME NEW d \in Announced, Posts(d)  PROVE FALSE
  BY <1>1, <1>6, PostsWhat DEF PostEntry, LedgerTypeOK
<1>7. QED
  BY <1>2, <1>3, <1>4, <1>5, <1>6, StepKinds, ReadsWriteNothing

(* The steps of Ledger do not change what is due for an order. *)
LEMMA OrderRow ==
  ASSUME LedgerTypeOK, LedgerNext, NEW o \in Orders
  PROVE  ledger'[o].amount = ledger[o].amount
<1>1. o \in Docs /\ o \notin Payments /\ o \notin Announced /\ o \notin Journals /\ o \notin Adjustments
  BY Kinds, LedgerAssumption DEF Announced, Invoices, Payments
<1>2. ASSUME NEW c \in Cashiers, FinishSettle(c) \/ FinishUnsettle(c)
      PROVE  ledger'[o].amount = ledger[o].amount
  <2>1. ledger \in [Docs -> LedgerRows]
    BY DEF LedgerTypeOK
  <2>2. CASE FinishSettle(c)
    BY <1>1, <2>1, <2>2 DEF FinishSettle, AppliedTo, LedgerRows
  <2>3. CASE FinishUnsettle(c)
    BY <1>1, <2>1, <2>3 DEF FinishUnsettle, LedgerRows
  <2>4. QED
    BY <1>2, <2>2, <2>3
<1>3. ASSUME NEW c \in Cashiers, FinishConfirm(c)
      PROVE  ledger'[o].amount = ledger[o].amount
  <2>1. desk[c].row.payment # o
    BY <1>1, <1>3, RequestType DEF FinishConfirm, AtStep
  <2>2. QED
    BY <1>1, <1>3, <2>1 DEF FinishConfirm, LedgerTypeOK, LedgerRows
<1>4. ASSUME NEW j \in Journals, Confirm(j)  PROVE ledger'[o].amount = ledger[o].amount
  BY <1>1, <1>4 DEF Confirm, LedgerTypeOK
<1>5. ASSUME NEW d \in Adjustments, CreateAdjustment(d)
      PROVE  ledger'[o].amount = ledger[o].amount
  BY <1>1, <1>5 DEF CreateAdjustment, LedgerTypeOK
<1>6. ASSUME NEW d \in Announced, Posts(d)  PROVE ledger'[o].amount = ledger[o].amount
  BY <1>1, <1>6, PostsWhat DEF PostEntry, LedgerTypeOK
<1>7. QED
  BY <1>2, <1>3, <1>4, <1>5, <1>6, StepKinds, ReadsWriteNothing

(* A request that confirms has started to, or just starts. *)
LEMMA ConfirmDesk ==
  ASSUME LedgerTypeOK, LedgerNext, NEW c \in Cashiers, AtStep(c, "confirm", "read")'
  PROVE  \/ desk'[c] = desk[c]
         \/ Reads /\ \E j \in Journals : StartConfirm(c, j) /\ desk'[c].row.payment = j
<1>1. desk'[c] # Free /\ desk'[c].op = "confirm"
  BY DEF AtStep
<1>2. SUFFICES ASSUME desk'[c] # desk[c]
               PROVE  Reads /\ \E j \in Journals : StartConfirm(c, j) /\ desk'[c].row.payment = j
  OBVIOUS
<1>3. ASSUME NEW i \in Invoices, NEW p \in Payments, StartSettle(c, i, p)  PROVE FALSE
  BY <1>1, <1>3 DEF StartSettle, Request, LedgerTypeOK
<1>4. ASSUME NEW s \in settlements, StartUnsettle(c, s)  PROVE FALSE
  BY <1>1, <1>4 DEF StartUnsettle, Request, LedgerTypeOK
<1>5. ASSUME ReadPayment(c) \/ UpdatePayment(c)  PROVE FALSE
  <2>1. desk[c] \in Requests /\ desk[c].op = "unsettle"
    BY <1>5, RequestType DEF ReadPayment, UpdatePayment, AtStep
  <2>2. desk'[c].op = desk[c].op
    BY <1>5, <2>1 DEF ReadPayment, UpdatePayment, LedgerTypeOK, Requests
  <2>3. QED
    BY <1>1, <2>1, <2>2
<1>6. PICK j \in Journals : StartConfirm(c, j)
  BY <1>1, <1>2, <1>3, <1>4, <1>5, DeskStep
<1>7. desk'[c].row.payment = j
  BY <1>6 DEF StartConfirm, Request, LedgerTypeOK
<1>8. QED
  BY <1>6, <1>7 DEF Reads

LEMMA DraftsStep ==
  ASSUME LedgerTypeOK, LedgerTypeOK', DraftsHaveNoRow, LedgerNext
  PROVE  DraftsHaveNoRow'
<1>1. ASSUME NEW j \in Journals, journal'[j] = "Draft"
      PROVE  /\ journal[j] = "Draft" /\ ledger'[j].amount = ledger[j].amount
             /\ ~Confirm(j)
             /\ \A c \in Cashiers : FinishConfirm(c) => desk[c].row.payment # j
  <2>1. ~Confirm(j)
    BY <1>1 DEF Confirm, LedgerTypeOK
  <2>2. \A c \in Cashiers : FinishConfirm(c) => desk[c].row.payment # j
    BY <1>1 DEF FinishConfirm, LedgerTypeOK
  <2>3. ledger'[j].amount = ledger[j].amount
    BY <2>1, <2>2, JournalRow
  <2>4. journal[j] = "Draft"
    <3>1. CASE journal' = journal
      BY <1>1, <3>1
    <3>2. ASSUME NEW k \in Journals, Confirm(k)  PROVE journal[j] = "Draft"
      BY <1>1, <2>1, <3>2 DEF Confirm, LedgerTypeOK
    <3>3. ASSUME NEW c \in Cashiers, FinishConfirm(c)  PROVE journal[j] = "Draft"
      BY <1>1, <2>2, <3>3 DEF FinishConfirm, LedgerTypeOK
    <3>4. QED
      BY <3>1, <3>2, <3>3, StepKinds, ReadsKeepBooks, PostsWhat
         DEF FinishSettle, FinishUnsettle, CreateAdjustment
  <2>5. QED
    BY <2>1, <2>2, <2>3, <2>4
<1>2. \A j \in Journals : journal'[j] = "Draft" => ledger'[j].amount = 0
  BY <1>1 DEF DraftsHaveNoRow
<1>3. ASSUME NEW c \in Cashiers, AtStep(c, "confirm", "read")'
      PROVE  journal'[desk'[c].row.payment] = "Draft"
  <2>1. CASE desk'[c] = desk[c]
    <3>1. AtStep(c, "confirm", "read") /\ desk'[c] # Free
      BY <1>3, <2>1 DEF AtStep
    <3> DEFINE j == desk[c].row.payment
    <3>2. journal[j] = "Draft"
      BY <3>1 DEF DraftsHaveNoRow
    <3>3. CASE journal' = journal
      BY <2>1, <3>2, <3>3
    <3>4. ASSUME NEW k \in Journals, Confirm(k)  PROVE journal'[j] = "Draft"
      BY <3>1, <3>2, <3>4 DEF Confirm, Confirmable, LedgerTypeOK
    <3>5. ASSUME NEW e \in Cashiers, FinishConfirm(e)  PROVE journal'[j] = "Draft"
      <4>1. desk'[e] = Free /\ AtStep(e, "confirm", "read")
        BY <3>5 DEF FinishConfirm, LedgerTypeOK
      <4>2. desk[e].row.payment # j
        BY <3>1, <4>1 DEF DraftsHaveNoRow
      <4>3. QED
        BY <3>2, <3>5, <4>2 DEF FinishConfirm, LedgerTypeOK
    <3>6. QED
      BY <2>1, <3>3, <3>4, <3>5, StepKinds, ReadsKeepBooks, PostsWhat
         DEF FinishSettle, FinishUnsettle, CreateAdjustment
  <2>2. ASSUME NEW j \in Journals, Reads, StartConfirm(c, j), desk'[c].row.payment = j
        PROVE  journal'[desk'[c].row.payment] = "Draft"
    BY <2>2, ReadsKeepBooks DEF StartConfirm, Confirmable
  <2>3. QED
    BY <1>3, <2>1, <2>2, ConfirmDesk
<1>4. ASSUME NEW c \in Cashiers, NEW e \in Cashiers,
             AtStep(c, "confirm", "read")', AtStep(e, "confirm", "read")',
             desk'[c].row.payment = desk'[e].row.payment, c # e
      PROVE  FALSE
  <2>1. ASSUME NEW a \in Cashiers, NEW b \in Cashiers, a # b, NEW j \in Journals,
               StartConfirm(a, j), desk'[a].row.payment = j,
               AtStep(b, "confirm", "read")', desk'[b].row.payment = j
        PROVE  FALSE
    <3>1. desk'[b] = desk[b]
      BY <2>1 DEF StartConfirm, LedgerTypeOK
    <3>2. AtStep(b, "confirm", "read") /\ desk[b].row.payment = j
      BY <2>1, <3>1 DEF AtStep
    <3>3. QED
      BY <2>1, <3>2 DEF StartConfirm, Confirmable
  <2>2. CASE desk'[c] = desk[c] /\ desk'[e] = desk[e]
    <3>1. /\ AtStep(c, "confirm", "read") /\ AtStep(e, "confirm", "read")
          /\ desk[c].row.payment = desk[e].row.payment
      BY <1>4, <2>2 DEF AtStep
    <3>2. QED
      BY <1>4, <3>1 DEF DraftsHaveNoRow
  <2>3. QED
    BY <1>4, <2>1, <2>2, ConfirmDesk
<1>5. QED
  BY <1>2, <1>3, <1>4 DEF DraftsHaveNoRow

LEMMA NothingOf ==
  ASSUME LedgerTypeOK, Fits, NEW d \in Docs \ Orders, ledger[d].amount = 0
  PROVE  ledger[d].applied = 0
BY DEF LedgerTypeOK, LedgerRows, Fits, AppliedWithinAmount

(* A step that inserts the settlement of a request, which writes the sums of  *)
(* its two documents from the rows it has read                                *)
LEMMA InsertKeeps ==
  ASSUME LedgerTypeOK, Balanced, NEW row \in Settlements, Insert(row),
         stale \subseteq stale',
         \A d \in Docs \ stale' :
           ledger'[d].applied = ledger[d].applied
                                + (IF d \in {row.invoice, row.payment} THEN row.amount ELSE 0)
  PROVE  \A d \in Docs \ stale' : Kept(d, settlements)'
<1> DEFINE r == [row EXCEPT !.no = issued + 1]
<1>1. /\ settlements' = settlements \cup {r} /\ r \in Settlements
      /\ r.no = issued + 1 /\ r.invoice = row.invoice /\ r.payment = row.payment
      /\ r.amount = row.amount
  BY DEF Insert, Settlements, LedgerTypeOK
<1>2. /\ settlements \in SUBSET Settlements /\ IsFiniteSet(settlements) /\ r \notin settlements
  BY <1>1 DEF Balanced, Numbered, LedgerTypeOK, Settlements
<1> HIDE DEF r
<1>3. \A d : SumOver(AmountOf, Of(d, settlements \cup {r}))
             = SumOver(AmountOf, Of(d, settlements))
               + (IF d \in {r.invoice, r.payment} THEN r.amount ELSE 0)
  BY <1>1, <1>2, SettledWith
<1>4. ASSUME NEW d \in Docs \ stale'  PROVE Kept(d, settlements)'
  <2>1. ledger[d].applied = SumOver(AmountOf, Of(d, settlements))
    BY DEF Balanced, Kept
  <2>2. ledger'[d].applied = SumOver(AmountOf, Of(d, settlements \cup {r}))
    <3>1. SumOver(AmountOf, Of(d, settlements \cup {r}))
            = ledger[d].applied + (IF d \in {r.invoice, r.payment} THEN r.amount ELSE 0)
      BY <1>3, <2>1
    <3>2. QED
      BY <1>1, <3>1
  <2>3. QED
    BY <1>1, <2>2 DEF Kept
<1>5. QED
  BY <1>4

LEMMA KeptStep ==
  ASSUME LedgerTypeOK, Fits, Balanced, LedgerNext
  PROVE  \A d \in Docs \ stale' : Kept(d, settlements)'
<1>1. ASSUME settlements' = settlements, stale' = stale,
             \A d \in Docs : ledger'[d].applied = ledger[d].applied
      PROVE  \A d \in Docs \ stale' : Kept(d, settlements)'
  BY <1>1 DEF Balanced, Kept
<1>2. ASSUME NEW c \in Cashiers, FinishSettle(c)
      PROVE  \A d \in Docs \ stale' : Kept(d, settlements)'
  <2> DEFINE row == desk[c].row
             x == desk[c].inv.applied + row.amount
             y == desk[c].pay.applied + row.amount
  <2>1. desk[c] # Free
    BY <1>2 DEF FinishSettle, AtStep
  <2>2. row.invoice \in Docs /\ row.payment \in Docs \ {row.invoice} /\ row \in Settlements
    BY <2>1, RequestType, Kinds
  <2>3. x \in Nat /\ y \in Nat
    BY <2>1, RequestType DEF LedgerRows
  <2>4. ledger' = [ledger EXCEPT ![row.invoice].applied = x, ![row.payment].applied = y]
    BY <1>2, <2>1, HeldBy DEF FinishSettle, AppliedTo
  <2>5. /\ ledger'[row.invoice].applied = x /\ ledger'[row.payment].applied = y
        /\ \A d \in Docs \ {row.invoice, row.payment} : ledger'[d] = ledger[d]
    <3>1. /\ ledger'[row.invoice] = WithApplied(row.invoice, x)
          /\ ledger'[row.payment] = WithApplied(row.payment, y)
          /\ \A d \in Docs \ {row.invoice, row.payment} : ledger'[d] = ledger[d]
      <4> HIDE DEF x, y, row
      <4>1. ledger'[row.invoice] = WithApplied(row.invoice, x)
        BY <2>2, <2>3, <2>4, WriteTwo
      <4>2. ledger'[row.payment] = WithApplied(row.payment, y)
        <5>1. ledger'[row.payment] = [ledger[row.payment] EXCEPT !.applied = y]
          BY <2>2, <2>4 DEF LedgerTypeOK
        <5>2. ledger[row.payment] \in LedgerRows
          BY <2>2 DEF LedgerTypeOK
        <5>3. QED
          BY <5>1, <5>2 DEF LedgerRows, WithApplied
      <4>3. \A d \in Docs \ {row.invoice, row.payment} : ledger'[d] = ledger[d]
        BY <2>4 DEF LedgerTypeOK
      <4>4. QED
        BY <4>1, <4>2, <4>3
    <3>2. QED
      BY <3>1 DEF WithApplied
  <2>6. /\ row.invoice \notin stale' => ledger[row.invoice] = desk[c].inv
        /\ row.payment \notin stale' => ledger[row.payment] = desk[c].pay
    BY <1>2, <2>1, HeldBy DEF FinishSettle, Overtaken
  <2>7. \A d \in Docs : ledger[d].applied \in Nat
    BY DEF LedgerTypeOK, LedgerRows
  <2>8. \A d \in Docs \ stale' :
          ledger'[d].applied = ledger[d].applied
                               + (IF d \in {row.invoice, row.payment} THEN row.amount ELSE 0)
    BY <2>2, <2>5, <2>6, <2>7
  <2>9. Insert(row) /\ stale \subseteq stale'
    BY <1>2 DEF FinishSettle
  <2>10. QED
    BY <2>2, <2>8, <2>9, InsertKeeps
<1>3. ASSUME NEW c \in Cashiers, FinishConfirm(c)
      PROVE  \A d \in Docs \ stale' : Kept(d, settlements)'
  <2> DEFINE row == desk[c].row
             i == row.invoice
             p == row.payment
             x == desk[c].inv.applied + row.amount
  <2>1. desk[c] # Free /\ desk[c].op = "confirm" /\ AtStep(c, "confirm", "read")
    BY <1>3 DEF FinishConfirm, AtStep
  <2>2. p \in Journals /\ journal[p] = "Draft"
    BY <2>1 DEF Fits, HeldFits, Balanced, DraftsHaveNoRow
  <2>3. /\ i \in Docs /\ p \in Docs /\ i # p /\ row \in Settlements
        /\ x \in Nat /\ row.amount \in Nat
    BY <2>1, RequestType, Kinds DEF LedgerRows
  <2>4. ledger[p].applied = 0
    BY <2>2, <2>3, Kinds, NothingOf DEF Balanced, DraftsHaveNoRow
  <2>5. ledger[i] \in LedgerRows /\ ledger[p] \in LedgerRows
    BY <2>3 DEF LedgerTypeOK
  <2>6. [ledger[i] EXCEPT !.applied = x] = WithApplied(i, x)
    BY <2>5 DEF LedgerRows, WithApplied
  <2>7. ledger' = [ledger EXCEPT ![p] = [amount |-> row.amount, applied |-> row.amount],
                                 ![i] = WithApplied(i, x)]
    BY <1>3, <2>3, <2>6 DEF FinishConfirm, LedgerTypeOK
  <2>8. /\ ledger'[p].applied = row.amount /\ ledger'[i].applied = x
        /\ \A d \in Docs \ {i, p} : ledger'[d] = ledger[d]
    BY <2>3, <2>7 DEF LedgerTypeOK, WithApplied
  <2>9. i \notin stale' => ledger[i] = desk[c].inv
    BY <1>3, <2>1, HeldBy DEF FinishConfirm, Overtaken
  <2>10. \A d \in Docs : ledger[d].applied \in Nat
    BY DEF LedgerTypeOK, LedgerRows
  <2>11. \A d \in Docs \ stale' :
          ledger'[d].applied = ledger[d].applied
                               + (IF d \in {row.invoice, row.payment} THEN row.amount ELSE 0)
    BY <2>3, <2>4, <2>8, <2>9, <2>10
  <2>12. Insert(row) /\ stale \subseteq stale'
    BY <1>3 DEF FinishConfirm
  <2>13. QED
    BY <2>3, <2>11, <2>12, InsertKeeps
<1>4. ASSUME NEW c \in Cashiers, FinishUnsettle(c)
      PROVE  \A d \in Docs \ stale' : Kept(d, settlements)'
  <2> DEFINE row == desk[c].row
             x == Reduced(desk[c].inv.applied, row.amount)
             y == Reduced(desk[c].pay.applied, row.amount)
             Rest == settlements \ {row}
  <2>1. desk[c] # Free
    BY <1>4 DEF FinishUnsettle, AtStep
  <2>2. /\ row.invoice \in Docs /\ row.payment \in Docs \ {row.invoice} /\ row \in Settlements
        /\ row.amount \in Nat
    BY <2>1, RequestType, Kinds
  <2>3. x \in Nat /\ y \in Nat
    BY <2>1, RequestType DEF LedgerRows, Reduced
  <2>4. ledger' = [ledger EXCEPT ![row.invoice].applied = x, ![row.payment].applied = y]
    BY <1>4 DEF FinishUnsettle
  <2> HIDE DEF x, y
  <2>5. /\ ledger'[row.invoice].applied = x /\ ledger'[row.payment].applied = y
        /\ \A d \in Docs \ {row.invoice, row.payment} : ledger'[d] = ledger[d]
    <3>1. /\ ledger'[row.invoice] = WithApplied(row.invoice, x)
          /\ ledger'[row.payment] = WithApplied(row.payment, y)
          /\ \A d \in Docs \ {row.invoice, row.payment} : ledger'[d] = ledger[d]
      <4> HIDE DEF x, y, row
      <4>1. ledger'[row.invoice] = WithApplied(row.invoice, x)
        BY <2>2, <2>3, <2>4, WriteTwo
      <4>2. ledger'[row.payment] = WithApplied(row.payment, y)
        <5>1. ledger'[row.payment] = [ledger[row.payment] EXCEPT !.applied = y]
          BY <2>2, <2>4 DEF LedgerTypeOK
        <5>2. ledger[row.payment] \in LedgerRows
          BY <2>2 DEF LedgerTypeOK
        <5>3. QED
          BY <5>1, <5>2 DEF LedgerRows, WithApplied
      <4>3. \A d \in Docs \ {row.invoice, row.payment} : ledger'[d] = ledger[d]
        BY <2>4 DEF LedgerTypeOK
      <4>4. QED
        BY <4>1, <4>2, <4>3
    <3>2. QED
      BY <3>1 DEF WithApplied
  <2>6. settlements' = Rest /\ stale \subseteq stale'
    BY <1>4 DEF FinishUnsettle, Delete
  <2>7. CASE row \notin settlements
    <3>1. settlements' = settlements /\ {row.invoice, row.payment} \subseteq stale'
      BY <1>4, <2>6, <2>7 DEF FinishUnsettle
    <3>2. QED
      BY <2>5, <2>6, <3>1 DEF Balanced, Kept
  <2>8. CASE row \in settlements
    <3>1. /\ row.invoice \notin stale' => ledger[row.invoice] = desk[c].inv
          /\ row.payment \notin stale' => ledger[row.payment] = desk[c].pay
      BY <1>4, <2>1, <2>8, HeldBy DEF FinishUnsettle, Overtaken
    <3>2. /\ Rest \in SUBSET Settlements /\ IsFiniteSet(Rest) /\ row \notin Rest
          /\ Rest \cup {row} = settlements
      BY <2>8, FS_Subset DEF Balanced, Numbered, LedgerTypeOK
    <3> HIDE DEF Rest
    <3>3. \A d : SumOver(AmountOf, Of(d, Rest \cup {row}))
             = SumOver(AmountOf, Of(d, Rest))
               + (IF d \in {row.invoice, row.payment} THEN row.amount ELSE 0)
      BY <2>2, <3>2, SettledWith
    <3>4. ASSUME NEW d \in Docs \ stale'  PROVE Kept(d, settlements)'
      <4>1. ledger[d].applied = SumOver(AmountOf, Of(d, settlements))
        BY <2>6 DEF Balanced, Kept
      <4>2. ledger[d].applied = SumOver(AmountOf, Of(d, Rest))
               + (IF d \in {row.invoice, row.payment} THEN row.amount ELSE 0)
        BY <3>2, <3>3, <4>1
      <4>3. SumOver(AmountOf, Of(d, Rest)) \in Nat
        <5>1. IsFiniteSet(Of(d, Rest)) /\ \A s \in Of(d, Rest) : AmountOf[s] \in Nat
          BY <3>2, FS_Subset DEF Of, AmountOf, Settlements
        <5>2. QED
          BY <5>1, SumNat
      <4>4. ledger'[d].applied = SumOver(AmountOf, Of(d, Rest))
        <5>1. CASE d = row.invoice
          <6>1. ledger[d] = desk[c].inv
            BY <3>1, <5>1
          <6>2. x = SumOver(AmountOf, Of(d, Rest))
            BY <2>2, <4>2, <4>3, <5>1, <6>1 DEF x, Reduced
          <6>3. QED
            BY <2>5, <5>1, <6>2
        <5>2. CASE d = row.payment
          <6>1. ledger[d] = desk[c].pay
            BY <3>1, <5>2
          <6>2. y = SumOver(AmountOf, Of(d, Rest))
            BY <2>2, <4>2, <4>3, <5>2, <6>1 DEF y, Reduced
          <6>3. QED
            BY <2>5, <5>2, <6>2
        <5>3. CASE d \notin {row.invoice, row.payment}
          BY <2>5, <4>2, <4>3, <5>3
        <5>4. QED
          BY <5>1, <5>2, <5>3
      <4>5. QED
        BY <2>6, <4>4 DEF Kept
    <3>5. QED
      BY <3>4
  <2>9. QED
    BY <2>7, <2>8
<1>5. ASSUME NEW d \in Docs \ Orders, ledger' = [ledger EXCEPT ![d] = NewRow(d)],
             ledger[d].amount = 0
      PROVE  \A e \in Docs : ledger'[e].applied = ledger[e].applied
  BY <1>5, NothingOf, NewRowType DEF LedgerTypeOK
<1>6. ASSUME NEW j \in Journals, Confirm(j)
      PROVE  \A d \in Docs \ stale' : Kept(d, settlements)'
  <2>1. j \in Docs \ Orders /\ ledger[j].amount = 0
    BY <1>6, Kinds DEF Confirm, Confirmable, Balanced, DraftsHaveNoRow
  <2>2. QED
    BY <1>1, <1>5, <1>6, <2>1 DEF Confirm
<1>7. ASSUME NEW d \in Adjustments, CreateAdjustment(d)
      PROVE  \A e \in Docs \ stale' : Kept(e, settlements)'
  BY <1>1, <1>5, <1>7, Kinds DEF CreateAdjustment
<1>8. ASSUME NEW d \in Announced, Posts(d)
      PROVE  \A e \in Docs \ stale' : Kept(e, settlements)'
  <2>1. ledger' = PostEntry(d) /\ d \in Docs \ Orders
    BY <1>8, PostsWhat, Kinds
  <2>2. \A e \in Docs : ledger'[e].applied = ledger[e].applied
    <3>1. CASE ledger[d].amount = 0
      BY <1>5, <2>1, <3>1 DEF PostEntry
    <3>2. CASE ledger[d].amount # 0
      BY <2>1, <3>2 DEF PostEntry, LedgerTypeOK
    <3>3. QED
      BY <3>1, <3>2
  <2>3. QED
    BY <1>1, <1>8, <2>2, PostsWhat
<1>9. CASE Reads
  BY <1>1, <1>9, ReadsKeepBooks
<1>10. QED
  BY <1>2, <1>3, <1>4, <1>6, <1>7, <1>8, <1>9, StepKinds

LEMMA InitBalanced == LedgerInit => Balanced
<1> SUFFICES ASSUME LedgerInit  PROVE Balanced
  OBVIOUS
<1>1. Numbered
  BY FS_EmptySet DEF LedgerInit, Numbered
<1>2. DraftsHaveNoRow
  BY Kinds DEF LedgerInit, DraftsHaveNoRow, NoRow, AtStep
<1>3. ASSUME NEW d \in Docs  PROVE Kept(d, settlements)
  <2>1. Of(d, settlements) = {} /\ ledger[d].applied = 0
    BY DEF LedgerInit, NoRow, Of
  <2>2. QED
    BY <2>1, SumEmpty DEF Kept
<1>4. QED
  BY <1>1, <1>2, <1>3 DEF Balanced

LEMMA RowsSay == LedgerTypeOK /\ Balanced => BooksBalance
<1> SUFFICES ASSUME LedgerTypeOK, Balanced, NEW d \in Docs \ stale
             PROVE  ledger[d].applied = SettledOf(d)
  BY DEF BooksBalance
<1>1. SettledOf(d) = SumOver(AmountOf, Of(d, settlements))
  BY SettledIs DEF SettledOf, LedgerTypeOK, Balanced, Numbered
<1>2. QED
  BY <1>1 DEF Balanced, Kept

(***************************************************************************)
(* The invariant, and what it says                                         *)
(***************************************************************************)

LedgerInv == LedgerTypeOK /\ Fits /\ CostComesFirst /\ Balanced

LEMMA InitLedger == LedgerInit => LedgerInv
BY InitTypes, InitFits, InitCost, InitBalanced DEF LedgerInv

LEMMA LedgerStep ==
  ASSUME LedgerInv, LedgerNext
  PROVE  LedgerInv'
<1>1. LedgerTypeOK'
  BY TypeStep DEF LedgerInv
<1>2. Fits'
  BY <1>1, RowsStep, HeldStep DEF LedgerInv, Fits
<1>3. CostComesFirst'
  BY CostStep DEF LedgerInv
<1>4. Balanced'
  BY <1>1, NumberedStep, DraftsStep, KeptStep DEF LedgerInv, Balanced
<1>5. QED
  BY <1>1, <1>2, <1>3, <1>4 DEF LedgerInv

LEMMA LedgerStays ==
  ASSUME LedgerInv, UNCHANGED ledgerVars
  PROVE  LedgerInv'
BY DEF ledgerVars, books, events, LedgerInv, LedgerTypeOK, Fits, AmountsHold,
       AppliedWithinAmount, HeldFits, CostComesFirst, CostOf, HandAhead, Balanced, Numbered, DraftsHaveNoRow,
       AtStep, Kept

LEMMA LedgerSays ==
  LedgerInv => AppliedWithinAmount /\ RevenueHasCost /\ BooksBalance
BY RowsSay DEF LedgerInv, Fits, CostComesFirst, CostOf, RevenueHasCost

(* What the ledger needs of its rows, sums, events and desks, at all times. *)
THEOREM LedgerHolds == LedgerSpec => []LedgerInv
<1>1. LedgerInv /\ [LedgerNext]_ledgerVars => LedgerInv'
  BY LedgerStep, LedgerStays
<1>2. QED
  BY <1>1, InitLedger, PTL DEF LedgerSpec

(* Every variable of Ledger keeps its type, whatever overlaps and fails.    *)
THEOREM TypeInvariance == LedgerSpec => []LedgerTypeOK
<1>1. LedgerInv => LedgerTypeOK
  BY DEF LedgerInv
<1>2. QED
  BY <1>1, LedgerHolds, PTL

(* No document is applied beyond its amount, whoever settles, undoes and    *)
(* confirms at once, for any number of requests and documents: the sums may *)
(* be wrong, but they fit.                                                  *)
THEOREM NeverOverApplied == LedgerSpec => []AppliedWithinAmount
BY LedgerSays, LedgerHolds, PTL

(* A shipment has no revenue before every entry of its cost is booked, and  *)
(* its event is not processed before it has both: for any number of entries *)
(* and servers, whatever fails, is lost, handed out twice or redriven.      *)
THEOREM CostBeforeRevenue == LedgerSpec => []RevenueHasCost
BY LedgerSays, LedgerHolds, PTL

(* The row of every document says what its settlements add up to, unless a  *)
(* request wrote it from an older row: for any number of cashiers, journals *)
(* and events, whatever is rolled back, repeated or lost in a crash.        *)
THEOREM BooksAlwaysBalance == LedgerSpec => []BooksBalance
BY LedgerSays, LedgerHolds, PTL

(***************************************************************************)
(* The ledger among the receipts of purchases                              *)
(***************************************************************************)

(* What a receipt does here: it writes the amount of an order that nothing  *)
(* is applied to.                                                           *)
OrderWritten(o, n) ==
  /\ ledger[o].amount = 0 \/ ledger[o].applied = 0
  /\ ledger' = [ledger EXCEPT ![o].amount = n]
  /\ UNCHANGED <<settlements, issued, journal, desk, stale, events>>

LEMMA OrderWrittenStep ==
  ASSUME LedgerInv, NEW o \in Orders, NEW n \in Nat, OrderWritten(o, n)
  PROVE  LedgerInv'
<1>1. /\ LedgerTypeOK /\ o \in Docs /\ ledger[o] \in LedgerRows
      /\ UNCHANGED <<settlements, issued, journal, desk, stale, event, hand, cost>>
  BY Kinds DEF LedgerInv, LedgerTypeOK, OrderWritten, events
<1>2. /\ ledger'[o] = [amount |-> n, applied |-> ledger[o].applied]
      /\ \A d \in Docs \ {o} : ledger'[d] = ledger[d]
      /\ ledger' \in [Docs -> LedgerRows]
  <2>1. [ledger[o] EXCEPT !.amount = n] = [amount |-> n, applied |-> ledger[o].applied]
    BY <1>1 DEF LedgerRows
  <2>2. ledger' = [ledger EXCEPT ![o] = [amount |-> n, applied |-> ledger[o].applied]]
    BY <1>1, <2>1 DEF OrderWritten, LedgerTypeOK
  <2>3. [amount |-> n, applied |-> ledger[o].applied] \in LedgerRows
    BY <1>1 DEF LedgerRows
  <2>4. QED
    BY <1>1, <2>2, <2>3 DEF LedgerTypeOK
<1>3. /\ \A d \in Docs : ledger'[d].applied = ledger[d].applied
      /\ \A d \in Docs \ Orders : ledger'[d] = ledger[d]
  BY <1>2
<1>4. LedgerTypeOK'
  BY <1>1, <1>2 DEF LedgerTypeOK
<1>5. AmountsHold'
  BY <1>3 DEF LedgerInv, Fits, AmountsHold
<1>6. AppliedWithinAmount'
  <2>1. AppliedWithinAmount
    BY DEF LedgerInv, Fits
  <2>2. o \notin stale => ledger[o].applied = 0
    <3>1. o \notin stale => ledger[o].applied <= ledger[o].amount
      BY <1>1, <2>1 DEF AppliedWithinAmount
    <3>2. QED
      BY <1>1, <3>1 DEF OrderWritten, LedgerRows
  <2>3. ASSUME NEW d \in Docs, d \notin Orders \cap stale
        PROVE  ledger'[d].applied <= ledger'[d].amount
    <3>1. CASE d = o
      BY <1>2, <2>2, <2>3, <3>1
    <3>2. CASE d # o
      BY <1>2, <2>1, <2>3, <3>2 DEF AppliedWithinAmount
    <3>3. QED
      BY <3>1, <3>2
  <2>4. QED
    BY <1>1, <2>3 DEF AppliedWithinAmount
<1>7. ASSUME NEW c \in Cashiers, desk'[c] # Free  PROVE HeldFits(c)'
  <2>1. HeldFits(c) /\ desk[c].row.invoice \in Docs /\ desk[c].row.payment \in Docs
    BY <1>1, <1>7, RequestType, Kinds DEF LedgerInv, Fits
  <2>2. QED
    BY <1>1, <1>3, <2>1 DEF HeldFits
<1>8. Fits'
  BY <1>5, <1>6, <1>7 DEF Fits
<1>9. CostComesFirst'
  <2>1. \A s \in Shipments : s \in Docs \ Orders
    BY LedgerAssumption, Kinds
  <2>2. QED
    BY <1>1, <1>3, <2>1 DEF LedgerInv, CostComesFirst, CostOf, HandAhead
<1>10. Balanced'
  <2>1. Numbered'
    BY <1>1 DEF LedgerInv, Balanced, Numbered
  <2>2. DraftsHaveNoRow'
    <3>1. \A j \in Journals : j \in Docs \ Orders
      BY Kinds
    <3>2. QED
      BY <1>1, <1>3, <3>1 DEF LedgerInv, Balanced, DraftsHaveNoRow, AtStep
  <2>3. \A d \in Docs \ stale' : Kept(d, settlements)'
    BY <1>1, <1>3 DEF LedgerInv, Balanced, Kept
  <2>4. QED
    BY <2>1, <2>2, <2>3 DEF Balanced
<1>11. QED
  BY <1>4, <1>8, <1>9, <1>10 DEF LedgerInv
=============================================================================
