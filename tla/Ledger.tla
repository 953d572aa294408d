------------------------------- MODULE Ledger -------------------------------
(***************************************************************************)
(* The receivables and payables ledger of abt-core/src/fms: documents post *)
(* one row each, cashiers match payments with invoices (settle, unsettle)  *)
(* and confirm cash journals, and the event handlers of the sales and      *)
(* purchase modules post shipments and returns.                            *)
(*                                                                         *)
(* A web request is one READ COMMITTED transaction.  No statement of       *)
(* settle or unsettle locks what it reads and every one of them writes the *)
(* SUM it has computed, so a request that reads and writes takes several   *)
(* steps here; what it has written is seen by others when it commits.  An  *)
(* event handler runs on a bare connection: each statement commits.        *)
(***************************************************************************)
EXTENDS Integers, FiniteSets, Sums

CONSTANTS
  Shipments,       \* shipping requests: ShipmentShipped posts cost and revenue
  Returns,         \* sales and purchase returns: their events post a row
  Orders,          \* purchase orders: receipts post and rewrite a row
  Adjustments,     \* manual corrections
  Increases,       \* those that add to what is owed: open invoices
  Journals,        \* cash journals
  Amount,          \* what a document is worth (an order: what was received)
  CostLines,       \* lines of a shipment that have a cost: entries to book
  SourceOf,        \* the shipment a journal settles when it is confirmed
  NoDoc,
  Cashiers, Free,
  Handlers,        \* event processors, one per server
  MaxSettlements   \* bound: settlements ever made

Invoices == Shipments \cup Orders \cup Increases
Payments == Journals \cup Returns \cup (Adjustments \ Increases)
Docs == Invoices \cup Payments
Announced == Shipments \cup Returns

ASSUME LedgerAssumption ==
  /\ Invoices \cap Payments = {} /\ NoDoc \notin Docs
  /\ Shipments \cap Orders = {} /\ Journals \cap Returns = {}
  /\ Increases \subseteq Adjustments
  /\ Adjustments \cap (Journals \cup Returns \cup Shipments \cup Orders) = {}
  /\ Amount \in [Docs \ Orders -> Nat]
  /\ \A d \in Journals \cup Adjustments : Amount[d] > 0
  /\ CostLines \in [Shipments -> Nat]
  /\ SourceOf \in [Journals -> Shipments \cup {NoDoc}]
  /\ MaxSettlements \in Nat

VARIABLES
  ledger,       \* ar_ap_ledger: amount and amount_applied; amount 0: no row
  settlements,  \* ar_ap_settlements
  issued,       \* settlement ids given out
  journal,      \* cash_journals.status
  event,        \* the event of a shipment or return
  hand,         \* the event a handler works on and its next statement
  cost,         \* cost_entries: the entries of a shipment that were booked
  desk,         \* what a cashier's request is doing
  stale         \* history: documents a request wrote after reading an older row

books == <<ledger, settlements, issued, journal, desk, stale>>
events == <<event, hand, cost>>
ledgerVars == <<books, events>>

LedgerRows == [amount : Nat, applied : Nat]
Settlements == [no : Nat, invoice : Invoices, payment : Payments, amount : Nat \ {0}]

(* A request works for a settlement, to be made or undone, with the rows it *)
(* has read.                                                                *)
Requests == [op : {"settle", "confirm", "unsettle"},
             step : {"found", "read", "locked"},
             row : Settlements, inv : LedgerRows, pay : LedgerRows]

NoRow == [amount |-> 0, applied |-> 0]

Outstanding(r) == r.amount - r.applied

AtStep(c, op, step) == desk[c] # Free /\ desk[c].op = op /\ desk[c].step = step

(* The row of a document is locked by a request that has updated it         *)
LockedByOther(c, d) ==
  \E o \in Cashiers \ {c} : AtStep(o, "unsettle", "locked") /\ desk[o].row.payment = d

Request(op, step, row, inv, pay) ==
  [op |-> op, step |-> step, row |-> row, inv |-> inv, pay |-> pay]

(* Documents among D whose row is no longer the one that was read           *)
Overtaken(D, held) == {d \in D : ledger[d] # held[d]}

HeldRows(c) == [d \in {desk[c].row.invoice, desk[c].row.payment} |->
                 IF d = desk[c].row.invoice THEN desk[c].inv ELSE desk[c].pay]

(***************************************************************************)
(* settle                                                                  *)
(***************************************************************************)

(* Mutant: the amount is compared with the amount of the documents. *)
AnyOpenAmount(i, p) == 1..(IF ledger[i].amount < ledger[p].amount
                           THEN ledger[i].amount ELSE ledger[p].amount)

Settleable(i, p) ==
  {a \in 1..Outstanding(ledger[i]) : a <= Outstanding(ledger[p])}

(* Reads both rows and checks the amount against what is open on them ...   *)
StartSettle(c, i, p) ==
  /\ desk[c] = Free
  /\ issued < MaxSettlements
  /\ \E a \in Settleable(i, p) :
       desk' = [desk EXCEPT ![c] = Request("settle", "read",
         [no |-> 0, invoice |-> i, payment |-> p, amount |-> a], ledger[i], ledger[p])]
  /\ UNCHANGED <<ledger, settlements, issued, journal, stale, events>>

(* Mutant: only the invoice is updated. *)
AppliedToInvoice(held, row) ==
  [ledger EXCEPT ![row.invoice].applied = held[row.invoice].applied + row.amount]

AppliedTo(held, row) ==
  [ledger EXCEPT ![row.invoice].applied = held[row.invoice].applied + row.amount,
                 ![row.payment].applied = held[row.payment].applied + row.amount]

(* uk_aas: one settlement for a pair                                        *)
NotMatchedYet(row) ==
  \A s \in settlements : ~(s.invoice = row.invoice /\ s.payment = row.payment)

Insert(row) ==
  /\ settlements' = settlements \cup {[row EXCEPT !.no = issued + 1]}
  /\ issued' = issued + 1

(* ... writes the sums and inserts the settlement                           *)
FinishSettle(c) ==
  LET row == desk[c].row
  IN /\ AtStep(c, "settle", "read")
     /\ issued < MaxSettlements
     /\ ~LockedByOther(c, row.payment)
     /\ NotMatchedYet(row)
     /\ ledger' = AppliedTo(HeldRows(c), row)
     /\ Insert(row)
     /\ stale' = stale \cup Overtaken({row.invoice, row.payment}, HeldRows(c))
     /\ desk' = [desk EXCEPT ![c] = Free]
     /\ UNCHANGED <<journal, events>>

(***************************************************************************)
(* unsettle                                                                *)
(***************************************************************************)

StartUnsettle(c, s) ==
  /\ desk[c] = Free
  /\ desk' = [desk EXCEPT ![c] = Request("unsettle", "found", s, NoRow, NoRow)]
  /\ UNCHANGED <<ledger, settlements, issued, journal, stale, events>>

ReadPayment(c) ==
  /\ AtStep(c, "unsettle", "found")
  /\ desk' = [desk EXCEPT ![c].step = "read", ![c].pay = ledger[desk[c].row.payment]]
  /\ UNCHANGED <<ledger, settlements, issued, journal, stale, events>>

(* The payment is updated, and stays locked; then the invoice is read       *)
UpdatePayment(c) ==
  /\ AtStep(c, "unsettle", "read")
  /\ ~LockedByOther(c, desk[c].row.payment)
  /\ desk' = [desk EXCEPT ![c].step = "locked", ![c].inv = ledger[desk[c].row.invoice]]
  /\ UNCHANGED <<ledger, settlements, issued, journal, stale, events>>

(* Mutant: max(0) is forgotten. *)
ReducedBelowZero(applied, a) == applied - a

Reduced(applied, a) == IF applied >= a THEN applied - a ELSE 0

Delete(s) == settlements \ {s}

(* Delete is by id and does not ask whether there was a row                 *)
FinishUnsettle(c) ==
  LET row == desk[c].row
      D == {row.invoice, row.payment}
  IN /\ AtStep(c, "unsettle", "locked")
     /\ ledger' = [ledger EXCEPT
          ![row.invoice].applied = Reduced(desk[c].inv.applied, row.amount),
          ![row.payment].applied = Reduced(desk[c].pay.applied, row.amount)]
     /\ settlements' = Delete(row)
     /\ stale' = stale \cup (IF row \in settlements THEN Overtaken(D, HeldRows(c)) ELSE D)
     /\ desk' = [desk EXCEPT ![c] = Free]
     /\ UNCHANGED <<issued, journal, events>>

(* A request fails: a deadlock, a unique index, a lost connection           *)
RollBack(c) ==
  /\ desk[c] # Free
  /\ desk' = [desk EXCEPT ![c] = Free]
  /\ UNCHANGED <<ledger, settlements, issued, journal, stale, events>>

(***************************************************************************)
(* Cash journals and adjustments                                           *)
(***************************************************************************)

NewRow(d) == [amount |-> Amount[d], applied |-> 0]

(* get_for_update: whoever else confirms this journal waits, and then finds *)
(* it Confirmed                                                             *)
Confirmable(j) ==
  /\ journal[j] = "Draft"
  /\ \A c \in Cashiers : AtStep(c, "confirm", "read") => desk[c].row.payment # j

(* A journal that has no shipment to settle                                 *)
Confirm(j) ==
  /\ Confirmable(j) /\ SourceOf[j] = NoDoc
  /\ journal' = [journal EXCEPT ![j] = "Confirmed"]
  /\ ledger' = [ledger EXCEPT ![j] = NewRow(j)]
  /\ UNCHANGED <<settlements, issued, desk, stale, events>>

(* One that has settles it in the same transaction, which reads the row of  *)
(* the shipment ...                                                         *)
StartConfirm(c, j) ==
  /\ desk[c] = Free
  /\ issued < MaxSettlements
  /\ Confirmable(j) /\ SourceOf[j] # NoDoc
  /\ Amount[j] <= Outstanding(ledger[SourceOf[j]])
  /\ desk' = [desk EXCEPT ![c] = Request("confirm", "read",
       [no |-> 0, invoice |-> SourceOf[j], payment |-> j, amount |-> Amount[j]],
       ledger[SourceOf[j]], NewRow(j))]
  /\ UNCHANGED <<ledger, settlements, issued, journal, stale, events>>

(* ... and writes                                                           *)
FinishConfirm(c) ==
  LET row == desk[c].row
  IN /\ AtStep(c, "confirm", "read")
     /\ issued < MaxSettlements
     /\ journal' = [journal EXCEPT ![row.payment] = "Confirmed"]
     /\ ledger' = [ledger EXCEPT
          ![row.payment] = [amount |-> row.amount, applied |-> row.amount],
          ![row.invoice].applied = desk[c].inv.applied + row.amount]
     /\ Insert(row)
     /\ stale' = stale \cup Overtaken({row.invoice}, HeldRows(c))
     /\ desk' = [desk EXCEPT ![c] = Free]
     /\ UNCHANGED events

CreateAdjustment(d) ==
  /\ ledger[d].amount = 0
  /\ ledger' = [ledger EXCEPT ![d] = NewRow(d)]
  /\ UNCHANGED <<settlements, issued, journal, desk, stale, events>>

(***************************************************************************)
(* Events                                                                  *)
(***************************************************************************)

EventStates == {"None", "Queued", "Claimed", "Processed", "DeadLetter"}

SetEvent(d, state) == event' = [event EXCEPT ![d] = state]
Release(h) == hand' = [hand EXCEPT ![h] = Free]

(* A handler's statements that write: one insert per cost entry of a        *)
(* shipment, then the one into ar_ap_ledger; a return has only the latter   *)
PostingStep(d) == IF d \in Shipments THEN CostLines[d] + 1 ELSE 1

(* A shipment leaves, a return arrives: the event is published              *)
Announce(d) ==
  /\ event[d] = "None"
  /\ SetEvent(d, "Queued")
  /\ UNCHANGED <<books, hand, cost>>

(* Handed out once more, an event is handled once more; where its record    *)
(* of idempotency stops that, nothing would be written that is not there    *)
Claim(h, d) ==
  /\ hand[h] = Free /\ event[d] = "Queued"
  /\ SetEvent(d, "Claimed")
  /\ hand' = [hand EXCEPT ![h] = [doc |-> d, step |-> 1]]
  /\ UNCHANGED <<books, cost>>

(* create_entries, outside a transaction: every entry commits on its own.   *)
(* A line without a cost has no entry, and there may be none at all         *)
BookCost(h) ==
  /\ hand[h] # Free
  /\ hand[h].step < PostingStep(hand[h].doc)
  /\ cost' = [cost EXCEPT ![hand[h].doc] = @ \cup {hand[h].step}]
  /\ hand' = [hand EXCEPT ![h].step = @ + 1]
  /\ UNCHANGED <<books, event>>

(* Mutant: the revenue of a shipment is posted first. *)
ReadyAtOnce(h) == hand[h].step <= PostingStep(hand[h].doc)

ReadyToPost(h) == hand[h].step = PostingStep(hand[h].doc)

(* ON CONFLICT DO NOTHING; a document worth nothing has no row              *)
PostEntry(d) == [ledger EXCEPT ![d] = IF @.amount = 0 THEN NewRow(d) ELSE @]

HandleEvent(h) ==
  /\ hand[h] # Free
  /\ ReadyToPost(h)
  /\ ledger' = PostEntry(hand[h].doc)
  /\ hand' = [hand EXCEPT ![h].step = PostingStep(hand[h].doc) + 1]
  /\ UNCHANGED <<settlements, issued, journal, desk, stale, event, cost>>

(* The update is by id, whatever has become of the event in the meantime    *)
MarkProcessed(h) ==
  /\ hand[h] # Free
  /\ hand[h].step > PostingStep(hand[h].doc)
  /\ SetEvent(hand[h].doc, "Processed")
  /\ Release(h)
  /\ UNCHANGED <<books, cost>>

(* A statement of this handler fails, or of a later one of the same event:  *)
(* the event is tried again, or given up when its budget is spent, which    *)
(* EventBus counts                                                          *)
HandlerFails(h) ==
  /\ hand[h] # Free
  /\ \E outcome \in {"Queued", "DeadLetter"} : SetEvent(hand[h].doc, outcome)
  /\ Release(h)
  /\ UNCHANGED <<books, cost>>

(* The server dies, or the update of the event is lost: nothing is counted  *)
Abandon(h) ==
  /\ hand[h] # Free
  /\ Release(h)
  /\ UNCHANGED <<books, event, cost>>

(* Five minutes after it was published a claimed event is handed out again, *)
(* though its handler may be alive                                          *)
ResetStale(d) ==
  /\ event[d] = "Claimed"
  /\ SetEvent(d, "Queued")
  /\ UNCHANGED <<books, hand, cost>>

(* retry_one, with an id from a list that may be old                        *)
Redrive(d) ==
  /\ event[d] \in {"DeadLetter", "Processed"}
  /\ SetEvent(d, "Queued")
  /\ UNCHANGED <<books, hand, cost>>

(***************************************************************************)
(* Specification                                                           *)
(***************************************************************************)

LedgerInit ==
  /\ ledger = [d \in Docs |-> NoRow]
  /\ settlements = {} /\ issued = 0
  /\ journal = [j \in Journals |-> "Draft"]
  /\ event = [d \in Announced |-> "None"]
  /\ hand = [h \in Handlers |-> Free]
  /\ cost = [s \in Shipments |-> {}]
  /\ desk = [c \in Cashiers |-> Free]
  /\ stale = {}

CashierSteps(c) ==
  \/ \E i \in Invoices, p \in Payments : StartSettle(c, i, p)
  \/ FinishSettle(c)
  \/ \E s \in settlements : StartUnsettle(c, s)
  \/ ReadPayment(c)
  \/ UpdatePayment(c)
  \/ FinishUnsettle(c)
  \/ RollBack(c)
  \/ \E j \in Journals : StartConfirm(c, j)
  \/ FinishConfirm(c)

EventSteps ==
  \/ \E d \in Announced : Announce(d) \/ ResetStale(d) \/ Redrive(d)
  \/ \E h \in Handlers, d \in Announced : Claim(h, d)
  \/ \E h \in Handlers : \/ BookCost(h)
                         \/ HandleEvent(h)
                         \/ MarkProcessed(h)
                         \/ HandlerFails(h)
                         \/ Abandon(h)

LedgerNext ==
  \/ \E c \in Cashiers : CashierSteps(c)
  \/ \E j \in Journals : Confirm(j)
  \/ \E d \in Adjustments : CreateAdjustment(d)
  \/ EventSteps

LedgerSpec == LedgerInit /\ [][LedgerNext]_ledgerVars

(***************************************************************************)
(* Properties                                                              *)
(***************************************************************************)

LedgerTypeOK ==
  /\ ledger \in [Docs -> LedgerRows]
  /\ settlements \in SUBSET Settlements /\ issued \in Nat
  /\ journal \in [Journals -> {"Draft", "Confirmed"}]
  /\ event \in [Announced -> EventStates]
  /\ hand \in [Handlers -> {Free} \cup [doc : Announced, step : Nat \ {0}]]
  /\ cost \in [Shipments -> SUBSET Nat]
  /\ desk \in [Cashiers -> {Free} \cup Requests]
  /\ stale \in SUBSET Docs

(* However the requests of cashiers and the retries of handlers interleave, *)
(* no document is applied beyond its amount: the checks of settle are made  *)
(* on rows that may be old, but the sums it writes fit the amounts.  An     *)
(* order is exempt once a request wrote it from an older row, because its   *)
(* amount moves with the receipts.                                          *)
AppliedWithinAmount ==
  \A d \in Docs \ (Orders \cap stale) : ledger[d].applied <= ledger[d].amount

SettledOf(d) ==
  SumOver([s \in settlements |-> s.amount],
          {s \in settlements : s.invoice = d \/ s.payment = d})

(* The ledger row of a document says what its settlements add up to, unless *)
(* a request wrote the row from an older one: nothing else, no failure, no  *)
(* repeated event and no rolled back request, puts them apart.              *)
BooksBalance == \A d \in Docs \ stale : ledger[d].applied = SettledOf(d)

(* A shipment has revenue only when every cost entry it should have was     *)
(* booked, and its event is processed only when it has both: through every  *)
(* failure between two statements, lost update, stale reset, second server  *)
(* and redrive.  That an entry is booked again by each attempt is known.    *)
RevenueHasCost ==
  \A s \in Shipments :
    /\ ledger[s].amount > 0 => cost[s] = 1..CostLines[s]
    /\ event[s] = "Processed" =>
         ledger[s].amount = Amount[s] /\ cost[s] = 1..CostLines[s]
=============================================================================
