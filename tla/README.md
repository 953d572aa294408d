# Verification of the abt2 ERP core

abt2 is an ERP for a manufacturer: sales orders become demands, demands become work orders and purchase orders,
those move stock, and money follows. It is a Rust workspace: `abt-core` holds the services and repositories,
`abt-web` (axum, maud, HTMX) the pages, `abt-core/migrations` the PostgreSQL schema.

This directory holds TLA+ models of the parts of `abt-core` where several users, servers, retries or crashes meet on
the same rows, the TLC configurations that check them on small instances, and TLAPS proofs of the properties that hold
for every size. `PROJECT.json` maps every definition to the lines it stands for, lists the runs, and for each property
a plausible bug (an operator marked "Mutant" in the modules) that the property catches.

Contents:
1. the system and its components; 2. how the code executes, and what the models take from that; 3. the modules;
4. what the runs show; 5. what is proved; 6. disagreements between the code and its own words; 7. what is not modelled;
8. the plan.

Run a check with `tlc -config Inventory_stock.cfg MCInventory.tla`, a proof with `tlapm InventoryProofs.tla`.

---------------------------------------------------------------------------------------------------------------------

## 1. The system and its components

Calls go downwards; events go through the table `domain_events` and come back to handlers.

| Component (abt-core/src) | State | Operations | Why it is hard | What makes it correct |
|---|---|---|---|---|
| shared/event_bus, shared/idempotency | `domain_events` (status, retry_count, key), `idempotency_records` | publish, the processor's batches, retry, dead letter, redrive, archive, stale reset | several servers and operators on one table; a crash between any two statements; time-based reset | nothing is lost or acknowledged without its handlers; dead letters are earned; everything settles |
| sales/sales_order: confirm, DemandService, plan lines, event handlers; mes/demand_handler; purchase/demand_handler | `sales_orders`, `sales_order_items.line_status` and version, `fulfillment_plan_lines`, `demands`, the documents that supply them | confirm, create_from_order, pools of production and purchasing, cancel and release, confirm / reject / fulfill / cancel of a demand, reconcile, three handlers | two users confirm; planners and cancellations race; the handlers commit statement by statement and are retried, late or out of order | one plan per line, one open document per demand, the plan line ends where the demand is |
| shared/inventory_reservation | `inventory_reservations` | reserve, fulfill_by_source_line, consume, cancel_by_source | uncommitted reservations are invisible to others; advisory locks in line order | a promise fits the stock; an order line is promised and shipped only what was ordered |
| wms/stock_ledger, wms/inventory_transaction, wms/inventory_lock | `stock_ledger.quantity` and `reserved_qty`, `inventory_locks` | record, upsert, transfer, reserve, release, create / release / cancel of a lock | a check before the update, another after it | stock never negative; locks are given back once |
| wms/picking, wms/backflush | `pickings` and items | validate, direct_ship_rows, issue, return_materials, cancel, receipt | partial issues, returns, retries of the same picking | what left the stock is what the documents say |
| sales order header (sales_order + shared/state_machine) | `sales_orders.status`, `entity_state_logs` | transition, recalc_header_status, record_shipment, cancel_line | status is derived from lines read without a lock | the header agrees with its lines; no illegal transition |
| mes/work_order, production_batch, work_report, production_inspection | work orders, batches, steps, reports | release, unrelease, start, report, receive, scrap, split, cancel | several workers on a batch; quantities in, out and scrapped | no step skipped or paid twice; quantities add up |
| purchase/order and its settlement documents | purchase orders, returns, payments, reconciliations | submit, approve, receive, close, cancel | documents that refer to each other with optimistic versions | not received beyond the order; not paid twice |
| fms/ar_ap, cash_journal, adjustment, cost_entry and the handlers shipment_shipped, sales_return_received, return_settlement | receivables and payables, journal, costs | post, settle, reverse, confirm | read-modify-write of sums; handlers repeated by the bus | nothing applied beyond its amount; no revenue without its cost; sums equal their settlements where nobody overlapped |
| om/outsourcing_order, outsourcing_tracking | outsourcing orders and their pickings | release, issue, receive, cancel | spans picking, stock and purchasing | material sent comes back or is accounted for |
| wms/cycle_count | counts and their items | start, count, complete, adjust | stock moves during the count | the adjustment makes the ledger what was counted |
| workflow (engine, worker) | templates, instances, tasks | start, approve, reject, delegate, timeout scan | no part of the program creates an engine, a worker or a hook | |
| shared/document_sequence, audit_log, document_link, notification, attachment, identity, scheduled_task, excel; master_data; qms; quotations, returns, reconciliations; abt-web, abt-macros | records | create, read, update, delete | little of their own | |

The pages call services; each mutating page handler opens one transaction, calls the service and commits. `state.rs`
starts one `EventProcessor` per server and registers the handlers of DemandConfirmed, DemandRejected, DemandReleased,
PurchaseReturnSettled, SalesReturnReceived and ShipmentShipped. Publishers insert events in their own transaction
(transactional outbox); the processor reads them back and runs the handlers on plain connections.

## 2. How the code executes, and what the models take from that

* Requests run concurrently, each in one READ COMMITTED transaction. A statement sees what others have committed. So
  what a request does after its first row lock on rows it has locked is **one step**, and whatever it read before is
  **a step of its own**, which other requests may separate from the write. Optimistic versions turn a stale write into
  ConcurrentConflict, which rolls the request back.
* The exception are two groups of handlers that never open a transaction: the event handlers (below), and the page of a
  single batch (`mes_batch_detail.rs`), which reports and advances on a pooled connection.
* `next_number` is an upsert of the counter's row and keeps it locked until the transaction ends. So two requests that
  draw a number of the same kind (reports, backflushes, receipts, shipping requests) never overlap from there on: a
  mutex nobody wrote down, on which several properties rest.
* `created_at DEFAULT NOW()` is when a transaction began, not when it committed. The state machine's log is ordered by it.
* `pg_advisory_xact_lock` and row locks block; they are explicit state (`mutex`) or guards where the wait matters.
  PostgreSQL queues waiters and fails one transaction of a circle.
* Event handlers and the processor run on a bare connection: **every statement commits by itself** and is a step.
* A crash loses what a worker holds in memory and nothing that is committed.
* Time matters in one place, the five-minute reset of stale events: `Age` may happen to an event at any moment.

## 3. The modules

| Module | Stands for |
|---|---|
| `EventBus` | outbox table, idempotency records, processors, manual retry, operators |
| `EventDelivery` | abstract: what the bus promises for one event |
| `DemandFulfilment` | order confirmation, plan lines, demands, the two pools, DemandService, the three handlers |
| `DemandPool` | abstract: a pool that documents take from and give back to |
| `SalesOrder` | the header of a sales order beside its lines and pickings, and the state machine's log |
| `Inventory` | stock, manual locks, reservations, shipping, issue and return of material |
| `Production` | batches of a work order: reports, outsourcing, splitting, receipt |
| `Purchasing` (extends `Ledger`) | purchase orders from draft to receipt, with the payable each receipt writes |
| `Ledger` | receivables and payables, settlements, cash journals, the finance handlers of the bus |
| `Sums` | the SUM over rows that Inventory, Purchasing and Ledger use |
| `MC*`, `*_*.cfg` | instances for TLC |
| `EventBusProofs`, `DemandFulfilmentProofs`, `SalesOrderProofs`, `InventoryProofs`, `ProductionProofs`, `PurchasingProofs`, `LedgerProofs` | theorems |
| `SumsProofs` | lemmas about sums over finite sets |

### EventBus

`status`, `retry`, `key` are the columns of `domain_events`; `idem` is the idempotency record of "<id>:EventProcessor";
`aged` the events created over five minutes ago. A worker is a processor task or a caller of `retry_failed`; `pc` says
which statement it is at, `batch` what it has fetched, `cur` the event in hand with the retry_count *as fetched*,
`next` the handler to call. Actions: `Publish`, `Start`, `Connect`/`ListenFails`, `Wake` (with the stale reset),
`FetchRetryable`, `FetchPending`, `FetchFails`, `CheckAndMark`/`CheckFails`, `Skip`, `HandlerSucceeds`,
`HandlerFails`, `AckEvent`, `AckRecord`, `Nack`, `MarkFails`, `Stop`/`Shutdown`, `RetryFailed`, `RetryOne`,
`ArchiveDeadLetters`, `Age`, `Crash`. `delivered`, `repeated`, `failures`, `deadOnce` are history variables.
Payloads, trace ids and the NOTIFY itself are left out: a notification only shortens the 30 s poll.

### DemandFulfilment

A demand is the pair of an order line and a product (the line's own, or a material of its BOM). `line`, `plan`,
`demand`, `doc`, `event` are the tables. `desk` is what a clerk has read and will act on; `job` the event a worker
handles, the next statement of the handler and the plan line version it read. `StartConfirm`/`FinishConfirm` are the
read and the write of `SalesOrderService.confirm`, which may find that somebody else confirmed in between.
`CreateWorkOrdersFromDemands` and `CreateOrderFromDemands` lock with one UPDATE and are single steps, as are the two
cancellations and `Reconcile`. `StartManual`/`FinishManual` are DemandService.confirm, reject, fulfill and cancel, whose
status check is stale when they write. `Take`, `ReadPlan`, `WritePlan`, `WriteSourceDoc`, `WriteLine` are the handler's
statements, `Fail` the processor's bookkeeping, `Crash` a dying server. `LoseStatement` is the failure of any of them, from the
connection that is not to be had to the last update; `lost` of an event counts its attempts that ended so. The bus appears here as what EventBus shows of
it: an event is handled at least once, retried at most `MaxRetries` times, then dead. Its idempotency key is the pair
(kind, demand), because no publisher passes one. Quantities are left out: the reservation decides which lines are
short, and a demand is for the whole shortage.

### SalesOrder

One order. `line` has the shipped and cancelled quantities and the line status (a line is `New` while its version is 1;
Producing and Purchasing count as Pending, which the header does not tell apart). A `request` is a transaction in
stages: *begun* (it has read the header), *counted* (it has changed its lines, which are locked from now on, read all
lines and derived the status), *moved* (the state machine has allowed the transition), then it writes the header and
commits. Others see nothing of it until then. `Count`, `Move`, `WriteHeader` are the three parts of
recalc_header_status; confirm and cancel go from *begun* to *moved*. `log` is the row `get_current_state` finds, `later`
the requests whose transaction began after that row's: only their rows will be found before it. The history variables
`crossed` (a request committed although somebody else had committed since it read the lines) and `disordered` (a row
of the log was inserted behind an older one) say where the weaker promises end. The demands and plan lines of an order
are DemandFulfilment's, its reservations Inventory's.

### Inventory

`stock` and `held` are `stock_ledger.quantity` and `reserved_qty` per product and warehouse; `rows` the committed Active
reservations, `draft` those a running transaction inserted; `mutex` the advisory locks; `stage`, `slip`, `from`, `done`
the order or work order and its picking; `lock` the manual locks. A confirmation or release goes
`StartReserve`, `ReserveLine` per line (lock, ATP, insert), `FinishReserve` (commit, or ConcurrentConflict), or ends as
`DeadlockVictim`. Shipments and issues go `StartTake`, `CheckTake` (availability), `FinishTake` (ledger, picking,
reservation). `StartReturn`/`FinishReturn` are return_materials, `CancelBySource` the end of an order, work order or
last batch, `ScrapBatch` the scrapping of a batch, `Receive` and `Adjust` every other movement, `CreateLock`,
`StartUnlock`/`FinishUnlock` the manual locks. An Active reservation is a record, so an absent row is Fulfilled or
Cancelled. Bins, batches, costs and the alert for low stock are left out.

### Production

One work order: `order` its status, `status`, `current`, `progress`, `reports` those of its batches, `picking` the
receipts asked for. A step's progress has all pieces (`qty`) and the good ones among them (`good`). A request reads in one step (`StartReport`, `StartReceive`, `ReadHeader`, `StartSplit`,
`StartCancel`) and writes in later ones. A report in a transaction counts (`Count`, when it has drawn its number) and
commits (`CommitReport`); on a bare connection it is `Count`, `Add`, `Mark`, `StepOn`, `Finish`, one committed statement
each, and `Abort` may come between any two. `StartOutsourced` is the writeback of a received outsourcing order, which
runs the same statements, but compares only the good pieces with the batch (`StepDone`). `AskReceipt` looks at no status of the
batch; `StartReceive` reads the order's, `Book` follows once the number of the backflush is drawn. `torn` holds the batches that such a request left half written. `alone` of a request says
that nobody wrote its batch since it read. Suspending, resuming, scrapping and advancing write the header
(`WriteHeader`) over whatever it has become.

### Ledger

`ledger` has one row per document with amount and amount applied, `settlements` the matches, `journal` the cash
journals, `event` the events of shipments and returns, `hand` what each server's handler is at, `cost` the cost entries booked. Cashiers' requests read and write sums, so they take
several steps: `StartSettle`/`FinishSettle`; `StartUnsettle`, `ReadPayment`, `UpdatePayment`, `FinishUnsettle`;
`StartConfirm`/`FinishConfirm`, where the journal itself is locked FOR UPDATE. An event is
Queued, Claimed, Processed or DeadLetter; Failed, which is queued again, counts as Queued. `Claim` hands it to a server, whose
handler runs statement by statement: `BookCost` for each line that has a cost (`CostLines`, which may be 0), `HandleEvent` with
`PostEntry`, whose key makes a second posting a no-op, `MarkProcessed`. Between any two, `HandlerFails` ends the
attempt and `Abandon` is a server that died or whose closing update was lost; `ResetStale` hands the event to a second server while the
first may still be at it, and `Redrive` is an operator's. None of them is bounded. `Increases` are the adjustments
that add to what is owed: open invoices, settled as such. `stale` collects the documents that were written from a row somebody had changed since.

### Purchasing

Extends Ledger and composes the two: a receipt writes lines, header and payable. `po`, `quantity`, `received` are the
header and lines, `buyer` the request of a buyer or storekeeper. The header is guarded by `updated_at` (`fresh`); the lines
and the ledger are not. `StartReceive`, `AddReceived` (counter, lines, sums), `PostReceipt` (status, payable) are
receive_purchase, which looks at no status of the order, `StartEdit`/`StartRedraft`/`FinishEdit` the two ways to change quantities, `Submit`, `ConfirmOrder`,
`Reject`, `Cancel` the header alone. `crossed` records that a receipt or an edit wrote an order that another had written
since it read. Every unit costs 1.

### Fairness

* EventBus: a processor keeps executing (`Task`, `ProcessSingleEvent`, `EndBatch`), a server that ended is started
  again, time passes. Handlers return, with either result. Nobody is obliged to publish or operate, and a task whose
  LISTEN failed is *not* restarted, because the code does not restart it.
* DemandFulfilment: a processor takes queued events and finishes handlers. No clerk has to do anything.
* Inventory: strong fairness of `ReserveLine`, because PostgreSQL serves those who wait for a lock in turn; weak
  fairness of committing, and of `DeadlockVictim`, because PostgreSQL detects circles. Nobody has to start a request.
* SalesOrder, Production, Purchasing, Ledger: none. Users owe nothing, so these modules promise safety only.

## 4. What the runs show

| Run | Instance | Shows |
|---|---|---|
| bus_one | 1 server, 2 events, 2 keys, 2 handlers, budget 2, 1 fault, 2 operator calls | `NothingAckedUndelivered`, `DeliveredInOrder`, `DeadLetterEarned`, `RepeatedForCause`, `NoEventStranded`, `ProcessedIsFinal`; EventBus implements EventDelivery |
| bus_two | 2 servers, a caller of retry_failed, 1 event, 1 handler, budget 3, 1 fault | what survives two servers: `ClaimedByOne`; every event settles unless failures were counted past the budget (`EventuallySettled`) |
| demand_pool | 2 lines of one order, a made product and the bought one it is made of, 2 documents, 2 clerks, 2 servers, a single attempt, of which any statement may fail | `OnePlanPerLine`, `OneOpenDocPerDemand`, `PlanDocSuppliesLine`, `AllocatedStaysAllocated`; the demands implement DemandPool |
| demand_manual | one line, all calls of DemandService and reconcile, 2 attempts, of which any statement may fail, 1 crash | `ClaimReachesPlan` in spite of stale manual writes and failures; every event settles (`EventsSettle`) |
| sales_header | 2 lines of 1 piece, 2 pickings, 2 users | `HeaderIsTrue`, `HeaderFollowsLines`, `CancelledIsFinal` |
| inventory_stock | 1 product, 2 warehouses, an order and a work order for 2 each, a manual lock, 2 users, 1 return | `StockNeverNegative`, `SalesWithinOrder`, `PromiseFitsStock` |
| inventory_deadlock | 2 products locked in opposite orders | `ReservingEnds` |
| production_floor | batches of 2 pieces and of 1, 2 steps, the first inspected and the second outsourced, tolerance 1, one defective piece, 2 receipts, 2 workers | `StepsInOrder`, `CompleteWhenDone`, `LastStepWithinTolerance`, `ClosesWithLastReceipt` |
| purchasing_orders | 1 order of 2 lines, no tolerance, 2 buyers, a cashier, two adjustments of which one increases, quantities up to 2 | `PayableMatchesReceipts`, `ReceivedWithinOrder`, `ReceivedIsComplete`, `StatusMovesForward` |
| ledger_books | a shipment worth 2 with 2 cost entries, a return, 2 journals, 2 cashiers, 2 servers, 2 settlements; no bound on failures, resets and redriving | `AppliedWithinAmount`, `BooksBalance`, `RevenueHasCost` |
| inventory_oversold | 2 units, an order and a work order | counterexample, section 6 |
| sales_cancelled | as sales_header | counterexample, section 6 |

Each passing run but four also checks the type invariant of its module; that of SalesOrder is proved instead, and the
other three share the module of a run that checks it.

Why the bounds are enough for what they are used for. Two of everything that competes (servers, clerks, users, documents)
lets any two operations interleave at every statement. Two handlers let one succeed before the other fails; a retry
budget of 2 has a first failure, which is retried, and a last one; the second operator call of bus_one lets an event be
redriven while a batch already holds it. One fault anywhere covers every point a crash or a lost statement can hit;
faults do not add up in any property. A work order for the made product cascades into a demand for the bought one, so that in
demand_pool a line has two demands and two documents. `MaxStock` and needs of 2 make reservations partial and every second
taker come too late. Two order lines of one piece each already separate *some* from *all* shipped, cancelled and
allocated; larger quantities only add ways to be partial. production_floor starts either from nothing, with one batch, or
with two batches that wait for their receipts (`MCSpec`): reports of different batches share nothing but the counter,
whereas receipts meet in the order's status. It is not followed beyond a torn batch (`Untorn`), of which the properties
claim nothing, nor beyond a second batch with steps left (`OneAtWork`) or the receipt of a batch that has them
(`FirstReported`), both by the same argument. There is at most one defective piece, and beside it only reports and
outsourcing receipts (`FewBad`): good and defective pieces differ in nothing but `StepDone`, and one of each fills the batch of two, so
the run has the step that an outsourcing receipt fills up and leaves open. Where a property could depend on size, it is proved (section 5) for every size.

One property depends on the deployment: `NoEventStranded` holds with **one** server, as abt-web is deployed, and there it
is proved for every retry budget. With two servers it holds for a budget of 2 and fails for 3, the max_retries of
state.rs: a server fetches an event as retryable, the other's stale reset makes it Pending, the first fetches it again in
the same batch, and after another reset the other holds it too. Three copies with one retry_count each count a failure;
retry_count jumps past max_retries without anybody seeing the budget spent, fetch_retryable does not look at the row
again, and the event stays Failed, in neither list. That needs no crash, only an event over five minutes old. So
`EventuallySettled`, checked with two servers and a budget of 3, excepts such an event; with one server there is none.

`CHECK_DEADLOCK FALSE` is set where the system may rest: when the bounded rows, documents or operator calls are used
up, nobody has anything to do.

## 5. What is proved

The theorems hold for all values of the constants, under the named assumptions of each module
(`ConstantsAssumption`, `FreeAssumption`, `LedgerAssumption` and so on), which say no more than that the constants are of
their kind, that an order has finitely many lines and a company finitely many warehouses, and that the values for "nobody"
and "nothing" are none of the others. Every module has its type invariant proved (`OrderTypes` in Purchasing). Every
invariant and action property of the passing runs, and both refinements, are theorems.

**EventBusProofs.** `AckedAfterDelivery` and `DeliveryInOrder`: whatever number of servers compete,
crash, lose statements or are operated on, an event is Processed, and its idempotency record closed, only after every
handler succeeded on it, and handlers succeed in registration order. Neither is inductive: a worker between dispatch
and the mark has to *know* that the handlers are through. `DeliveryInv` adds, for each worker, `Progress`: at handler n
all handlers below n have succeeded on its event; past the mark, or when skipping, all have. History only grows, so
no other worker can disturb it. `DeadLettersAreEarned` and `ClaimsAreExclusive` follow in the same way for any number of
servers. With one server the table cannot change behind the back of a batch, except by an operator; from this
`AcknowledgedForGood`, `RepeatsHaveCauses` and the refinement `OneServerDelivers` (EventBus implements EventDelivery).
`NothingStranded` also needs one server. An operator may redrive an event that a batch holds, so that the batch fetches it
a second time; `RoomInv` says that there is at most one copy per fetch (`OneOfEach`) and that each copy which may still be
counted as a failure, and both together, fit into the budget (`Room`).

**DemandFulfilmentProofs.** `PlannedAtMostOnce`: each line gets one plan line however many
clerks confirm at once. `PlanDocBelongs`: the document a plan line names was made for a demand of that line, whatever
is retried, repeated or late. `NoDoubleSupply`: no demand is supplied by two open documents. The invariant is
`RequestsKnown` (a clerk's request is one that was started) with `Recorded`: a line is planned once or not at all and
then has its plan; no demand exists for an unplanned line; an event that names a document, names one that supplies its
demand. `OpenDocsHold` adds that a demand of an open document still points at it, or has left the pool for good.
`NoDoubleSupply` assumes `"confirm" \notin ManualOps`: DemandService.confirm writes a stale decision with a document
of the caller's choice and would break it; no route of abt-web calls it. `PoolIsKept` is the refinement: production,
purchasing and cancellation implement DemandPool when no manual call but reconcile is made.

`AllocatedLinesAreLeft` and `ClaimsReachThePlan` hold while nobody reconciles (section 6 tells what
reconciling can undo). The first needs `AllocInv`: every event is about a line that is short, or about a demand of a cascade.
The second needs `ClaimsInv`: an event's document is the one its demand points at, and what the handler has written
so far is still there. An event may be given up with its plan line untouched only if each of its attempts lost a statement:
an attempt that loses none runs into the order line's version at the earliest, and the plan line is then written with its
document.

**SalesOrderProofs.** `HeaderTells`: the header says nothing the lines deny, for any lines, pickings and users, whoever
overlaps. The invariant: a request that has derived a status derived it from lines of which its own are locked
(`Apart`), others can only add to what it counted (`OthersGrow`), so what it is about to write is true of the lines it
will commit (`DerivesTruth`). `HeaderFollows`: the header also says all the lines tell as long as nobody overlapped. `CancelledStays`:
a cancelled order stays so and ships nothing, from `LogTells` (the log agrees with the header, unless a row is
hidden) and `AllowedFromHere` (what the state machine allowed still starts where the header is).

**InventoryProofs.** `LedgerNeverOverdrawn`: stock stays non-negative, and the proof uses only the test
after the update in StockLedgerService.upsert, none of the checks before. `OrderNeverExceeded`: a sales order line has
at most one Active reservation, and reserved plus shipped stays within what was ordered. `OrderInv`
strengthens it: nothing is reserved or shipped before the confirmation commits; a committed reservation belongs to one
line, is within its need and exists only while nothing has shipped of it; an uncommitted one belongs to the request in
hand and to a line it has gone through. The sums of available_atp play no part in these two.
`PromisesFitTheStock` is about them: a step that promises more within a warehouse filter leaves what is promised there
within the stock there. A request inserts what its own query has left over, so the proof has to show that the query has
seen everything: `PromiseInv` says that uncommitted rows are of products which their request has locked (`DraftsLocked`),
so that whoever gets the lock of a product sees all rows of it. An issue replaces rows by smaller ones, and two rows may
become the same record; that the sum does not grow needs that the rows of a work order are all committed by then
(`RowsOfReleased`, `OneRelease`). `LocksShowAllPromises` is that invariant. The lock per product thus does what
lock_for_reserve says; that a warehouse filter overlooks reservations for any warehouse is section 6.

**ProductionProofs.** `OrderOfSteps`, `Completion`, `Tolerance`, `ReceiptsClose`. The number a report draws is what makes
them true: of the reports in a transaction only one is between counting and committing (`OneNumber`), so it has read all
others (`ReadsHold`), a step is marked Completed only when the pieces processed suffice (`DoneIsEnough`) and is marked when they
do (`EnoughIsDone`), and each is counted once (`CountedOnce`). A report compares all pieces with the batch and an outsourcing receipt
the good ones; since the good are among all (`GoodAmongAll`), enough good ones complete a step for either, enough of all only where
no outsourcing receipt is booked. `ReceiptInv` has the same of backflush numbers: the second of two
receipts reads the batches after the first has committed.

**PurchasingProofs.** `NoOverReceipt`, `Complete`, `StatusForward`. A receipt asks for no status, so a cancelled order may be
received; what `StatusForward` says is that nothing else takes it from there, that a confirmed order is never a draft or cancelled again and that
Received is never left, because every write of the header compares `updated_at`. `OrderInv`: what a request has seen is still so if its
header is fresh (`SeenHolds`) or nobody wrote (`ChecksHold`); a status it computed as complete is complete
(`CompleteHolds`); only one receipt holds the number. `PayableIsReceived`: the payable is the sum of what was received. The
receipt that holds the number has added up the lines as they are (`DueFits`), and `Accounted` carries it to the next:
what is not open, or has no line any more, has received nothing. `LedgerAmongReceipts` proves the invariant of Ledger again
in the composition, where receipts write amounts that settle and unsettle compare with: they do so only where nothing is
applied. So `NeverOverAppliedAmongReceipts` and `BooksBalanceAmongReceipts` hold there as well, and together with the
payable `OnlyReceivedIsPaid`: nobody settles more of an order than its lines have received.

**LedgerProofs.** `NeverOverApplied`: no document is applied beyond its amount. settle checks rows that nobody keeps from
changing, but writes the sum it has checked, so the proof carries the check to the write (`HeldFits`) and needs that amounts
never shrink below what is applied (`AmountsHold`). `CostBeforeRevenue`: a receivable of a shipment implies that every cost entry it should have was
booked, for any number of entries, none included, and of servers: a handler that is at statement n has booked the entries before n itself, in
this attempt, so no other attempt can make that untrue, and entries are never taken back. `BooksAlwaysBalance`: every row says what its settlements add up to, unless a
request wrote it from an older one. `Balanced` adds that settlement ids are new (`Numbered`), and that a document without a
row has no settlements.

**SumsProofs.** Lemmas about `SumOver`: the sum does not depend on the order of adding, grows with set and values, splits
over disjoint sets, changes by what one element changes. The fold it is defined by is an instance of a recursive
function; that such a function exists, and the lemmas, are proved by induction over the finite sets, stated with a smallest
counterexample (`FiniteBySmallest`), since the induction theorems of the library take an operator.

Only model-checked: the liveness properties (`EventuallySettled`, `EventsSettle`, `ReservingEnds`), since they need fairness,
which is beyond the prover. `NeverOversold` and `CancelledShipsNoMore` are violated: they are the two counterexamples of
section 6.

## 6. Where the code disagrees with its own words, and what it is known to do

Two runs end in a counterexample against a statement of the code:

* **inventory_oversold.** available_atp of a warehouse does not see reservations for any warehouse, so a release is
  promised what an order already holds.
* **sales_cancelled.** The state machine's log is ordered by `created_at`, the beginning of a transaction. A cancellation
  that begins before a confirmation and commits after it leaves the header Cancelled and the log Confirmed; a shipment,
  which looks at no header, is then allowed by the state machine and the order goes on.

Known behaviour, met while modelling. It is in the models, the properties are worded so that they say what holds beside it, and
no run is spent on it because it can be read off the code or contradicts no statement of it.

Events:
* a record left in Processing lets the event through again and dispatch runs every handler again: handling is at least
  once, also where a comment says exactly once;
* the stale reset measures from created_at, not from the claim, and takes long-queued events from their workers;
* an event redriven twice may be claimed twice by one batch, and is handled again after it was closed;
* two servers that hold copies of one event compare their own copy with the budget and both raise retry_count, which may pass
  max_retries that way: the row stays Failed, fetch_retryable does not select it and it is in no dead letter list;
* fetch_pending gives no order, so two events of one aggregate may be handled in either.

Demands:
* plan, cancel, plan again: the second DemandConfirmed has the idempotency key of the first and is never announced;
* the handlers expect version 1 of the order line, which confirm has just raised to 2: the plan line is updated, the
  order line never, and the event ends as a dead letter after it has moved the plan line's version with each retry;
* reconcile_fulfillment_status looks up order line ids with plan line ids, and a demand of a cascade carries the line
  of the finished product: it may set an Allocated or a claimed plan line back;
* DemandReleased may overtake DemandConfirmed; release_by_target_doc ignores the status; PurchaseOrderService.cancel does
  not give its demands back; a confirmation whose create_from_order fails is confirmed with a shortage and no demand;
* demands of outsourced and legacy products are created and wait for ever, since both locks take channels 1 and 2 only.

Sales orders:
* two overlapping shipments of different lines each see the other's line open and leave the order PartiallyShipped
  though everything has shipped; nothing recalculates it afterwards;
* when the only picking is cancelled the order stays ShippingRequested. A recalculation would lead to Confirmed, which
  the state machine does not allow from there, so it fails, and cancel_line, which ends in one, with it;
* the same picking shipped twice at once is shipped twice, within what the line has open; cancelling a picking may
  overwrite Done.

Stock:
* issue records the movement, with its availability check, before it consumes the reservation: material that is
  fully reserved for a work order cannot be issued to it;
* scrapping a batch cancels the reservations of the work order whose id is the batch's; two releases of one manual lock give
  its quantity back twice; two returns of one picking both enter the stock; a second partial issue overwrites qty_done of
  the first; consume takes the same quantity from several rows; a return after closing reserves material nobody frees;
* reserve is meant to continue after an error, but PostgreSQL fails every later statement of that transaction.

Production:
* a batch started by hand is no longer Pending at its first report: the order stays Released and no receipt closes it;
* writeback of an outsourcing receipt compares only good pieces with the batch: when it fills up a step that has defects reported,
  the step stays InProgress and the batch does not move on, without any failure or overlap;
* the receipt of a batch may be asked for, and made, whatever its status;
* two bare reports of one step may set a Completed step back to InProgress; the writeback of an outsourcing order
  that failed half-way adds its quantity again when repeated;
* a late suspension or resumption overwrites what the batch has become; two requests may receive the same picking;
  scrapping the last active batch leaves the order InProduction; cancelling the order races with a receipt.

Purchasing:
* confirm checks an approval only through the state machine, and receive_purchase no status at all: drafts, orders that wait for
  approval, cancelled and received ones are received, and a cancelled one becomes PartiallyReceived or Received by it;
* two overlapping partial receipts do not change the status, so neither sees the other's stamp and together they may
  receive too much; lowering a quantity to what was received leaves the order PartiallyReceived for good.

Ledger:
* two settlements of one invoice at once: each writes its own sum, one is lost, and together they may record more than
  the invoice; an undo by two users at once subtracts once and deletes once;
* every attempt at a shipment's event books the cost entries it reaches again: after a failure, a stale reset, a lost closing
  update or a redrive. `cost` is a set, in which a repeated entry does not show;
* a shipment whose order lines have no unit cost has revenue and no cost entry.

`PROJECT.json` lists the hazards behind these with their lines.

## 7. What is not modelled

* Most of the repository's lines are pages (`abt-web`), master data, lists and reports: reads, and edits of single
  records guarded by a version. Nothing there has a behaviour a unit test would not reach, so the map covers a small
  share of all lines and a large one of those that decide something together.
* shared/document_sequence beyond its lock; idempotency keys of HTTP requests.
* The workflow engine: nothing in the program starts it.
* wms/cycle_count (the variance is taken against the quantity when the count began), transfers, form conversion; the life of
  an outsourcing order beyond what its receipt does to a step; settlement documents (purchase reconciliation, payments,
  quotations, returns) with a status and a version of their own; quality documents.
* Quantities and prices in DemandFulfilment, bins, batches and costs in Inventory, unit prices in Purchasing, wages,
  scrapped pieces and costs in Production: no property stated here depends on them. `Decimal` arithmetic is exact in the
  code, so units stand for it.
* Steps that are one in a model and several statements in the code, where nothing stated here can tell them apart: the three
  statements of the idempotency record in `EventBus.CheckAndMark`; the reads of `Ledger.StartSettle`; the reads
  and counts of `SalesOrder.CountCancelLines`. A handler of Ledger takes its list of cost lines as given, the same at every
  attempt; a price edited after a receipt is not modelled.
* Cases left out: a failure of the stale reset at the start of a processor (`EventBus.Start`); a shipment of an order
  that is not open (`Inventory.ShipmentAllowed`), which SalesOrder has; a second release of a work order after an unrelease
  (`Inventory.StartReserve`). In DemandFulfilment an event comes back from a server only when that server died (`Crash`):
  the stale reset of an event whose handler is still running, so that two servers handle one event, is in EventBus and in
  Ledger, and its effect on a claim is neither checked nor proved here.
* Left out of modelled components: merge_orders of purchase orders; record_scrap, the checks of scrap and cancel for open outsourcing
  orders and the gate of the final inspection in Production; drafts, returned quantities and batch_ship in SalesOrder.
  Where a check is left out, the model can do more than the code, and what holds of it holds of the code.
* The DemandService calls and cancel_line are modelled although no route reaches them.

## 8. Plan

Done: the bus, demands and plan, sales order header, inventory, production, purchasing and ledger, with two abstract
specifications and the proofs that they are implemented. In the order of what they would add:

1. conservation of material: issues, returns and receipts of one work order in Inventory against the documents, which fails
   today for the reasons of section 6 and should become a property once they are mended;
2. `CycleCount` on top of Inventory: the adjustment makes the ledger what was counted, if nothing moved;
3. `Outsourcing`: an order with its pickings, its receipt composed with Production's writeback;
4. purchase settlement documents on top of Ledger: an invoice is reconciled and paid once;
5. two handlers of one claim in DemandFulfilment, each with its own copy of retry_count, as EventBus has them;
6. proofs of what these add; the properties of the present modules are proved, as far as they are not liveness.
