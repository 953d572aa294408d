-------------------------- MODULE DemandFulfilment --------------------------
(***************************************************************************)
(* From a confirmed sales order to the documents that supply it.           *)
(*                                                                         *)
(* Confirming an order writes one fulfillment_plan_line per order line and *)
(* one demand per shortage (plus the BOM cascade).  Planners and buyers    *)
(* lock demands into work orders and purchase orders; DemandConfirmed,     *)
(* DemandRejected and DemandReleased events carry the outcome back to the  *)
(* plan line and the order line.  The handlers of those events run on a    *)
(* bare connection, so each of their statements commits on its own and is  *)
(* a step here.  Everything a web request does inside pool.begin() ..      *)
(* commit() on rows it has locked is one step; what it read before the     *)
(* first lock may be stale, so a clerk's read and write are two steps.     *)
(***************************************************************************)
EXTENDS Naturals, FiniteSets

CONSTANTS
  Orders, Lines, Products,
  OrderOf,        \* sales_order_items.order_id
  ProductOf,      \* sales_order_items.product_id
  ChannelOf,      \* products.acquire_channel
  Bom,            \* explode_for_procurement: the materials of a product
  Docs,           \* ids work orders and purchase orders can get
  NoDoc,
  Workers,        \* event processors, one per server
  Clerks,         \* users with a request in flight
  Free,           \* a worker or clerk with nothing in hand
  ManualOps,      \* DemandService and reconcile calls clerks make
  LineWithFpId,   \* the order line whose id equals the line's plan line id
  NoLine,
  MaxRetries,     \* EventProcessor.max_retries (3 in state.rs)
  MaxCrashes      \* bound: servers that die inside a handler

Channels == {"SelfProduced", "Purchased", "Outsourced", "NonInventory",
             "Legacy"}
Operations == {"confirm", "reject", "fulfill", "cancel"}

ASSUME ConstantsAssumption ==
  /\ OrderOf \in [Lines -> Orders]
  /\ ProductOf \in [Lines -> Products]
  /\ ChannelOf \in [Products -> Channels]
  /\ Bom \in [Products -> SUBSET Products]
  /\ \A p \in Products : p \notin Bom[p]
  /\ NoDoc \notin Docs
  /\ Free \notin Operations \X (Lines \X Products)
  /\ ManualOps \subseteq Operations \cup {"reconcile"}
  /\ LineWithFpId \in [Lines -> Lines \cup {NoLine}]
  /\ MaxRetries \in Nat \ {0}
  /\ MaxCrashes \in Nat

(* A demand is known by the order line it comes from and the product it    *)
(* asks for: the line's own product, or a material of its BOM.             *)
Demands == {d \in Lines \X Products :
              \/ d[2] = ProductOf[d[1]]
              \/ d[2] \in Bom[ProductOf[d[1]]]}
Own(l) == <<l, ProductOf[l]>>
LinesOf(o) == {l \in Lines : OrderOf[l] = o}
Channel(d) == ChannelOf[d[2]]

Kinds == {"Confirmed", "Rejected", "Released"}
Events == Kinds \X Demands

VARIABLES
  order,     \* sales_orders.status: Draft or past it
  line,      \* sales_order_items.line_status and version
  plan,      \* fulfillment_plan_lines.status, version and source_doc
  planned,   \* history: plan lines ever inserted for an order line
  demand,    \* demands.status, target_doc and deleted_at
  doc,       \* work orders and purchase orders: state and what they supply
  event,     \* domain_events, one per default idempotency key; lost
             \* (history): attempts that ended because a statement failed
  desk,      \* what a clerk has read and is about to act on
  job,       \* the event a worker handles, the next statement of the handler
             \* and the plan line version it has read
  crashes    \* bound counter

sales == <<order, line, plan, planned>>
supply == <<demand, doc>>
staff == <<desk, job, crashes>>
vars == <<sales, supply, event, staff>>

LineStatus == {"Pending", "Allocated", "Producing", "Purchasing"}
PlanStatus == LineStatus \cup {"None"}
DemandStatus == {"None", "Pending", "Confirmed", "Rejected", "Fulfilled"}
Steps == {"read", "plan", "doc", "line"}

(* An idle worker can be told from one with a job *)
ASSUME FreeAssumption ==
  Free \notin [event : Events, step : Steps, version : Nat]

(* Rows keep their types; versions only grow *)
TypeOK ==
  /\ order \in [Orders -> {"Draft", "Confirmed"}]
  /\ line \in [Lines -> [status : LineStatus, version : Nat]]
  /\ plan \in [Lines -> [status : PlanStatus, version : Nat,
                         doc : Docs \cup {NoDoc}]]
  /\ planned \in [Lines -> Nat]
  /\ demand \in [Demands -> [status : DemandStatus, target : Docs \cup {NoDoc},
                             deleted : BOOLEAN]]
  /\ doc \in [Docs -> [state : {"Unused", "Open", "Cancelled"},
                       kind : {"WorkOrder", "PurchaseOrder"},
                       supplies : SUBSET Demands]]
  /\ event \in [Events -> [state : {"None", "Queued", "Running", "Done", "Dead"},
                           retries : Nat, lost : Nat, doc : Docs \cup {NoDoc}]]
  /\ desk \in [Clerks -> {Free} \cup (Operations \X Demands)
                                \cup ({"order"} \X Orders)]
  /\ job \in [Workers -> {Free} \cup [event : Events, step : Steps,
                                      version : Nat]]
  /\ crashes \in Nat

Init ==
  /\ order = [o \in Orders |-> "Draft"]
  /\ line = [l \in Lines |-> [status |-> "Pending", version |-> 1]]
  /\ plan = [l \in Lines |-> [status |-> "None", version |-> 0, doc |-> NoDoc]]
  /\ planned = [l \in Lines |-> 0]
  /\ demand = [d \in Demands |->
                 [status |-> "None", target |-> NoDoc, deleted |-> FALSE]]
  /\ doc = [x \in Docs |-> [state |-> "Unused", kind |-> "WorkOrder",
                            supplies |-> {}]]
  /\ event = [e \in Events |-> [state |-> "None", retries |-> 0, lost |-> 0, doc |-> NoDoc]]
  /\ desk = [c \in Clerks |-> Free]
  /\ job = [w \in Workers |-> Free]
  /\ crashes = 0

-----------------------------------------------------------------------------
(* domain_events: ON CONFLICT (idempotency_key) DO NOTHING.  No publisher   *)
(* here gives a key, so the default one, "Demand:<id>:<type>", decides:     *)
(* the second event of a kind for the same demand is silently dropped.      *)
Publish(kind, ds, docOf) ==
  event' = [e \in Events |->
              IF e[1] = kind /\ e[2] \in ds /\ event[e].state = "None"
              THEN [state |-> "Queued", retries |-> 0, lost |-> 0, doc |-> docOf[e[2]]]
              ELSE event[e]]

-----------------------------------------------------------------------------
(* SalesOrderService.confirm                                                *)

StartConfirm(c, o) ==
  /\ desk[c] = Free
  /\ order[o] = "Draft"
  /\ desk' = [desk EXCEPT ![c] = <<"order", o>>]
  /\ UNCHANGED <<sales, supply, event, job, crashes>>

(* Mutant: neither the line version nor the unique index stops a second confirm. *)
UncheckedPlan(o) == order[o] \in {"Draft", "Confirmed"}

(* Both batch_update_line_status(.., 1) and idx_fpl_order_line_unique fail  *)
(* when the order has been confirmed since it was read.                     *)
FreshPlan(o) == \A l \in LinesOf(o) : line[l].version = 1 /\ plan[l].status = "None"

(* Mutant: every line of the order gets a demand, short or not. *)
CreateFromAllLines(ls, short, covered) ==
  [d \in Demands |->
     IF d[1] \in ls /\ d \notin covered
     THEN [status |-> "Pending", target |-> NoDoc, deleted |-> FALSE]
     ELSE demand[d]]

(* create_from_order: the demands of the short lines, and the BOM cascade   *)
(* of those that are made in house, as far as stock does not cover it.      *)
CreateFromOrder(ls, short, covered) ==
  [d \in Demands |->
     IF /\ d[1] \in short
        /\ \/ d = Own(d[1])
           \/ /\ Channel(Own(d[1])) \in {"SelfProduced", "Legacy"}
              /\ d \notin covered
     THEN [status |-> "Pending", target |-> NoDoc, deleted |-> FALSE]
     ELSE demand[d]]

(* The reservation decides which lines are short, projected stock which     *)
(* materials are; a failing create_from_order only rolls back its savepoint *)
Confirm(c, o) ==
  \E short \in SUBSET {l \in LinesOf(o) : Channel(Own(l)) # "NonInventory"},
     covered \in SUBSET {d \in Demands : d[2] \in Bom[ProductOf[d[1]]]},
     created \in BOOLEAN :
       LET allocation == [l \in Lines |-> IF l \in short THEN "Pending"
                                                        ELSE "Allocated"]
       IN /\ order' = [order EXCEPT ![o] = "Confirmed"]
          /\ line' = [l \in Lines |->
               IF OrderOf[l] = o
               THEN [status |-> allocation[l], version |-> line[l].version + 1]
               ELSE line[l]]
          /\ plan' = [l \in Lines |->
               IF OrderOf[l] = o
               THEN [status |-> allocation[l], version |-> 1, doc |-> NoDoc]
               ELSE plan[l]]
          /\ planned' = [l \in Lines |->
               IF OrderOf[l] = o THEN planned[l] + 1 ELSE planned[l]]
          /\ demand' = IF created
                       THEN CreateFromOrder(LinesOf(o), short, covered)
                       ELSE demand
          /\ desk' = [desk EXCEPT ![c] = Free]
          /\ UNCHANGED <<doc, event, job, crashes>>

FinishConfirm(c) ==
  \E o \in Orders :
    /\ desk[c] = <<"order", o>>
    /\ \/ FreshPlan(o) /\ Confirm(c, o)
       \/ /\ ~FreshPlan(o)                   \* ConcurrentConflict: rolled back
          /\ desk' = [desk EXCEPT ![c] = Free]
          /\ UNCHANGED <<sales, supply, event, job, crashes>>

-----------------------------------------------------------------------------
(* The demand pools of production and purchasing                            *)

(* Mutant: the lock does not look at the status. *)
LockedStale(ds, ch) ==
  {d \in ds : demand[d].status # "None" /\ Channel(d) = ch /\ ~demand[d].deleted}

(* UPDATE demands SET status = 2 WHERE status = 1 .. RETURNING              *)
Locked(ds, ch) ==
  {d \in ds : /\ demand[d].status = "Pending"
              /\ Channel(d) = ch
              /\ ~demand[d].deleted}

(* The documents for the locked demands, update_target_doc, DemandConfirmed *)
Supply(ds, kind, docOf) ==
  /\ \A d \in ds : doc[docOf[d]].state = "Unused"
  /\ demand' = [d \in Demands |->
       IF d \in ds THEN [demand[d] EXCEPT !.status = "Confirmed",
                                          !.target = docOf[d]]
       ELSE demand[d]]
  /\ doc' = [x \in Docs |->
       LET mine == {d \in ds : docOf[d] = x}
       IN IF mine = {} THEN doc[x]
          ELSE [state |-> "Open", kind |-> kind, supplies |-> mine]]
  /\ Publish("Confirmed", ds, docOf)
  /\ UNCHANGED <<sales, staff>>

CreateWorkOrdersFromDemands ==
  \E picked \in SUBSET Demands :
    LET ds == Locked(picked, "SelfProduced")
        ps == {d[2] : d \in ds}
    IN /\ ds # {}
       /\ \E wo \in [ps -> Docs] :              \* one work order per product
            /\ \A p, q \in ps : wo[p] = wo[q] => p = q
            /\ Supply(ds, "WorkOrder", [d \in ds |-> wo[d[2]]])

CreateOrderFromDemands ==
  \E picked \in SUBSET Demands, po \in Docs :
    LET ds == Locked(picked, "Purchased")
    IN /\ ds # {}
       /\ Supply(ds, "PurchaseOrder", [d \in ds |-> po])

(* Mutant: the work order is cancelled and the demands are forgotten. *)
ReleaseNothing(x) == UNCHANGED <<demand, event>>

(* release_back_to_pool: whatever the status of the demands has become      *)
ReleaseBackToPool(x) ==
  LET ds == {d \in Demands : demand[d].target = x /\ ~demand[d].deleted}
  IN /\ demand' = [d \in Demands |->
          IF d \in ds THEN [demand[d] EXCEPT !.status = "Pending",
                                             !.target = NoDoc]
          ELSE demand[d]]
     /\ Publish("Released", ds, [d \in ds |-> x])

CancelWorkOrder(x) ==
  /\ doc[x].state = "Open" /\ doc[x].kind = "WorkOrder"
  /\ doc' = [doc EXCEPT ![x].state = "Cancelled"]
  /\ ReleaseBackToPool(x)
  /\ UNCHANGED <<sales, staff>>

(* PurchaseOrderService.cancel, on a draft: the demands are not released    *)
CancelPurchaseOrder(x) ==
  /\ doc[x].state = "Open" /\ doc[x].kind = "PurchaseOrder"
  /\ doc' = [doc EXCEPT ![x].state = "Cancelled"]
  /\ UNCHANGED <<sales, demand, event, staff>>

-----------------------------------------------------------------------------
(* DemandService.confirm, reject, fulfill and cancel: find_by_id, a check   *)
(* of the status, then updates that look at nothing but the id.             *)

Allowed(op, d) ==
  /\ demand[d].status # "None" /\ ~demand[d].deleted
  /\ CASE op = "confirm" -> demand[d].status = "Pending"
       [] op = "reject"  -> demand[d].status \in {"Pending", "Confirmed"}
       [] op = "fulfill" -> demand[d].status = "Confirmed"
       [] op = "cancel"  -> demand[d].status # "Fulfilled"

StartManual(c, op, d) ==
  /\ desk[c] = Free
  /\ Allowed(op, d)
  /\ desk' = [desk EXCEPT ![c] = <<op, d>>]
  /\ UNCHANGED <<sales, supply, event, job, crashes>>

FinishManual(c) ==
  \E op \in ManualOps, d \in Demands :
    /\ desk[c] = <<op, d>>
    /\ desk' = [desk EXCEPT ![c] = Free]
    /\ \/ /\ op = "confirm"                 \* target_doc is the caller's
          /\ \E x \in {y \in Docs : doc[y].state = "Open"} :
               /\ demand' = [demand EXCEPT ![d].status = "Confirmed",
                                           ![d].target = x]
               /\ doc' = [doc EXCEPT ![x].supplies = @ \cup {d}]
               /\ Publish("Confirmed", {d}, [e \in {d} |-> x])
       \/ /\ op = "reject"
          /\ demand' = [demand EXCEPT ![d].status = "Rejected"]
          /\ Publish("Rejected", {d}, [e \in {d} |-> NoDoc])
          /\ UNCHANGED doc
       \/ /\ op = "fulfill"
          /\ demand' = [demand EXCEPT ![d].status = "Fulfilled"]
          /\ UNCHANGED <<doc, event>>
       \/ /\ op = "cancel"
          /\ demand' = [demand EXCEPT ![d].deleted = TRUE]
          /\ UNCHANGED <<doc, event>>
    /\ UNCHANGED <<sales, job, crashes>>

(* Mutant: every supplied plan line counts as mismatched. *)
MismatchedAnyDemand(o) ==
  {l \in LinesOf(o) : plan[l].status \in {"Producing", "Purchasing"}}

(* find_mismatched: the plan says supplied, the demand says it is not       *)
Mismatched(o) ==
  {l \in LinesOf(o) : /\ plan[l].status \in {"Producing", "Purchasing"}
                      /\ \E d \in Demands : /\ d[1] = l /\ ~demand[d].deleted
                                            /\ demand[d].status \in {"Pending", "Rejected"}}

(* reconcile_fulfillment_status looks the plan lines up by order line id,   *)
(* with the plan line ids that find_mismatched returned.                    *)
Reconcile(o) ==
  LET found == {LineWithFpId[l] : l \in Mismatched(o)} \cap Lines
  IN /\ "reconcile" \in ManualOps
     /\ order[o] = "Confirmed"
     /\ plan' = [l \in Lines |->
          IF l \in found /\ plan[l].status # "None"
          THEN [plan[l] EXCEPT !.status = "Pending", !.version = @ + 1]
          ELSE plan[l]]
     /\ UNCHANGED <<order, line, planned, supply, event, staff>>

-----------------------------------------------------------------------------
(* The event processor and handle_demand_confirmed / rejected / released    *)

(* What DemandConfirmed makes of the plan line and of the order line        *)
Underway(ch) ==
  CASE ch \in {"SelfProduced", "Outsourced"} -> "Producing"
    [] ch = "Purchased" -> "Purchasing"
    [] OTHER -> "Pending"

Outcome(e) == IF e[1] = "Confirmed" THEN Underway(Channel(e[2])) ELSE "Pending"

Take(w, e) ==
  /\ job[w] = Free
  /\ event[e].state = "Queued"
  /\ event' = [event EXCEPT ![e].state = "Running"]
  /\ job' = [job EXCEPT ![w] = [event |-> e, step |-> "read", version |-> 0]]
  /\ UNCHANGED <<sales, supply, desk, crashes>>

(* Mutant: a failed event stays claimed. *)
FailForgotten(w, losses) ==
  LET e == job[w].event
  IN /\ event' = [event EXCEPT ![e].retries = @ + 1]
     /\ job' = [job EXCEPT ![w] = Free]

(* Mutant: a failed event is put aside under a status nothing retries. *)
FailUncounted(w, losses) ==
  LET e == job[w].event
  IN /\ event' = [event EXCEPT ![e].state = "Failed"]
     /\ job' = [job EXCEPT ![w] = Free]

(* The handler returned an error: retried until the budget is spent         *)
Fail(w, losses) ==
  LET e == job[w].event
      was == event[e]
      spent == was.retries + 1 >= MaxRetries
  IN /\ event' = [event EXCEPT ![e] =
          [state |-> IF spent THEN "Dead" ELSE "Queued",
           retries |-> IF spent THEN was.retries ELSE was.retries + 1,
           lost |-> was.lost + losses,
           doc |-> was.doc]]
     /\ job' = [job EXCEPT ![w] = Free]

Working(w, step) == job[w] # Free /\ job[w].step = step

(* find_by_order_line_id: a demand always comes from a planned line         *)
ReadPlan(w) ==
  /\ Working(w, "read")
  /\ job' = [job EXCEPT ![w].step = "plan",
                        ![w].version = plan[job[w].event[2][1]].version]
  /\ UNCHANGED <<sales, supply, event, desk, crashes>>

(* Only handle_demand_confirmed records the document on the plan line       *)
AfterPlan(e) == IF e[1] = "Confirmed" THEN "doc" ELSE "line"

(* UPDATE fulfillment_plan_lines .. WHERE version = the one just read       *)
WritePlan(w) ==
  LET e == job[w].event
      l == e[2][1]
  IN /\ Working(w, "plan")
     /\ \/ /\ plan[l].version = job[w].version
           /\ plan' = [plan EXCEPT ![l].status = Outcome(e), ![l].version = @ + 1]
           /\ job' = [job EXCEPT ![w].step = AfterPlan(e)]
           /\ UNCHANGED event
        \/ /\ plan[l].version # job[w].version
           /\ Fail(w, 0)
           /\ UNCHANGED plan
     /\ UNCHANGED <<order, line, planned, supply, desk, crashes>>

(* Mutant: the document is written to every line of the order. *)
WriteSourceDocs(w) ==
  LET e == job[w].event
  IN /\ Working(w, "doc")
     /\ plan' = [l \in Lines |-> IF OrderOf[l] = OrderOf[e[2][1]]
                                THEN [plan[l] EXCEPT !.doc = event[e].doc] ELSE plan[l]]
     /\ job' = [job EXCEPT ![w].step = "line"]
     /\ UNCHANGED <<order, line, planned, supply, event, desk, crashes>>

WriteSourceDoc(w) ==
  LET e == job[w].event
  IN /\ Working(w, "doc")
     /\ plan' = [plan EXCEPT ![e[2][1]].doc = event[e].doc]
     /\ job' = [job EXCEPT ![w].step = "line"]
     /\ UNCHANGED <<order, line, planned, supply, event, desk, crashes>>

(* batch_update_line_status expects version 1, whatever the line's is       *)
WriteLine(w) ==
  LET e == job[w].event
      l == e[2][1]
  IN /\ Working(w, "line")
     /\ IF line[l].version = 1
        THEN /\ line' = [line EXCEPT ![l] = [status |-> Outcome(e), version |-> 2]]
             /\ event' = [event EXCEPT ![e].state = "Done"]
             /\ job' = [job EXCEPT ![w] = Free]
        ELSE Fail(w, 0) /\ UNCHANGED line
     /\ UNCHANGED <<order, plan, planned, supply, desk, crashes>>

(* No connection is to be had, or the statement at hand fails: what the     *)
(* handler has written so far stays, and the failure is counted             *)
LoseStatement(w) ==
  /\ job[w] # Free
  /\ Fail(w, 1)
  /\ UNCHANGED <<sales, supply, desk, crashes>>

(* The server dies; once its claim is stale the event is pending again      *)
Crash(w) ==
  /\ job[w] # Free
  /\ crashes < MaxCrashes
  /\ crashes' = crashes + 1
  /\ event' = [event EXCEPT ![job[w].event].state = "Queued"]
  /\ job' = [job EXCEPT ![w] = Free]
  /\ UNCHANGED <<sales, supply, desk>>

-----------------------------------------------------------------------------
Handle(w) == ReadPlan(w) \/ WritePlan(w) \/ WriteSourceDoc(w) \/ WriteLine(w)

Next ==
  \/ \E c \in Clerks : \/ \E o \in Orders : StartConfirm(c, o)
                       \/ FinishConfirm(c)
                       \/ \E op \in ManualOps \cap Operations, d \in Demands :
                            StartManual(c, op, d)
                       \/ FinishManual(c)
  \/ CreateWorkOrdersFromDemands
  \/ CreateOrderFromDemands
  \/ \E x \in Docs : CancelWorkOrder(x) \/ CancelPurchaseOrder(x)
  \/ \E o \in Orders : Reconcile(o)
  \/ \E w \in Workers : \/ \E e \in Events : Take(w, e)
                        \/ Handle(w)
                        \/ LoseStatement(w)
                        \/ Crash(w)

Spec == Init /\ [][Next]_vars

(* A running event processor polls, and finishes the handler it started;    *)
(* nobody has to confirm, plan, buy or cancel.                              *)
FairSpec ==
  /\ Spec
  /\ \A w \in Workers : WF_vars(Handle(w)) /\ WF_vars(\E e \in Events : Take(w, e))

-----------------------------------------------------------------------------
(* Two clerks confirming one order: it gets one plan, one set of            *)
(* reservations and one set of demands (implt.rs confirm, idx_fpl_order_    *)
(* line_unique).                                                            *)
OnePlanPerLine == \A l \in Lines : planned[l] <= 1

(* What one document supplies no other open document supplies too: no       *)
(* demand is produced or bought twice (lock_demands_for_production /        *)
(* _purchase against release_by_target_doc).                                *)
OneOpenDocPerDemand ==
  \A x, y \in Docs :
    (/\ doc[x].state = "Open" /\ doc[y].state = "Open"
     /\ doc[x].supplies \cap doc[y].supplies # {}) => x = y

(* A line whose stock was reserved in full is ready to ship; nothing the    *)
(* supply of other lines does may take that back (create_from_order's       *)
(* filter, the handlers).                                                   *)
AllocatedStaysAllocated ==
  [][\A l \in Lines : plan[l].status = "Allocated" =>
        plan'[l].status = "Allocated" /\ line'[l].status = "Allocated"]_vars

(* The document a plan line points at is one that was made for a demand of  *)
(* that line, however events are retried (update_source_doc).               *)
PlanDocSuppliesLine ==
  \A l \in Lines : plan[l].doc # NoDoc =>
     \E d \in doc[plan[l].doc].supplies : d[1] = l

Settled(e) == event[e].state \in {"Done", "Dead"}
Quiet(l) == \A e \in Events : e[2][1] = l => event[e].state = "None" \/ Settled(e)
OnlyEvent(e) == \A f \in Events : f[2][1] = e[2][1] /\ f # e => event[f].state = "None"

(* A claim that was neither withdrawn nor mixed with others reaches the     *)
(* plan line, with its document, before its event is given up, unless every *)
(* attempt lost a statement: one attempt that gets as far as the order line *)
(* is enough, whatever the others have left half written and although none  *)
(* of them succeeds (handle_demand_confirmed). One handler of an event at a *)
(* time: a stale reset under a handler that is alive is not modelled here.  *)
ClaimReachesPlan ==
  \A d \in Demands :
    LET e == <<"Confirmed", d>>
    IN Settled(e) /\ OnlyEvent(e) /\ event[e].lost < MaxRetries =>
         /\ plan[d[1]].status = Underway(Channel(d))
         /\ plan[d[1]].doc # NoDoc
         /\ d \in doc[plan[d[1]].doc].supplies

(* Every event of a demand is done with or given up in the end              *)
EventsSettle == \A e \in Events : event[e].state = "Queued" ~> Settled(e)

-----------------------------------------------------------------------------
(* The demands as a pool that documents take from and give back to          *)
Waiting == {d \in Demands : demand[d].status = "Pending"}
Held == [x \in Docs |-> {d \in Demands : demand[d].target = x}]
Closed == {x \in Docs : doc[x].state = "Cancelled" /\ doc[x].kind = "WorkOrder"}

Pool == INSTANCE DemandPool WITH
  waiting <- Waiting, held <- Held, closed <- Closed

(* Planners and buyers hand out waiting demands once, and a cancelled work  *)
(* order gives back all it holds: what the two locks and                    *)
(* release_back_to_pool promise together.                                   *)
ImplementsPool == Pool!Spec
=============================================================================
