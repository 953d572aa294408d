----------------------- MODULE DemandFulfilmentProofs -----------------------
(***************************************************************************)
(* Theorems about DemandFulfilment, for any number of orders, lines,       *)
(* products, documents, servers and clerks, any BOM and any retry budget.  *)
(***************************************************************************)
EXTENDS DemandFulfilment, TLAPS

(***************************************************************************)
(* Types                                                                   *)
(***************************************************************************)

LEMMA DemandTypes ==
  ASSUME NEW d \in Demands  PROVE d[1] \in Lines /\ d[2] \in Products
BY DEF Demands

LEMMA EventTypes ==
  ASSUME NEW e \in Events
  PROVE  e[1] \in Kinds /\ e[2] \in Demands /\ e[2][1] \in Lines
BY DemandTypes DEF Events

EventRecords == [state : {"None", "Queued", "Running", "Done", "Dead"},
                 retries : Nat, lost : Nat, doc : Docs \cup {NoDoc}]
DemandRecords == [status : DemandStatus, target : Docs \cup {NoDoc},
                  deleted : BOOLEAN]
PlanRecords == [status : PlanStatus, version : Nat, doc : Docs \cup {NoDoc}]
LineRecords == [status : LineStatus, version : Nat]
DocRecords == [state : {"Unused", "Open", "Cancelled"},
               kind : {"WorkOrder", "PurchaseOrder"}, supplies : SUBSET Demands]
JobRecords == [event : Events, step : Steps, version : Nat]
Requests == {Free} \cup (Operations \X Demands) \cup ({"order"} \X Orders)

LEMMA PublishType ==
  ASSUME event \in [Events -> EventRecords],
         NEW kind, NEW ds \in SUBSET Demands,
         NEW docOf \in [ds -> Docs \cup {NoDoc}],
         Publish(kind, ds, docOf)
  PROVE  event' \in [Events -> EventRecords]
BY DEF Publish, EventRecords

(* Both demand pools come down to one Supply of demands that were pending. *)
LEMMA WorkOrderSupply ==
  ASSUME CreateWorkOrdersFromDemands
  PROVE  \E ds \in SUBSET Demands : \E docOf \in [ds -> Docs] :
           /\ \A d \in ds : demand[d].status = "Pending"
           /\ Supply(ds, "WorkOrder", docOf)
<1>1. PICK picked \in SUBSET Demands :
        \E wo \in [{d[2] : d \in Locked(picked, "SelfProduced")} -> Docs] :
          Supply(Locked(picked, "SelfProduced"), "WorkOrder",
                 [d \in Locked(picked, "SelfProduced") |-> wo[d[2]]])
  BY DEF CreateWorkOrdersFromDemands
<1> DEFINE ds == Locked(picked, "SelfProduced")
<1>2. PICK wo \in [{d[2] : d \in ds} -> Docs] :
        Supply(ds, "WorkOrder", [d \in ds |-> wo[d[2]]])
  BY <1>1
<1>3. ds \in SUBSET Demands /\ \A d \in ds : demand[d].status = "Pending"
  BY DEF Locked
<1>4. [d \in ds |-> wo[d[2]]] \in [ds -> Docs]
  OBVIOUS
<1>5. QED
  BY <1>2, <1>3, <1>4

LEMMA PurchaseOrderSupply ==
  ASSUME CreateOrderFromDemands
  PROVE  \E ds \in SUBSET Demands : \E docOf \in [ds -> Docs] :
           /\ \A d \in ds : demand[d].status = "Pending"
           /\ Supply(ds, "PurchaseOrder", docOf)
<1>1. PICK picked \in SUBSET Demands, po \in Docs :
        Supply(Locked(picked, "Purchased"), "PurchaseOrder",
               [d \in Locked(picked, "Purchased") |-> po])
  BY DEF CreateOrderFromDemands
<1> DEFINE ds == Locked(picked, "Purchased")
<1>2. ds \in SUBSET Demands /\ \A d \in ds : demand[d].status = "Pending"
  BY DEF Locked
<1>3. [d \in ds |-> po] \in [ds -> Docs]
  OBVIOUS
<1>4. QED
  BY <1>1, <1>2, <1>3

LEMMA SupplyType ==
  ASSUME TypeOK,
         NEW ds \in SUBSET Demands, NEW kind \in {"WorkOrder", "PurchaseOrder"},
         NEW docOf \in [ds -> Docs],
         Supply(ds, kind, docOf)
  PROVE  TypeOK'
<1>1. event' \in [Events -> EventRecords]
  <2>1. docOf \in [ds -> Docs \cup {NoDoc}]
    OBVIOUS
  <2>2. QED
    BY <2>1, PublishType DEF Supply, TypeOK, EventRecords
<1>2. demand' \in [Demands -> DemandRecords]
  <2>1. ASSUME NEW d \in Demands
        PROVE  (IF d \in ds
                THEN [demand[d] EXCEPT !.status = "Confirmed", !.target = docOf[d]]
                ELSE demand[d]) \in DemandRecords
    <3>1. demand[d] \in DemandRecords
      BY DEF TypeOK, DemandRecords
    <3>2. QED
      BY <3>1 DEF DemandRecords, DemandStatus
  <2>2. QED
    BY <2>1 DEF Supply
<1>3. doc' \in [Docs -> DocRecords]
  BY DEF Supply, TypeOK, DocRecords
<1>4. QED
  BY <1>1, <1>2, <1>3
     DEF Supply, TypeOK, EventRecords, DemandRecords, DocRecords, sales, staff

LEMMA ReleaseType ==
  ASSUME TypeOK, NEW x \in Docs, ReleaseBackToPool(x)
  PROVE  /\ demand' \in [Demands -> DemandRecords]
         /\ event' \in [Events -> EventRecords]
<1>1. demand' \in [Demands -> DemandRecords]
  <2>1. \A d \in Demands :
          /\ demand[d] \in DemandRecords
          /\ [demand[d] EXCEPT !.status = "Pending", !.target = NoDoc]
                \in DemandRecords
    <3>1. ASSUME NEW d \in Demands PROVE demand[d] \in DemandRecords
      BY DEF TypeOK, DemandRecords
    <3>2. ASSUME NEW r \in DemandRecords
          PROVE  [r EXCEPT !.status = "Pending", !.target = NoDoc] \in DemandRecords
      BY DEF DemandRecords, DemandStatus
    <3>3. QED
      BY <3>1, <3>2
  <2>2. QED
    BY <2>1 DEF ReleaseBackToPool
<1>2. event' \in [Events -> EventRecords]
  BY PublishType DEF ReleaseBackToPool, TypeOK, EventRecords
<1>3. QED
  BY <1>1, <1>2

LEMMA FailType ==
  ASSUME TypeOK, NEW w \in Workers, job[w] # Free, NEW n \in Nat, Fail(w, n)
  PROVE  /\ event' \in [Events -> EventRecords]
         /\ job' \in [Workers -> {Free} \cup JobRecords]
<1> DEFINE e == job[w].event
           spent == event[e].retries + 1 >= MaxRetries
           after == [state |-> IF spent THEN "Dead" ELSE "Queued",
                     retries |-> IF spent THEN event[e].retries ELSE event[e].retries + 1,
                     lost |-> event[e].lost + n,
                     doc |-> event[e].doc]
<1>1. e \in Events
  BY DEF TypeOK
<1>2. event \in [Events -> EventRecords]
  BY DEF TypeOK, EventRecords
<1>3. after \in EventRecords
  <2>1. event[e].retries \in Nat /\ event[e].lost \in Nat /\ event[e].doc \in Docs \cup {NoDoc}
    BY <1>1, <1>2 DEF EventRecords
  <2>2. QED
    BY <2>1 DEF EventRecords
<1>4. event' = [event EXCEPT ![e] = after]
  BY DEF Fail
<1> HIDE DEF after
<1>5. event' \in [Events -> EventRecords]
  BY <1>1, <1>2, <1>3, <1>4
<1>6. QED
  BY <1>5 DEF Fail, TypeOK, JobRecords

LEMMA ConfirmType ==
  ASSUME TypeOK, NEW c \in Clerks, NEW o \in Orders, Confirm(c, o)
  PROVE  TypeOK'
<1>1. PICK short \in SUBSET {l \in LinesOf(o) : Channel(Own(l)) # "NonInventory"},
           covered \in SUBSET {d \in Demands : d[2] \in Bom[ProductOf[d[1]]]},
           created \in BOOLEAN :
        /\ order' = [order EXCEPT ![o] = "Confirmed"]
        /\ line' = [l \in Lines |->
             IF OrderOf[l] = o
             THEN [status |-> [k \in Lines |-> IF k \in short THEN "Pending"
                                               ELSE "Allocated"][l],
                   version |-> line[l].version + 1]
             ELSE line[l]]
        /\ plan' = [l \in Lines |->
             IF OrderOf[l] = o
             THEN [status |-> [k \in Lines |-> IF k \in short THEN "Pending"
                                               ELSE "Allocated"][l],
                   version |-> 1, doc |-> NoDoc]
             ELSE plan[l]]
        /\ planned' = [l \in Lines |->
             IF OrderOf[l] = o THEN planned[l] + 1 ELSE planned[l]]
        /\ demand' = IF created
                     THEN CreateFromOrder(LinesOf(o), short, covered)
                     ELSE demand
        /\ desk' = [desk EXCEPT ![c] = Free]
        /\ UNCHANGED <<doc, event, job, crashes>>
  BY DEF Confirm
<1>2. demand' \in [Demands -> DemandRecords]
  <2>1. CreateFromOrder(LinesOf(o), short, covered) \in [Demands -> DemandRecords]
    BY DEF CreateFromOrder, TypeOK, DemandRecords, DemandStatus
  <2>2. QED
    BY <1>1, <2>1 DEF TypeOK, DemandRecords
<1>3. line' \in [Lines -> LineRecords] /\ plan' \in [Lines -> PlanRecords]
  BY <1>1 DEF TypeOK, LineRecords, PlanRecords, PlanStatus, LineStatus
<1>4. order' \in [Orders -> {"Draft", "Confirmed"}] /\ planned' \in [Lines -> Nat]
  BY <1>1 DEF TypeOK
<1>5. desk' \in [Clerks -> Requests]
  BY <1>1 DEF TypeOK, Requests
<1>6. UNCHANGED <<doc, event, job, crashes>>
  BY <1>1
<1>7. QED
  BY <1>2, <1>3, <1>4, <1>5, <1>6
     DEF TypeOK, LineRecords, PlanRecords, DemandRecords, Requests

LEMMA FinishManualType ==
  ASSUME TypeOK, NEW c \in Clerks, FinishManual(c)
  PROVE  TypeOK'
<1>1. PICK op \in ManualOps, d \in Demands :
        /\ desk[c] = <<op, d>>
        /\ desk' = [desk EXCEPT ![c] = Free]
        /\ \/ /\ op = "confirm"
              /\ \E x \in {y \in Docs : doc[y].state = "Open"} :
                   /\ demand' = [demand EXCEPT ![d].status = "Confirmed",
                                               ![d].target = x]
                   /\ doc' = [doc EXCEPT ![x].supplies = @ \cup {d}]
                   /\ Publish("Confirmed", {d}, [e \in {d} |-> x])
           \/ /\ op = "reject"
              /\ demand' = [demand EXCEPT ![d].status = "Rejected"]
              /\ Publish("Rejected", {d}, [e \in {d} |-> NoDoc])
              /\ UNCHANGED doc
           \/ /\ op = "fulfill"
              /\ demand' = [demand EXCEPT ![d].status = "Fulfilled"]
              /\ UNCHANGED <<doc, event>>
           \/ /\ op = "cancel"
              /\ demand' = [demand EXCEPT ![d].deleted = TRUE]
              /\ UNCHANGED <<doc, event>>
        /\ UNCHANGED <<sales, job, crashes>>
  BY DEF FinishManual
<1>2. desk' \in [Clerks -> Requests]
  BY <1>1 DEF TypeOK, Requests
<1>3. demand' \in [Demands -> DemandRecords]
  <2>1. demand \in [Demands -> DemandRecords]
    BY DEF TypeOK, DemandRecords
  <2>2. ASSUME NEW s \in DemandStatus
        PROVE  [demand EXCEPT ![d].status = s] \in [Demands -> DemandRecords]
    BY <2>1 DEF DemandRecords
  <2>3. ASSUME NEW x \in Docs
        PROVE  [demand EXCEPT ![d].status = "Confirmed", ![d].target = x]
                 \in [Demands -> DemandRecords]
    <3>1. [demand EXCEPT ![d].status = "Confirmed"] \in [Demands -> DemandRecords]
      BY <2>2 DEF DemandStatus
    <3>2. QED
      BY <3>1 DEF DemandRecords
  <2>4. [demand EXCEPT ![d].deleted = TRUE] \in [Demands -> DemandRecords]
    BY <2>1 DEF DemandRecords
  <2>5. CASE op = "confirm"
    <3>1. PICK x \in Docs :
            demand' = [demand EXCEPT ![d].status = "Confirmed", ![d].target = x]
      BY <1>1, <2>5
    <3>2. QED
      BY <3>1, <2>3
  <2>6. CASE op = "reject"
    <3>1. demand' = [demand EXCEPT ![d].status = "Rejected"]
      BY <1>1, <2>6
    <3>2. "Rejected" \in DemandStatus
      BY DEF DemandStatus
    <3>3. QED
      BY <3>1, <3>2, <2>2
  <2>7. CASE op = "fulfill"
    <3>1. demand' = [demand EXCEPT ![d].status = "Fulfilled"]
      BY <1>1, <2>7
    <3>2. "Fulfilled" \in DemandStatus
      BY DEF DemandStatus
    <3>3. QED
      BY <3>1, <3>2, <2>2
  <2>8. CASE op = "cancel"
    <3>1. demand' = [demand EXCEPT ![d].deleted = TRUE]
      BY <1>1, <2>8
    <3>2. QED
      BY <3>1, <2>4
  <2>9. op \in {"confirm", "reject", "fulfill", "cancel"}
    BY <1>1
  <2>10. QED
    BY <2>5, <2>6, <2>7, <2>8, <2>9
<1>4. doc' \in [Docs -> DocRecords]
  <2>1. ASSUME NEW x \in Docs
        PROVE  [doc EXCEPT ![x].supplies = @ \cup {d}] \in [Docs -> DocRecords]
    <3>1. doc \in [Docs -> DocRecords]
      BY DEF TypeOK, DocRecords
    <3>2. doc[x].supplies \cup {d} \in SUBSET Demands
      BY <3>1 DEF DocRecords
    <3>3. QED
      BY <3>1, <3>2 DEF DocRecords
  <2>2. doc \in [Docs -> DocRecords]
    BY DEF TypeOK, DocRecords
  <2>3. CASE UNCHANGED doc
    BY <2>2, <2>3
  <2>4. CASE op = "confirm"
    BY <1>1, <2>1, <2>4
  <2>5. QED
    BY <1>1, <2>3, <2>4
<1>5. event' \in [Events -> EventRecords]
  <2>1. ASSUME NEW x \in Docs \cup {NoDoc}
        PROVE  [e \in {d} |-> x] \in [{d} -> Docs \cup {NoDoc}]
    OBVIOUS
  <2>2. CASE op \in {"fulfill", "cancel"}
    BY <1>1, <2>2 DEF TypeOK, EventRecords
  <2>3. CASE op \notin {"fulfill", "cancel"}
    BY <1>1, <2>1, <2>3, PublishType DEF TypeOK, EventRecords
  <2>4. QED
    BY <2>2, <2>3
<1>6. QED
  BY <1>1, <1>2, <1>3, <1>4, <1>5
     DEF TypeOK, DemandRecords, DocRecords, EventRecords, Requests, sales

LEMMA HandleType ==
  ASSUME TypeOK, NEW w \in Workers, Handle(w)
  PROVE  TypeOK'
<1> DEFINE e == job[w].event
           l == e[2][1]
<1>1. job[w] \in JobRecords
  BY DEF Handle, ReadPlan, WritePlan, WriteSourceDoc, WriteLine, Working,
         TypeOK, JobRecords
<1>2. e \in Events /\ l \in Lines /\ event[e] \in EventRecords
  <2>1. e \in Events
    BY <1>1 DEF JobRecords
  <2>2. QED
    BY <2>1, EventTypes DEF TypeOK, EventRecords
<1>3. Outcome(e) \in LineStatus
  BY DEF Outcome, Underway, LineStatus
<1>4. job \in [Workers -> {Free} \cup JobRecords]
  BY DEF TypeOK, JobRecords
<1>5. ASSUME NEW s \in Steps
      PROVE  [job EXCEPT ![w].step = s] \in [Workers -> {Free} \cup JobRecords]
  BY <1>1, <1>4, <1>5 DEF JobRecords
<1>6. plan \in [Lines -> PlanRecords]
  BY DEF TypeOK, PlanRecords
<1>7. CASE ReadPlan(w)
  <2>1. [job EXCEPT ![w].step = "plan"] \in [Workers -> {Free} \cup JobRecords]
    BY <1>5 DEF Steps
  <2>2. plan[l].version \in Nat
    BY <1>2, <1>6 DEF PlanRecords
  <2>3. [job EXCEPT ![w].step = "plan", ![w].version = plan[l].version]
           \in [Workers -> {Free} \cup JobRecords]
    <3>1. [job EXCEPT ![w].step = "plan"][w] \in JobRecords
      BY <1>1, <1>4 DEF JobRecords, Steps
    <3>2. QED
      BY <2>1, <2>2, <3>1 DEF JobRecords
  <2>4. QED
    BY <1>7, <2>3 DEF ReadPlan, TypeOK, JobRecords, sales, supply
<1>8. CASE WritePlan(w)
  <2>1. CASE plan[l].version = job[w].version
    <3>1. [plan EXCEPT ![l].status = Outcome(e)] \in [Lines -> PlanRecords]
      BY <1>2, <1>3, <1>6 DEF PlanRecords, PlanStatus
    <3>6. plan' = [plan EXCEPT ![l].status = Outcome(e),
                               ![l].version = plan[l].version + 1]
      BY <1>8, <2>1 DEF WritePlan
    <3>7. plan[l].version + 1 \in Nat
      BY <1>2, <1>6 DEF PlanRecords
    <3>2. plan' \in [Lines -> PlanRecords]
      BY <1>2, <3>1, <3>6, <3>7 DEF PlanRecords
    <3>3. AfterPlan(e) \in Steps
      BY DEF AfterPlan, Steps
    <3>4. job' \in [Workers -> {Free} \cup JobRecords]
      BY <1>5, <1>8, <2>1, <3>3 DEF WritePlan
    <3>5. QED
      BY <1>8, <2>1, <3>2, <3>4 DEF WritePlan, TypeOK, PlanRecords, JobRecords, supply
  <2>2. CASE plan[l].version # job[w].version
    <3>1. Fail(w, 0) /\ UNCHANGED <<order, line, plan, planned, supply, desk, crashes>>
      BY <1>8, <2>2 DEF WritePlan
    <3>2. QED
      BY <1>8, <3>1, FailType DEF WritePlan, Working, TypeOK, EventRecords, JobRecords, supply
  <2>3. QED
    BY <2>1, <2>2
<1>9. CASE WriteSourceDoc(w)
  <2>1. plan' \in [Lines -> PlanRecords]
    BY <1>2, <1>6, <1>9 DEF WriteSourceDoc, PlanRecords, EventRecords
  <2>2. job' \in [Workers -> {Free} \cup JobRecords]
    BY <1>5, <1>9 DEF WriteSourceDoc, Steps
  <2>3. QED
    BY <1>9, <2>1, <2>2 DEF WriteSourceDoc, TypeOK, PlanRecords, JobRecords, supply
<1>10. CASE WriteLine(w)
  <2>1. CASE line[l].version = 1
    <3>1. event' \in [Events -> EventRecords]
      <4>1. event \in [Events -> EventRecords]
        BY DEF TypeOK, EventRecords
      <4>2. [event EXCEPT ![e].state = "Done"] \in [Events -> EventRecords]
        BY <1>2, <4>1 DEF EventRecords
      <4>3. QED
        BY <1>10, <2>1, <4>2 DEF WriteLine
    <3>2. line' \in [Lines -> LineRecords]
      BY <1>2, <1>3, <1>10, <2>1 DEF WriteLine, TypeOK, LineRecords
    <3>3. job' \in [Workers -> {Free} \cup JobRecords]
      BY <1>4, <1>10, <2>1 DEF WriteLine
    <3>4. QED
      BY <1>10, <3>1, <3>2, <3>3
         DEF WriteLine, TypeOK, EventRecords, LineRecords, JobRecords, supply
  <2>2. CASE line[l].version # 1
    <3>1. Fail(w, 0) /\ UNCHANGED <<order, line, plan, planned, supply, desk, crashes>>
      BY <1>10, <2>2 DEF WriteLine
    <3>2. QED
      BY <1>10, <3>1, FailType DEF WriteLine, Working, TypeOK, EventRecords, JobRecords, supply
  <2>3. QED
    BY <2>1, <2>2
<1>11. QED
  BY <1>7, <1>8, <1>9, <1>10 DEF Handle

(* Every variable keeps its type. *)
THEOREM TypeInvariance == Spec => []TypeOK
<1>1. Init => TypeOK
  BY DEF Init, TypeOK, LineStatus, PlanStatus, DemandStatus
<1>2. TypeOK /\ [Next]_vars => TypeOK'
  <2> SUFFICES ASSUME TypeOK, [Next]_vars PROVE TypeOK'
    OBVIOUS
  <2>1. ASSUME NEW c \in Clerks, NEW o \in Orders, StartConfirm(c, o) PROVE TypeOK'
    BY <2>1 DEF StartConfirm, TypeOK, sales, supply
  <2>2. ASSUME NEW c \in Clerks, FinishConfirm(c) PROVE TypeOK'
    <3>1. PICK o \in Orders :
             \/ Confirm(c, o)
             \/ /\ desk' = [desk EXCEPT ![c] = Free]
                /\ UNCHANGED <<sales, supply, event, job, crashes>>
      BY <2>2 DEF FinishConfirm
    <3>2. QED
      BY <3>1, ConfirmType DEF TypeOK, sales, supply
  <2>3. ASSUME NEW c \in Clerks, NEW op \in ManualOps \cap Operations,
               NEW d \in Demands, StartManual(c, op, d)
        PROVE  TypeOK'
    BY <2>3 DEF StartManual, TypeOK, sales, supply
  <2>4. ASSUME NEW c \in Clerks, FinishManual(c) PROVE TypeOK'
    BY <2>4, FinishManualType
  <2>5. CASE CreateWorkOrdersFromDemands
    <3>1. PICK ds \in SUBSET Demands : \E docOf \in [ds -> Docs] :
            Supply(ds, "WorkOrder", docOf)
      BY <2>5, WorkOrderSupply
    <3>2. QED
      BY <3>1, SupplyType
  <2>6. CASE CreateOrderFromDemands
    <3>1. PICK ds \in SUBSET Demands : \E docOf \in [ds -> Docs] :
            Supply(ds, "PurchaseOrder", docOf)
      BY <2>6, PurchaseOrderSupply
    <3>2. QED
      BY <3>1, SupplyType
  <2>7. ASSUME NEW x \in Docs, CancelWorkOrder(x) \/ CancelPurchaseOrder(x)
        PROVE  TypeOK'
    <3>1. doc' \in [Docs -> DocRecords]
      <4>1. doc \in [Docs -> DocRecords]
        BY DEF TypeOK, DocRecords
      <4>2. [doc EXCEPT ![x].state = "Cancelled"] \in [Docs -> DocRecords]
        BY <4>1 DEF DocRecords
      <4>3. QED
        BY <2>7, <4>2 DEF CancelWorkOrder, CancelPurchaseOrder
    <3>2. CASE CancelWorkOrder(x)
      BY <3>1, <3>2, ReleaseType
         DEF CancelWorkOrder, TypeOK, DocRecords, DemandRecords, EventRecords,
             sales, staff
    <3>3. CASE CancelPurchaseOrder(x)
      BY <3>1, <3>3 DEF CancelPurchaseOrder, TypeOK, DocRecords, sales, staff
    <3>4. QED
      BY <2>7, <3>2, <3>3
  <2>8. ASSUME NEW o \in Orders, Reconcile(o) PROVE TypeOK'
    <3>1. plan' \in [Lines -> PlanRecords]
      <4>1. plan \in [Lines -> PlanRecords]
        BY DEF TypeOK, PlanRecords
      <4>2. ASSUME NEW r \in PlanRecords
            PROVE  [r EXCEPT !.status = "Pending", !.version = r.version + 1] \in PlanRecords
        <5>1. [r EXCEPT !.status = "Pending"] \in PlanRecords
          BY DEF PlanRecords, PlanStatus, LineStatus
        <5>2. r.version + 1 \in Nat
          BY DEF PlanRecords
        <5>3. QED
          BY <5>1, <5>2 DEF PlanRecords
      <4>3. QED
        BY <2>8, <4>1, <4>2 DEF Reconcile
    <3>2. QED
      BY <2>8, <3>1 DEF Reconcile, TypeOK, PlanRecords, supply, staff
  <2>9. ASSUME NEW w \in Workers, NEW e \in Events, Take(w, e) PROVE TypeOK'
    <3>1. event' \in [Events -> EventRecords]
      <4>1. event \in [Events -> EventRecords]
        BY DEF TypeOK, EventRecords
      <4>2. QED
        BY <2>9, <4>1 DEF Take, EventRecords
    <3>2. job' \in [Workers -> {Free} \cup JobRecords]
      BY <2>9 DEF Take, TypeOK, JobRecords, Steps
    <3>3. QED
      BY <2>9, <3>1, <3>2 DEF Take, TypeOK, EventRecords, JobRecords, sales, supply
  <2>10. ASSUME NEW w \in Workers, Handle(w) PROVE TypeOK'
    BY <2>10, HandleType
  <2>11. ASSUME NEW w \in Workers, Crash(w) PROVE TypeOK'
    <3>1. job[w].event \in Events
      BY <2>11 DEF Crash, TypeOK
    <3>2. event' \in [Events -> EventRecords]
      BY SMTT(30), <2>11, <3>1 DEF Crash, TypeOK, EventRecords
    <3>3. QED
      BY <2>11, <3>2 DEF Crash, TypeOK, EventRecords, sales, supply
  <2>12. CASE UNCHANGED vars
    BY <2>12 DEF vars, sales, supply, staff, TypeOK
  <2>13. ASSUME NEW w \in Workers, LoseStatement(w) PROVE TypeOK'
    BY <2>13, FailType DEF LoseStatement, TypeOK, EventRecords, JobRecords, sales, supply
  <2>14. QED
    BY <2>1, <2>2, <2>3, <2>4, <2>5, <2>6, <2>7, <2>8, <2>9, <2>10, <2>11, <2>12, <2>13
       DEF Next
<1>3. QED
  BY <1>1, <1>2, PTL DEF Spec

(***************************************************************************)
(* What is recorded where                                                  *)
(*                                                                         *)
(* OnePlanPerLine and PlanDocSuppliesLine are not inductive.  A line that  *)
(* has no plan line yet has never been planned and has no demand; a        *)
(* document that a demand or an event names has taken that demand.         *)
(***************************************************************************)
PlannedOnce ==
  \A l \in Lines : /\ planned[l] <= 1
                   /\ plan[l].status = "None" => planned[l] = 0

NoDemandUnplanned ==
  \A d \in Demands : demand[d].status # "None" \/ demand[d].target # NoDoc
                       => plan[d[1]].status # "None"

SupplyRecorded ==
  /\ \A x \in Docs : doc[x].state = "Unused" => doc[x].supplies = {}
  /\ \A d \in Demands :
       demand[d].target # NoDoc => d \in doc[demand[d].target].supplies
  /\ \A e \in Events :
       event[e].doc # NoDoc => e[2] \in doc[event[e].doc].supplies
  /\ PlanDocSuppliesLine

Recorded == PlannedOnce /\ NoDemandUnplanned /\ SupplyRecorded

(* Steps that plan no line and create no demand *)
LEMMA PlanFrame ==
  ASSUME Recorded, UNCHANGED planned,
         \A l \in Lines : plan'[l].status # "None" \/ plan'[l].status = plan[l].status,
         \A d \in Demands : demand'[d].status # "None" \/ demand'[d].target # NoDoc
                              => demand[d].status # "None" \/ demand[d].target # NoDoc
  PROVE  PlannedOnce' /\ NoDemandUnplanned'
BY DemandTypes DEF Recorded, PlannedOnce, NoDemandUnplanned

(* Documents only gain demands, and what names one is old or is gained *)
LEMMA SupplyFrame ==
  ASSUME Recorded, TypeOK', NoDoc \notin Docs,
         \A x \in Docs : /\ doc[x].supplies \subseteq doc'[x].supplies
                         /\ doc'[x].state = "Unused" => doc'[x].supplies = {},
         \A d \in Demands :
            \/ demand'[d].target \in {NoDoc, demand[d].target}
            \/ d \in doc'[demand'[d].target].supplies,
         \A e \in Events :
            \/ event'[e].doc \in {NoDoc, event[e].doc}
            \/ e[2] \in doc'[event'[e].doc].supplies,
         \A l \in Lines :
            \/ plan'[l].doc \in {NoDoc, plan[l].doc}
            \/ \E d \in doc'[plan'[l].doc].supplies : d[1] = l
  PROVE  SupplyRecorded'
<1>1. ASSUME NEW d \in Demands, demand'[d].target # NoDoc
      PROVE  d \in doc'[demand'[d].target].supplies
  <2>1. demand'[d].target \in Docs
    BY <1>1 DEF TypeOK
  <2>2. QED
    BY <1>1, <2>1 DEF Recorded, SupplyRecorded
<1>2. ASSUME NEW e \in Events, event'[e].doc # NoDoc
      PROVE  e[2] \in doc'[event'[e].doc].supplies
  <2>1. event'[e].doc \in Docs
    BY <1>2 DEF TypeOK
  <2>2. QED
    BY <1>2, <2>1 DEF Recorded, SupplyRecorded
<1>3. ASSUME NEW l \in Lines, plan'[l].doc # NoDoc
      PROVE  \E d \in doc'[plan'[l].doc].supplies : d[1] = l
  <2>1. plan'[l].doc \in Docs
    BY <1>3 DEF TypeOK
  <2>2. QED
    BY <1>3, <2>1 DEF Recorded, SupplyRecorded, PlanDocSuppliesLine
<1>4. QED
  BY <1>1, <1>2, <1>3 DEF SupplyRecorded, PlanDocSuppliesLine

LEMMA PublishEffect ==
  ASSUME NEW kind, NEW ds \in SUBSET Demands, NEW docOf \in [ds -> Docs \cup {NoDoc}],
         Publish(kind, ds, docOf)
  PROVE  \A e \in Events :
            \/ event'[e].doc = event[e].doc
            \/ e[2] \in ds /\ event'[e].doc = docOf[e[2]]
BY DEF Publish

LEMMA SupplyRecords ==
  ASSUME TypeOK, TypeOK', Recorded,
         NEW ds \in SUBSET Demands, NEW kind, NEW docOf \in [ds -> Docs],
         \A d \in ds : demand[d].status = "Pending",
         Supply(ds, kind, docOf)
  PROVE  Recorded'
<1> USE DEF Supply
<1>1. UNCHANGED <<plan, planned>>
  BY DEF sales
<1>2. /\ \A d \in ds : demand'[d].status = "Confirmed" /\ demand'[d].target = docOf[d]
      /\ \A d \in Demands \ ds : demand'[d] = demand[d]
  <2>1. \A d \in ds : demand[d] \in DemandRecords
    BY DEF TypeOK, DemandRecords
  <2>2. \A d \in ds :
          demand'[d] = [demand[d] EXCEPT !.status = "Confirmed", !.target = docOf[d]]
    OBVIOUS
  <2>3. \A d \in Demands \ ds : demand'[d] = demand[d]
    OBVIOUS
  <2>4. ASSUME NEW d \in ds
        PROVE  demand'[d].status = "Confirmed" /\ demand'[d].target = docOf[d]
    BY <2>1, <2>2 DEF DemandRecords
  <2>5. QED
    BY <2>3, <2>4
<1>3. \A d \in ds : d \in doc'[docOf[d]].supplies
  OBVIOUS
<1>4. ASSUME NEW x \in Docs
      PROVE  /\ doc[x].supplies \subseteq doc'[x].supplies
             /\ doc'[x].state = "Unused" => doc'[x].supplies = {}
  <2> DEFINE mine == {d \in ds : docOf[d] = x}
  <2>1. CASE mine = {}
    <3>1. doc'[x] = doc[x]
      BY <2>1
    <3>2. QED
      BY <3>1 DEF Recorded, SupplyRecorded
  <2>2. CASE mine # {}
    <3>1. doc'[x].state = "Open"
      BY <2>2
    <3>2. doc[x].state = "Unused"
      BY <2>2
    <3>3. QED
      BY <3>1, <3>2 DEF Recorded, SupplyRecorded
  <2>3. QED
    BY <2>1, <2>2
<1>5. \A e \in Events :
         \/ event'[e].doc = event[e].doc
         \/ e[2] \in ds /\ event'[e].doc = docOf[e[2]]
  <2>1. docOf \in [ds -> Docs \cup {NoDoc}]
    OBVIOUS
  <2>2. QED
    BY <2>1, PublishEffect
<1>6. PlannedOnce' /\ NoDemandUnplanned'
  BY <1>1, <1>2, PlanFrame
<1>7. SupplyRecorded'
  <2>1. NoDoc \notin Docs
    BY ConstantsAssumption
  <2>2. \A d \in Demands :
           \/ demand'[d].target \in {NoDoc, demand[d].target}
           \/ d \in doc'[demand'[d].target].supplies
    BY <1>2, <1>3
  <2>3. \A e \in Events :
           \/ event'[e].doc \in {NoDoc, event[e].doc}
           \/ e[2] \in doc'[event'[e].doc].supplies
    BY <1>3, <1>5
  <2>4. \A l \in Lines :
           \/ plan'[l].doc \in {NoDoc, plan[l].doc}
           \/ \E d \in doc'[plan'[l].doc].supplies : d[1] = l
    BY <1>1
  <2> HIDE DEF Supply
  <2>5. QED
    BY <1>4, <2>1, <2>2, <2>3, <2>4, SupplyFrame
<1>8. QED
  BY <1>6, <1>7 DEF Recorded

LEMMA ReleaseRecords ==
  ASSUME TypeOK, TypeOK', Recorded, NEW x \in Docs, CancelWorkOrder(x)
  PROVE  Recorded'
<1> DEFINE ds == {d \in Demands : demand[d].target = x /\ ~demand[d].deleted}
<1>1. UNCHANGED <<plan, planned>>
  BY DEF CancelWorkOrder, sales
<1>2. /\ \A d \in ds : demand'[d].status = "Pending" /\ demand'[d].target = NoDoc
      /\ \A d \in Demands \ ds : demand'[d] = demand[d]
  <2>1. \A d \in ds : demand[d] \in DemandRecords
    BY DEF TypeOK, DemandRecords
  <2>2. \A d \in ds :
          demand'[d] = [demand[d] EXCEPT !.status = "Pending", !.target = NoDoc]
    BY DEF CancelWorkOrder, ReleaseBackToPool
  <2>3. \A d \in Demands \ ds : demand'[d] = demand[d]
    BY DEF CancelWorkOrder, ReleaseBackToPool
  <2>4. ASSUME NEW d \in ds
        PROVE  demand'[d].status = "Pending" /\ demand'[d].target = NoDoc
    BY <2>1, <2>2 DEF DemandRecords
  <2>5. QED
    BY <2>3, <2>4
<1>3. \A y \in Docs : /\ doc'[y].supplies = doc[y].supplies
                      /\ doc'[y].state = "Unused" => doc[y].state = "Unused"
  BY DEF CancelWorkOrder, TypeOK
<1>4. \A d \in ds : d \in doc[x].supplies /\ x # NoDoc
  BY ConstantsAssumption DEF Recorded, SupplyRecorded
<1>5. \A e \in Events :
         event'[e].doc = event[e].doc \/ (e[2] \in ds /\ event'[e].doc = x)
  <2> DEFINE docOf == [d \in ds |-> x]
  <2>1. Publish("Released", ds, docOf)
    BY DEF CancelWorkOrder, ReleaseBackToPool
  <2>2. docOf \in [ds -> Docs \cup {NoDoc}] /\ \A d \in ds : docOf[d] = x
    OBVIOUS
  <2>3. ds \in SUBSET Demands
    OBVIOUS
  <2> HIDE DEF docOf, ds
  <2>4. QED
    BY <2>1, <2>2, <2>3, PublishEffect
<1>6. PlannedOnce' /\ NoDemandUnplanned'
  BY <1>1, <1>2, <1>4, PlanFrame
<1>7. SupplyRecorded'
  <2>1. NoDoc \notin Docs
    BY ConstantsAssumption
  <2>2. \A y \in Docs : /\ doc[y].supplies \subseteq doc'[y].supplies
                        /\ doc'[y].state = "Unused" => doc'[y].supplies = {}
    BY <1>3 DEF Recorded, SupplyRecorded
  <2>3. QED
    BY <1>1, <1>2, <1>3, <1>4, <1>5, <2>1, <2>2, SupplyFrame
<1>8. QED
  BY <1>6, <1>7 DEF Recorded

LEMMA ConfirmRecords ==
  ASSUME TypeOK, TypeOK', Recorded, NEW c \in Clerks, NEW o \in Orders,
         FreshPlan(o), Confirm(c, o)
  PROVE  Recorded'
<1>1. PICK short \in SUBSET {l \in LinesOf(o) : Channel(Own(l)) # "NonInventory"},
           covered \in SUBSET {d \in Demands : d[2] \in Bom[ProductOf[d[1]]]},
           created \in BOOLEAN :
        /\ plan' = [l \in Lines |->
             IF OrderOf[l] = o
             THEN [status |-> [k \in Lines |-> IF k \in short THEN "Pending"
                                               ELSE "Allocated"][l],
                   version |-> 1, doc |-> NoDoc]
             ELSE plan[l]]
        /\ planned' = [l \in Lines |->
             IF OrderOf[l] = o THEN planned[l] + 1 ELSE planned[l]]
        /\ demand' = IF created
                     THEN CreateFromOrder(LinesOf(o), short, covered)
                     ELSE demand
        /\ UNCHANGED <<doc, event>>
  BY DEF Confirm
<1>2. \A l \in LinesOf(o) : plan[l].status = "None" /\ planned[l] = 0
  BY DEF FreshPlan, Recorded, PlannedOnce, LinesOf
<1>3. \A l \in Lines :
        IF OrderOf[l] = o
        THEN plan'[l].status # "None" /\ plan'[l].doc = NoDoc
             /\ planned'[l] = planned[l] + 1
        ELSE plan'[l] = plan[l] /\ planned'[l] = planned[l]
  BY <1>1
<1>4. \A d \in Demands :
        \/ demand'[d] = demand[d]
        \/ d[1] \in LinesOf(o) /\ demand'[d].target = NoDoc
  <2>1. CASE created
    <3>1. demand' = CreateFromOrder(LinesOf(o), short, covered)
      BY <1>1, <2>1
    <3>2. short \subseteq LinesOf(o)
      OBVIOUS
    <3>3. QED
      BY <3>1, <3>2 DEF CreateFromOrder
  <2>2. CASE ~created
    BY <1>1, <2>2
  <2>3. QED
    BY <2>1, <2>2
<1>5. PlannedOnce'
  BY <1>2, <1>3 DEF Recorded, PlannedOnce, LinesOf, TypeOK
<1>6. NoDemandUnplanned'
  BY <1>3, <1>4, DemandTypes DEF Recorded, NoDemandUnplanned, LinesOf
<1>7. SupplyRecorded'
  <2>1. NoDoc \notin Docs
    BY ConstantsAssumption
  <2>2. \A x \in Docs : /\ doc[x].supplies \subseteq doc'[x].supplies
                        /\ doc'[x].state = "Unused" => doc'[x].supplies = {}
    BY <1>1 DEF Recorded, SupplyRecorded
  <2>3. \A l \in Lines : plan'[l].doc \in {NoDoc, plan[l].doc}
    BY <1>3
  <2>4. \A d \in Demands : demand'[d].target \in {NoDoc, demand[d].target}
    BY <1>4
  <2>5. UNCHANGED event
    BY <1>1
  <2>6. QED
    BY <2>1, <2>2, <2>3, <2>4, <2>5, SupplyFrame
<1>8. QED
  BY <1>5, <1>6, <1>7 DEF Recorded

(* What DemandService's four operations do to the demand and its document *)
LEMMA ManualEffect ==
  ASSUME TypeOK, NEW c \in Clerks, FinishManual(c)
  PROVE  \E op \in ManualOps, d \in Demands :
           /\ op \in Operations
           /\ desk[c] = <<op, d>> /\ desk' = [desk EXCEPT ![c] = Free]
           /\ \A f \in Demands \ {d} : demand'[f] = demand[f]
           /\ \/ /\ op = "confirm"
                 /\ \E x \in Docs :
                      /\ doc[x].state = "Open"
                      /\ demand'[d].status = "Confirmed" /\ demand'[d].target = x
                      /\ doc'[x].supplies = doc[x].supplies \cup {d}
                      /\ doc'[x].state = doc[x].state
                      /\ \A y \in Docs \ {x} : doc'[y] = doc[y]
                      /\ \A e \in Events :
                           event'[e].doc = event[e].doc \/ (e[2] = d /\ event'[e].doc = x)
              \/ /\ demand'[d].status \in {demand[d].status, "Rejected", "Fulfilled"}
                 /\ demand'[d].target = demand[d].target
                 /\ UNCHANGED doc
                 /\ \A e \in Events : event'[e].doc \in {NoDoc, event[e].doc}
           /\ UNCHANGED <<plan, planned>>
<1>1. PICK op \in ManualOps, d \in Demands :
        /\ desk[c] = <<op, d>> /\ desk' = [desk EXCEPT ![c] = Free]
        /\ \/ /\ op = "confirm"
              /\ \E x \in {y \in Docs : doc[y].state = "Open"} :
                   /\ demand' = [demand EXCEPT ![d].status = "Confirmed",
                                               ![d].target = x]
                   /\ doc' = [doc EXCEPT ![x].supplies = @ \cup {d}]
                   /\ Publish("Confirmed", {d}, [e \in {d} |-> x])
           \/ /\ op = "reject"
              /\ demand' = [demand EXCEPT ![d].status = "Rejected"]
              /\ Publish("Rejected", {d}, [e \in {d} |-> NoDoc])
              /\ UNCHANGED doc
           \/ /\ op = "fulfill"
              /\ demand' = [demand EXCEPT ![d].status = "Fulfilled"]
              /\ UNCHANGED <<doc, event>>
           \/ /\ op = "cancel"
              /\ demand' = [demand EXCEPT ![d].deleted = TRUE]
              /\ UNCHANGED <<doc, event>>
        /\ UNCHANGED sales
  BY DEF FinishManual
<1>2. demand \in [Demands -> DemandRecords] /\ doc \in [Docs -> DocRecords]
  BY DEF TypeOK, DemandRecords, DocRecords
<1>3. UNCHANGED <<plan, planned>> /\ op \in Operations
  BY <1>1 DEF sales, Operations
<1>4. ASSUME NEW kind, NEW x \in Docs \cup {NoDoc}, Publish(kind, {d}, [e \in {d} |-> x])
      PROVE  \A e \in Events :
               event'[e].doc = event[e].doc \/ (e[2] = d /\ event'[e].doc = x)
  <2> DEFINE docOf == [e \in {d} |-> x]
  <2>1. docOf \in [{d} -> Docs \cup {NoDoc}] /\ docOf[d] = x
    OBVIOUS
  <2>2. Publish(kind, {d}, docOf)
    BY <1>4
  <2> HIDE DEF docOf
  <2>3. QED
    BY <2>1, <2>2, PublishEffect
<1>5. CASE op = "confirm"
  <2>1. PICK x \in Docs :
          /\ doc[x].state = "Open"
          /\ demand' = [demand EXCEPT ![d].status = "Confirmed", ![d].target = x]
          /\ doc' = [doc EXCEPT ![x].supplies = @ \cup {d}]
          /\ Publish("Confirmed", {d}, [e \in {d} |-> x])
    BY <1>1, <1>5
  <2>2. /\ demand'[d].status = "Confirmed" /\ demand'[d].target = x
        /\ \A f \in Demands \ {d} : demand'[f] = demand[f]
    BY <1>2, <2>1 DEF DemandRecords
  <2>3. /\ doc'[x].supplies = doc[x].supplies \cup {d}
        /\ doc'[x].state = doc[x].state
        /\ \A y \in Docs \ {x} : doc'[y] = doc[y]
    BY <1>2, <2>1 DEF DocRecords
  <2>4. \A e \in Events :
          event'[e].doc = event[e].doc \/ (e[2] = d /\ event'[e].doc = x)
    BY <1>4, <2>1
  <2>5. QED
    BY <1>1, <1>3, <1>5, <2>1, <2>2, <2>3, <2>4
<1>6. CASE op # "confirm"
  <2>1. /\ demand'[d].status \in {demand[d].status, "Rejected", "Fulfilled"}
        /\ demand'[d].target = demand[d].target
        /\ \A f \in Demands \ {d} : demand'[f] = demand[f]
    BY <1>1, <1>2, <1>6 DEF DemandRecords
  <2>2. UNCHANGED doc
    BY <1>1, <1>6
  <2>3. \A e \in Events : event'[e].doc \in {NoDoc, event[e].doc}
    <3>1. CASE op = "reject"
      BY <1>1, <1>4, <3>1
    <3>2. CASE op # "reject"
      BY <1>1, <1>6, <3>2
    <3>3. QED
      BY <3>1, <3>2
  <2>4. QED
    BY <1>1, <1>3, <2>1, <2>2, <2>3
<1>7. QED
  BY <1>5, <1>6

(* A request is only made of a demand that exists; demands never go away. *)
RequestsKnown ==
  \A c \in Clerks, op \in Operations, d \in Demands :
     desk[c] = <<op, d>> => demand[d].status # "None"

LEMMA DemandsStay ==
  ASSUME TypeOK, [Next]_vars, NEW d \in Demands, demand[d].status # "None"
  PROVE  demand'[d].status # "None"
<1>1. demand[d] \in DemandRecords
  BY DEF TypeOK, DemandRecords
<1>2. CASE UNCHANGED demand
  BY <1>2
<1>3. ASSUME NEW ds \in SUBSET Demands, NEW kind, NEW docOf \in [ds -> Docs],
             Supply(ds, kind, docOf)
      PROVE  demand'[d].status # "None"
  BY <1>1, <1>3 DEF Supply, DemandRecords
<1>4. ASSUME NEW x \in Docs, CancelWorkOrder(x) PROVE demand'[d].status # "None"
  BY <1>1, <1>4 DEF CancelWorkOrder, ReleaseBackToPool, DemandRecords
<1>5. ASSUME NEW c \in Clerks, FinishConfirm(c) PROVE demand'[d].status # "None"
  <2>1. \/ UNCHANGED demand
        \/ \E o, short, covered : demand' = CreateFromOrder(LinesOf(o), short, covered)
    BY <1>5 DEF FinishConfirm, Confirm, supply
  <2>2. QED
    BY <2>1 DEF CreateFromOrder
<1>6. ASSUME NEW c \in Clerks, FinishManual(c) PROVE demand'[d].status # "None"
  <2>1. PICK op \in ManualOps, f \in Demands :
          /\ \A g \in Demands \ {f} : demand'[g] = demand[g]
          /\ demand'[f].status \in {demand[f].status, "Confirmed", "Rejected", "Fulfilled"}
    BY <1>6, ManualEffect
  <2>2. QED
    BY <2>1
<1>7. CASE CreateWorkOrdersFromDemands
  BY <1>3, <1>7, WorkOrderSupply
<1>8. CASE CreateOrderFromDemands
  BY <1>3, <1>8, PurchaseOrderSupply
<1>9. ASSUME NEW w \in Workers, (\E e \in Events : Take(w, e)) \/ Handle(w) \/ LoseStatement(w) \/ Crash(w)
      PROVE  UNCHANGED demand
  BY <1>9 DEF Take, Handle, ReadPlan, WritePlan, WriteSourceDoc, WriteLine, LoseStatement, Crash, supply
<1>10. QED
  BY <1>2, <1>4, <1>5, <1>6, <1>7, <1>8, <1>9
     DEF Next, vars, supply, StartConfirm, StartManual, CancelPurchaseOrder, Reconcile

LEMMA RequestsStep == TypeOK /\ RequestsKnown /\ [Next]_vars => RequestsKnown'
<1> SUFFICES ASSUME TypeOK, RequestsKnown, [Next]_vars,
                    NEW c \in Clerks, NEW op \in Operations, NEW d \in Demands,
                    desk'[c] = <<op, d>>
             PROVE  demand[d].status # "None"
  BY DemandsStay DEF RequestsKnown
<1>1. Free # <<op, d>>
  BY ConstantsAssumption, DemandTypes DEF Demands
<1>2. CASE desk[c] = <<op, d>>
  BY <1>2 DEF RequestsKnown
<1>3. CASE desk[c] # <<op, d>>
  <2>1. ASSUME NEW b \in Clerks, FinishConfirm(b) \/ FinishManual(b) PROVE FALSE
    <3>1. desk' = [desk EXCEPT ![b] = Free]
      BY <2>1 DEF FinishConfirm, FinishManual, Confirm
    <3>2. QED
      BY <1>1, <1>3, <3>1 DEF TypeOK
  <2>2. ASSUME NEW b \in Clerks, NEW o \in Orders, StartConfirm(b, o) PROVE FALSE
    <3>1. <<"order", o>> # <<op, d>>
      BY DEF Operations
    <3>2. QED
      BY <1>3, <2>2, <3>1 DEF StartConfirm, TypeOK
  <2>3. ASSUME NEW b \in Clerks, NEW p \in ManualOps \cap Operations,
               NEW f \in Demands, StartManual(b, p, f)
        PROVE  demand[d].status # "None"
    <3>1. <<p, f>> = <<op, d>>
      BY <1>3, <2>3 DEF StartManual, TypeOK
    <3>2. QED
      BY <2>3, <3>1 DEF StartManual, Allowed
  <2>4. CASE UNCHANGED desk
    BY <1>3, <2>4
  <2>5. ASSUME NEW w \in Workers, (\E e \in Events : Take(w, e)) \/ Handle(w) \/ LoseStatement(w) \/ Crash(w)
        PROVE  UNCHANGED desk
    BY <2>5 DEF Take, Handle, ReadPlan, WritePlan, WriteSourceDoc, WriteLine, LoseStatement, Crash
  <2>6. CASE \/ CreateWorkOrdersFromDemands
             \/ CreateOrderFromDemands
             \/ \E x \in Docs : CancelWorkOrder(x) \/ CancelPurchaseOrder(x)
             \/ \E o \in Orders : Reconcile(o)
             \/ UNCHANGED vars
    BY <2>4, <2>6
       DEF CreateWorkOrdersFromDemands, CreateOrderFromDemands, Supply,
           CancelWorkOrder, CancelPurchaseOrder, Reconcile, vars, staff
  <2>7. QED
    BY <2>1, <2>2, <2>3, <2>4, <2>5, <2>6 DEF Next
<1>4. QED
  BY <1>2, <1>3

LEMMA ManualRecords ==
  ASSUME TypeOK, TypeOK', Recorded, RequestsKnown, NEW c \in Clerks, FinishManual(c)
  PROVE  Recorded'
<1>1. PICK op \in Operations, d \in Demands :
        /\ desk[c] = <<op, d>>
        /\ \A f \in Demands \ {d} : demand'[f] = demand[f]
        /\ \/ \E x \in Docs :
                /\ doc[x].state = "Open"
                /\ demand'[d].status = "Confirmed" /\ demand'[d].target = x
                /\ doc'[x].supplies = doc[x].supplies \cup {d}
                /\ doc'[x].state = doc[x].state
                /\ \A y \in Docs \ {x} : doc'[y] = doc[y]
                /\ \A e \in Events :
                     event'[e].doc = event[e].doc \/ (e[2] = d /\ event'[e].doc = x)
           \/ /\ demand'[d].target = demand[d].target
              /\ UNCHANGED doc
              /\ \A e \in Events : event'[e].doc \in {NoDoc, event[e].doc}
        /\ UNCHANGED <<plan, planned>>
  BY ManualEffect
<1>2. demand[d].status # "None"
  BY <1>1 DEF RequestsKnown
<1>3. PlannedOnce' /\ NoDemandUnplanned'
  BY <1>1, <1>2, PlanFrame
<1>4. NoDoc \notin Docs
  BY ConstantsAssumption
<1>5. \A y \in Docs : /\ doc[y].supplies \subseteq doc'[y].supplies
                      /\ doc'[y].state = "Unused" => doc'[y].supplies = {}
  BY <1>1 DEF Recorded, SupplyRecorded
<1>6. /\ \A f \in Demands :
           \/ demand'[f].target \in {NoDoc, demand[f].target}
           \/ f \in doc'[demand'[f].target].supplies
      /\ \A e \in Events :
           \/ event'[e].doc \in {NoDoc, event[e].doc}
           \/ e[2] \in doc'[event'[e].doc].supplies
  BY <1>1
<1>7. SupplyRecorded'
  BY <1>1, <1>4, <1>5, <1>6, SupplyFrame
<1>8. QED
  BY <1>3, <1>7 DEF Recorded

(* The handlers touch plan lines and order lines only. *)
LEMMA WorkerEffect ==
  ASSUME TypeOK, NEW w \in Workers,
         (\E e \in Events : Take(w, e)) \/ Handle(w) \/ LoseStatement(w) \/ Crash(w)
  PROVE  /\ UNCHANGED <<demand, doc, planned>>
         /\ \A l \in Lines : plan'[l].status # "None" \/ plan'[l].status = plan[l].status
         /\ \A f \in Events : event'[f].doc = event[f].doc
         /\ \A l \in Lines : \/ plan'[l].doc = plan[l].doc
                             \/ \E f \in Events : f[2][1] = l /\ plan'[l].doc = event[f].doc
<1>1. event \in [Events -> EventRecords] /\ plan \in [Lines -> PlanRecords]
  BY DEF TypeOK, EventRecords, PlanRecords
<1>2. ASSUME NEW n \in Nat, Fail(w, n) PROVE \A f \in Events : event'[f].doc = event[f].doc
  BY <1>1, <1>2 DEF Fail, EventRecords
<1>3. CASE (\E e \in Events : Take(w, e)) \/ Crash(w)
  <2>1. UNCHANGED <<plan, demand, doc, planned>>
    BY <1>3 DEF Take, Crash, sales, supply
  <2>2. \A f \in Events : event'[f].doc = event[f].doc
    BY <1>1, <1>3 DEF Take, Crash, EventRecords
  <2>3. QED
    BY <2>1, <2>2
<1>4. CASE ReadPlan(w)
  BY <1>4 DEF ReadPlan, sales, supply
<1>5. CASE WritePlan(w)
  <2>1. UNCHANGED <<demand, doc, planned>>
    BY <1>5 DEF WritePlan, supply
  <2>2. \A f \in Events : event'[f].doc = event[f].doc
    BY <1>2, <1>5 DEF WritePlan
  <2>3. \A e \in Events : Outcome(e) # "None"
    BY DEF Outcome, Underway
  <2>4. job[w].event \in Events
    BY <1>5 DEF WritePlan, Working, TypeOK
  <2>5. \A l \in Lines : /\ plan'[l].status # "None" \/ plan'[l].status = plan[l].status
                        /\ plan'[l].doc = plan[l].doc
    <3>1. CASE UNCHANGED plan
      BY <3>1
    <3>2. CASE plan' = [plan EXCEPT ![job[w].event[2][1]].status = Outcome(job[w].event),
                                    ![job[w].event[2][1]].version = @ + 1]
      <4>1. Outcome(job[w].event) # "None"
        BY <2>3, <2>4
      <4>2. QED
        BY <1>1, <3>2, <4>1 DEF PlanRecords
    <3>3. QED
      BY <1>5, <3>1, <3>2 DEF WritePlan
  <2>6. QED
    BY <2>1, <2>2, <2>5
<1>6. CASE WriteSourceDoc(w)
  <2>1. UNCHANGED <<demand, doc, planned, event>>
    BY <1>6 DEF WriteSourceDoc, supply
  <2>2. job[w].event \in Events
    BY <1>6 DEF WriteSourceDoc, Working, TypeOK
  <2>3. plan' = [plan EXCEPT ![job[w].event[2][1]].doc = event[job[w].event].doc]
    BY <1>6 DEF WriteSourceDoc
  <2>4. \A l \in Lines : /\ plan'[l].status = plan[l].status
                        /\ \/ plan'[l].doc = plan[l].doc
                           \/ /\ job[w].event[2][1] = l
                              /\ plan'[l].doc = event[job[w].event].doc
    BY <1>1, <2>3 DEF PlanRecords
  <2>5. QED
    BY <2>1, <2>2, <2>4
<1>7. CASE WriteLine(w)
  <2>1. UNCHANGED <<plan, demand, doc, planned>>
    BY <1>7 DEF WriteLine, supply
  <2>2. \A f \in Events : event'[f].doc = event[f].doc
    <3>1. CASE \E n \in Nat : Fail(w, n)
      BY <1>2, <3>1
    <3>2. CASE event' = [event EXCEPT ![job[w].event].state = "Done"]
      BY <1>1, <3>2 DEF EventRecords
    <3>3. QED
      BY <1>7, <3>1, <3>2 DEF WriteLine
  <2>3. QED
    BY <2>1, <2>2
<1>8. CASE LoseStatement(w)
  BY <1>2, <1>8 DEF LoseStatement, sales, supply
<1>9. QED
  BY <1>3, <1>4, <1>5, <1>6, <1>7, <1>8 DEF Handle

LEMMA WorkerRecords ==
  ASSUME TypeOK, TypeOK', Recorded, NEW w \in Workers,
         (\E e \in Events : Take(w, e)) \/ Handle(w) \/ LoseStatement(w) \/ Crash(w)
  PROVE  Recorded'
<1>1. PlannedOnce' /\ NoDemandUnplanned'
  BY WorkerEffect, PlanFrame
<1>2. SupplyRecorded'
  <2>1. NoDoc \notin Docs
    BY ConstantsAssumption
  <2>2. \A y \in Docs : /\ doc[y].supplies \subseteq doc'[y].supplies
                        /\ doc'[y].state = "Unused" => doc'[y].supplies = {}
    BY WorkerEffect DEF Recorded, SupplyRecorded
  <2>3. \A f \in Events : f[2] \in Demands
    BY EventTypes
  <2>4. ASSUME NEW l \in Lines
        PROVE  \/ plan'[l].doc \in {NoDoc, plan[l].doc}
               \/ \E d \in doc'[plan'[l].doc].supplies : d[1] = l
    <3>1. CASE plan'[l].doc = plan[l].doc
      BY <3>1
    <3>2. ASSUME NEW f \in Events, f[2][1] = l, plan'[l].doc = event[f].doc,
                 event[f].doc # NoDoc
          PROVE  \E d \in doc'[plan'[l].doc].supplies : d[1] = l
      <4>1. f[2] \in doc[event[f].doc].supplies /\ UNCHANGED doc
        BY <3>2, WorkerEffect DEF Recorded, SupplyRecorded
      <4>2. QED
        BY <3>2, <4>1
    <3>3. QED
      BY <3>1, <3>2, WorkerEffect
  <2>5. /\ \A d \in Demands : demand'[d].target \in {NoDoc, demand[d].target}
        /\ \A e \in Events : event'[e].doc \in {NoDoc, event[e].doc}
    BY WorkerEffect
  <2>6. QED
    BY <2>1, <2>2, <2>4, <2>5, SupplyFrame
<1>3. QED
  BY <1>1, <1>2 DEF Recorded

(* Steps that leave plans, demands and events alone and keep the supplies *)
LEMMA IdleRecords ==
  ASSUME TypeOK', Recorded, UNCHANGED <<planned, demand, event>>,
         \A l \in Lines : /\ plan'[l].status # "None" \/ plan'[l].status = plan[l].status
                         /\ plan'[l].doc = plan[l].doc,
         \A x \in Docs : /\ doc'[x].supplies = doc[x].supplies
                         /\ doc'[x].state = "Unused" => doc[x].state = "Unused"
  PROVE  Recorded'
<1>1. PlannedOnce' /\ NoDemandUnplanned'
  BY PlanFrame
<1>2. NoDoc \notin Docs
  BY ConstantsAssumption
<1>3. \A x \in Docs : /\ doc[x].supplies \subseteq doc'[x].supplies
                      /\ doc'[x].state = "Unused" => doc'[x].supplies = {}
  BY DEF Recorded, SupplyRecorded
<1>4. SupplyRecorded'
  BY <1>2, <1>3, SupplyFrame
<1>5. QED
  BY <1>1, <1>4 DEF Recorded

LEMMA RecordedStep ==
  TypeOK /\ TypeOK' /\ RequestsKnown /\ Recorded /\ [Next]_vars => Recorded'
<1> SUFFICES ASSUME TypeOK, TypeOK', RequestsKnown, Recorded, [Next]_vars
             PROVE  Recorded'
  OBVIOUS
<1>1. CASE UNCHANGED <<sales, supply, event>>
  BY <1>1, IdleRecords DEF sales, supply
<1>2. ASSUME NEW c \in Clerks, FinishConfirm(c) PROVE Recorded'
  <2>1. PICK o \in Orders : (FreshPlan(o) /\ Confirm(c, o)) \/ UNCHANGED <<sales, supply, event>>
    BY <1>2 DEF FinishConfirm
  <2>2. QED
    BY <1>1, <2>1, ConfirmRecords
<1>3. ASSUME NEW c \in Clerks, FinishManual(c) PROVE Recorded'
  BY <1>3, ManualRecords
<1>4. CASE CreateWorkOrdersFromDemands
  BY <1>4, WorkOrderSupply, SupplyRecords
<1>5. CASE CreateOrderFromDemands
  BY <1>5, PurchaseOrderSupply, SupplyRecords
<1>6. ASSUME NEW x \in Docs, CancelWorkOrder(x) PROVE Recorded'
  BY <1>6, ReleaseRecords
<1>7. ASSUME NEW x \in Docs, CancelPurchaseOrder(x) PROVE Recorded'
  <2>1. \A y \in Docs : /\ doc'[y].supplies = doc[y].supplies
                        /\ doc'[y].state = "Unused" => doc[y].state = "Unused"
    BY <1>7 DEF CancelPurchaseOrder, TypeOK
  <2>2. UNCHANGED <<plan, planned, demand, event>>
    BY <1>7 DEF CancelPurchaseOrder, sales
  <2>3. QED
    BY <2>1, <2>2, IdleRecords
<1>8. ASSUME NEW o \in Orders, Reconcile(o) PROVE Recorded'
  <2>1. \A l \in Lines : /\ plan'[l].status # "None" \/ plan'[l].status = plan[l].status
                        /\ plan'[l].doc = plan[l].doc
    <3>1. plan \in [Lines -> PlanRecords]
      BY DEF TypeOK, PlanRecords
    <3>2. QED
      BY <1>8, <3>1 DEF Reconcile, PlanRecords
  <2>2. UNCHANGED <<planned, demand, event, doc>>
    BY <1>8 DEF Reconcile, supply
  <2>3. QED
    BY <2>1, <2>2, IdleRecords
<1>9. ASSUME NEW w \in Workers, (\E e \in Events : Take(w, e)) \/ Handle(w) \/ LoseStatement(w) \/ Crash(w)
      PROVE  Recorded'
  BY <1>9, WorkerRecords
<1>10. QED
  BY <1>1, <1>2, <1>3, <1>4, <1>5, <1>6, <1>7, <1>8, <1>9
     DEF Next, StartConfirm, StartManual, vars

LEMMA RecordedInvariant == Spec => [](RequestsKnown /\ Recorded)
<1>1. Init => RequestsKnown /\ Recorded
  <2> SUFFICES ASSUME Init PROVE RequestsKnown /\ Recorded
    OBVIOUS
  <2>1. RequestsKnown
    <3>1. \A c \in Clerks : desk[c] = Free
      BY DEF Init
    <3>2. \A op \in Operations, d \in Demands : Free # <<op, d>>
      BY DemandTypes, ConstantsAssumption DEF Demands
    <3>3. QED
      BY <3>1, <3>2 DEF RequestsKnown
  <2>2. PlannedOnce
    BY DEF Init, PlannedOnce
  <2>3. NoDemandUnplanned
    BY DEF Init, NoDemandUnplanned
  <2>4. \A x \in Docs : doc[x].state = "Unused" => doc[x].supplies = {}
    BY DEF Init
  <2>5. \A d \in Demands : demand[d].target = NoDoc
    BY DEF Init
  <2>6. \A e \in Events : event[e].doc = NoDoc
    BY DEF Init
  <2>7. PlanDocSuppliesLine
    BY DEF Init, PlanDocSuppliesLine
  <2>8. QED
    BY <2>1, <2>2, <2>3, <2>4, <2>5, <2>6, <2>7 DEF Recorded, SupplyRecorded
<1>2. QED
  BY <1>1, TypeInvariance, RequestsStep, RecordedStep, PTL DEF Spec

(* However many clerks confirm an order at once, each of its lines gets one *)
(* plan line.                                                               *)
THEOREM PlannedAtMostOnce == Spec => []OnePlanPerLine
<1>1. Recorded => OnePlanPerLine
  BY DEF Recorded, PlannedOnce, OnePlanPerLine
<1>2. QED
  BY <1>1, RecordedInvariant, PTL

(* The document a plan line points at was made for a demand of that line,   *)
(* whatever is retried, crashes or arrives late.                            *)
THEOREM PlanDocBelongs == Spec => []PlanDocSuppliesLine
<1>1. Recorded => PlanDocSuppliesLine
  BY DEF Recorded, SupplyRecorded
<1>2. QED
  BY <1>1, RecordedInvariant, PTL

(***************************************************************************)
(* One open document per demand                                            *)
(*                                                                         *)
(* A demand an open document has taken still points at it and is out of    *)
(* the pool.  DemandService.confirm writes its target without a lock and   *)
(* would break this; no route calls it, and the theorem says so.           *)
(***************************************************************************)
OpenDocsHold ==
  \A x \in Docs : doc[x].state = "Open" =>
     \A d \in doc[x].supplies :
        demand[d].target = x /\ demand[d].status \notin {"None", "Pending"}

LEMMA SupplyHolds ==
  ASSUME TypeOK, OpenDocsHold,
         NEW ds \in SUBSET Demands, NEW kind, NEW docOf \in [ds -> Docs],
         \A d \in ds : demand[d].status = "Pending",
         Supply(ds, kind, docOf)
  PROVE  OpenDocsHold'
<1> SUFFICES ASSUME NEW x \in Docs, doc'[x].state = "Open", NEW d \in doc'[x].supplies
             PROVE  demand'[d].target = x /\ demand'[d].status \notin {"None", "Pending"}
  BY DEF OpenDocsHold
<1> DEFINE mine == {e \in ds : docOf[e] = x}
<1>1. CASE mine = {}
  <2>1. doc'[x] = doc[x]
    BY <1>1 DEF Supply
  <2>2. d \in Demands /\ demand[d].target = x /\ demand[d].status \notin {"None", "Pending"}
    BY <2>1 DEF OpenDocsHold, TypeOK
  <2>3. demand'[d] = demand[d]
    BY <2>2 DEF Supply
  <2>4. QED
    BY <2>2, <2>3
<1>2. CASE mine # {}
  <2>1. d \in ds /\ docOf[d] = x
    BY <1>2 DEF Supply
  <2>2. demand[d] \in DemandRecords
    BY <2>1 DEF TypeOK, DemandRecords
  <2>3. demand'[d] = [demand[d] EXCEPT !.status = "Confirmed", !.target = x]
    BY <2>1 DEF Supply
  <2>4. QED
    BY <2>2, <2>3 DEF DemandRecords
<1>3. QED
  BY <1>1, <1>2

LEMMA OpenDocsStep ==
  ASSUME "confirm" \notin ManualOps
  PROVE  TypeOK /\ Recorded /\ OpenDocsHold /\ [Next]_vars => OpenDocsHold'
<1> SUFFICES ASSUME TypeOK, Recorded, OpenDocsHold, [Next]_vars
             PROVE  OpenDocsHold'
  OBVIOUS
<1>1. \A x \in Docs : doc[x].supplies \subseteq Demands
  BY DEF TypeOK
<1>2. CASE UNCHANGED <<demand, doc>>
  BY <1>2 DEF OpenDocsHold
<1>3. ASSUME NEW c \in Clerks, FinishConfirm(c) PROVE OpenDocsHold'
  <2>1. CASE UNCHANGED <<demand, doc>>
    BY <1>2, <2>1
  <2>2. ASSUME NEW o \in Orders, FreshPlan(o), Confirm(c, o) PROVE OpenDocsHold'
    <3>1. \A d \in Demands : d[1] \in LinesOf(o) => demand[d].status = "None"
      BY <2>2, DemandTypes DEF FreshPlan, Recorded, NoDemandUnplanned
    <3>2. \A d \in Demands : demand'[d] = demand[d] \/ d[1] \in LinesOf(o)
      <4>1. \/ UNCHANGED demand
            \/ \E short \in SUBSET {l \in LinesOf(o) : Channel(Own(l)) # "NonInventory"} :
                  \E covered \in SUBSET Demands :
                    demand' = CreateFromOrder(LinesOf(o), short, covered)
        BY <2>2 DEF Confirm
      <4>2. QED
        BY <4>1 DEF CreateFromOrder
    <3>3. UNCHANGED doc
      BY <2>2 DEF Confirm
    <3>4. QED
      BY <1>1, <3>1, <3>2, <3>3 DEF OpenDocsHold
  <2>3. QED
    BY <1>3, <2>1, <2>2 DEF FinishConfirm, supply
<1>4. ASSUME NEW c \in Clerks, FinishManual(c) PROVE OpenDocsHold'
  <2>1. PICK d \in Demands :
          /\ \A f \in Demands \ {d} : demand'[f] = demand[f]
          /\ demand'[d].status \in {demand[d].status, "Rejected", "Fulfilled"}
          /\ demand'[d].target = demand[d].target
          /\ UNCHANGED doc
    BY <1>4, ManualEffect
  <2>2. QED
    BY <1>1, <2>1 DEF OpenDocsHold
<1>5. CASE CreateWorkOrdersFromDemands
  BY <1>5, WorkOrderSupply, SupplyHolds
<1>6. CASE CreateOrderFromDemands
  BY <1>6, PurchaseOrderSupply, SupplyHolds
<1>7. ASSUME NEW x \in Docs, CancelWorkOrder(x) \/ CancelPurchaseOrder(x)
      PROVE  OpenDocsHold'
  <2>1. \A d \in Demands : demand[d].target # x => demand'[d] = demand[d]
    BY <1>7 DEF CancelWorkOrder, CancelPurchaseOrder, ReleaseBackToPool
  <2>2. doc'[x].state = "Cancelled" /\ \A y \in Docs \ {x} : doc'[y] = doc[y]
    BY <1>7 DEF CancelWorkOrder, CancelPurchaseOrder, TypeOK
  <2>3. QED
    BY <1>1, <2>1, <2>2 DEF OpenDocsHold
<1>8. ASSUME NEW w \in Workers, (\E e \in Events : Take(w, e)) \/ Handle(w) \/ LoseStatement(w) \/ Crash(w)
      PROVE  OpenDocsHold'
  BY <1>2, <1>8, WorkerEffect
<1>9. QED
  BY <1>2, <1>3, <1>4, <1>5, <1>6, <1>7, <1>8
     DEF Next, StartConfirm, StartManual, Reconcile, vars, supply

(* No demand is ever supplied by two open documents at once: nothing is     *)
(* produced or bought twice, however planners, buyers and cancellations     *)
(* interleave.                                                              *)
THEOREM NoDoubleSupply ==
  ASSUME "confirm" \notin ManualOps
  PROVE  Spec => []OneOpenDocPerDemand
<1>1. Init => OpenDocsHold
  BY DEF Init, OpenDocsHold
<1>2. TypeOK /\ OpenDocsHold => OneOpenDocPerDemand
  BY DEF OpenDocsHold, OneOpenDocPerDemand, TypeOK
<1>3. TypeOK /\ Recorded /\ OpenDocsHold /\ [Next]_vars => OpenDocsHold'
  BY OpenDocsStep
<1>4. QED
  BY <1>1, <1>2, <1>3, TypeInvariance, RecordedInvariant, PTL DEF Spec

(***************************************************************************)
(* The pool                                                                *)
(*                                                                         *)
(* Without DemandService, which no route calls, a demand waits in the pool *)
(* or points at the document that holds it, and a cancelled work order     *)
(* holds nothing.                                                          *)
(***************************************************************************)
PoolInv ==
  \A d \in Demands :
    /\ ~demand[d].deleted
    /\ demand[d].target = NoDoc <=> demand[d].status \in {"None", "Pending"}
    /\ demand[d].target # NoDoc =>
         /\ doc[demand[d].target].state # "Unused"
         /\ demand[d].target \notin Closed

Pooled == Pool!Next \/ UNCHANGED Pool!vars

LEMMA HeldIs ==
  ASSUME NEW x \in Docs
  PROVE  /\ Held[x] = {d \in Demands : demand[d].target = x}
         /\ Held'[x] = {d \in Demands : demand'[d].target = x}
         /\ Held = [y \in Docs |-> Held[y]]
         /\ Held' = [y \in Docs |-> Held'[y]]
BY DEF Held

LEMMA PoolStutter ==
  ASSUME PoolInv, UNCHANGED demand,
         \A x \in Docs : /\ x \in Closed' <=> x \in Closed
                         /\ doc'[x].state = "Unused" => doc[x].state = "Unused",
         TypeOK
  PROVE  Pooled /\ PoolInv'
<1>1. Closed' = Closed
  BY DEF Closed
<1>2. Waiting' = Waiting /\ Held' = Held
  BY DEF Waiting, Held
<1>3. Pooled
  BY <1>1, <1>2 DEF Pooled, Pool!vars
<1>4. \A d \in Demands : demand[d].target \in Docs \cup {NoDoc}
  BY DEF TypeOK
<1>5. PoolInv'
  BY <1>1, <1>4 DEF PoolInv
<1>6. QED
  BY <1>3, <1>5

(* A clerk's confirmation: the new demands come from lines without a plan, *)
(* which had none                                                          *)
LEMMA PoolArrives ==
  ASSUME TypeOK, PoolInv, Recorded, NEW c, NEW o \in Orders,
         FreshPlan(o), Confirm(c, o)
  PROVE  Pooled /\ PoolInv'
<1>1. UNCHANGED doc
  BY DEF Confirm
<1>2. Closed' = Closed
  BY <1>1 DEF Closed
<1>3. \A d \in Demands : \/ demand'[d] = demand[d]
                         \/ /\ d[1] \in LinesOf(o)
                            /\ demand'[d].status = "Pending"
                            /\ demand'[d].target = NoDoc
                            /\ ~demand'[d].deleted
  <2>1. \/ UNCHANGED demand
        \/ \E short \in SUBSET {l \in LinesOf(o) : Channel(Own(l)) # "NonInventory"} :
              \E covered \in SUBSET Demands :
                demand' = CreateFromOrder(LinesOf(o), short, covered)
    BY DEF Confirm
  <2>2. QED
    BY <2>1 DEF CreateFromOrder
<1>4. \A d \in Demands : d[1] \in LinesOf(o) =>
        demand[d].status = "None" /\ demand[d].target = NoDoc
  BY DemandTypes DEF FreshPlan, Recorded, NoDemandUnplanned
<1>5. PoolInv'
  BY <1>1, <1>2, <1>3 DEF PoolInv
<1> DEFINE new == {d \in Demands : demand'[d] # demand[d]}
<1>6. \A d \in new : d \in Demands /\ d[1] \in LinesOf(o) /\ demand'[d].status = "Pending"
  BY <1>3
<1>7. Waiting' = Waiting \cup new
  BY <1>3, <1>4 DEF Waiting
<1>8. Held' = Held
  <2>1. \A d \in Demands : demand'[d].target = demand[d].target
    BY <1>3, <1>4
  <2>2. QED
    BY <2>1 DEF Held
<1>9. new \in SUBSET (Demands \ (Waiting \cup Pool!Taken))
  <2> SUFFICES ASSUME NEW d \in new
               PROVE  d \in Demands /\ d \notin Waiting /\ d \notin Pool!Taken
    OBVIOUS
  <2>1. demand[d].status = "None" /\ demand[d].target = NoDoc
    BY <1>4, <1>6
  <2>2. \A x \in Docs : d \notin Held[x]
    BY <2>1, HeldIs, ConstantsAssumption
  <2>3. QED
    BY <1>6, <2>1, <2>2 DEF Waiting, Pool!Taken
<1> HIDE DEF new
<1>10. Pool!Arrive
  BY <1>2, <1>7, <1>8, <1>9 DEF Pool!Arrive
<1>11. QED
  BY <1>5, <1>10 DEF Pooled, Pool!Next

(* A planner's or a buyer's choice: the documents are new and so hold      *)
(* nothing                                                                 *)
LEMMA PoolHands ==
  ASSUME TypeOK, PoolInv,
         NEW ds \in SUBSET Demands, NEW kind, NEW docOf \in [ds -> Docs],
         \A d \in ds : demand[d].status = "Pending",
         Supply(ds, kind, docOf)
  PROVE  Pooled /\ PoolInv'
<1> DEFINE given == [x \in Docs |-> {d \in ds : docOf[d] = x}]
<1>1. /\ \A d \in ds : docOf[d] \in Docs /\ doc[docOf[d]].state = "Unused"
      /\ \A d \in Demands \ ds : demand'[d] = demand[d]
  BY DEF Supply
<1>2. \A d \in ds : /\ demand'[d].status = "Confirmed"
                    /\ demand'[d].target = docOf[d]
                    /\ demand'[d].deleted = demand[d].deleted
  <2> SUFFICES ASSUME NEW d \in ds
               PROVE  /\ demand'[d].status = "Confirmed"
                      /\ demand'[d].target = docOf[d]
                      /\ demand'[d].deleted = demand[d].deleted
    OBVIOUS
  <2>1. demand[d] \in DemandRecords
    BY DEF TypeOK, DemandRecords
  <2>2. demand'[d] = [demand[d] EXCEPT !.status = "Confirmed", !.target = docOf[d]]
    BY DEF Supply
  <2>3. QED
    BY <2>1, <2>2 DEF DemandRecords
<1>3. \A x \in Docs : \/ doc'[x] = doc[x] /\ \A d \in ds : docOf[d] # x
                      \/ /\ doc[x].state = "Unused" /\ doc'[x].state = "Open"
                         /\ \E d \in ds : docOf[d] = x
  <2> SUFFICES ASSUME NEW x \in Docs
               PROVE  \/ doc'[x] = doc[x] /\ \A d \in ds : docOf[d] # x
                      \/ /\ doc[x].state = "Unused" /\ doc'[x].state = "Open"
                         /\ \E d \in ds : docOf[d] = x
    OBVIOUS
  <2>1. CASE {d \in ds : docOf[d] = x} = {}
    BY <2>1 DEF Supply
  <2>2. CASE {d \in ds : docOf[d] = x} # {}
    BY ZenonT(40), <1>1, <2>2 DEF Supply
  <2>3. QED
    BY <2>1, <2>2
<1>4. Closed' = Closed
  BY <1>3 DEF Closed
<1>5. \A d \in ds : docOf[d] \notin Closed
  BY <1>1 DEF Closed
<1>6. PoolInv'
  <2> SUFFICES ASSUME NEW d \in Demands
               PROVE  /\ ~demand'[d].deleted
                      /\ demand'[d].target = NoDoc <=> demand'[d].status \in {"None", "Pending"}
                      /\ demand'[d].target # NoDoc =>
                           /\ doc'[demand'[d].target].state # "Unused"
                           /\ demand'[d].target \notin Closed
    BY <1>4 DEF PoolInv
  <2>1. CASE d \in ds
    <3>1. doc'[docOf[d]].state # "Unused"
      BY <1>1, <1>3, <2>1
    <3>2. QED
      BY <1>1, <1>2, <1>5, <2>1, <3>1, ConstantsAssumption DEF PoolInv
  <2>2. CASE d \notin ds
    <3>1. demand[d].target \in Docs \cup {NoDoc}
      BY DEF TypeOK
    <3>2. \A x \in Docs : doc[x].state # "Unused" => doc'[x].state # "Unused"
      BY <1>3
    <3>3. QED
      BY <1>1, <2>2, <3>1, <3>2 DEF PoolInv
  <2>3. QED
    BY <2>1, <2>2
<1>7. given \in [Docs -> SUBSET Waiting]
  BY DEF Waiting
<1>8. \A x, y \in Docs : given[x] \cap given[y] # {} => x = y
  OBVIOUS
<1>9. \A x \in Docs : given[x] # {} => Held[x] = {} /\ x \notin Closed
  <2> SUFFICES ASSUME NEW x \in Docs, NEW d \in given[x]
               PROVE  Held[x] = {} /\ x \notin Closed
    OBVIOUS
  <2>1. doc[x].state = "Unused"
    BY <1>1
  <2>2. \A e \in Demands : demand[e].target # x
    BY <2>1, ConstantsAssumption DEF PoolInv
  <2>3. QED
    BY <2>1, <2>2, HeldIs DEF Closed
<1>10. UNION {given[x] : x \in Docs} = ds
  BY <1>1
<1>11. Waiting' = Waiting \ ds
  BY <1>1, <1>2 DEF Waiting
<1>12. Held' = [x \in Docs |-> Held[x] \cup given[x]]
  <2>1. ASSUME NEW x \in Docs PROVE Held'[x] = Held[x] \cup given[x]
    <3>1. \A d \in ds : demand[d].target = NoDoc
      BY DEF PoolInv
    <3>2. \A d \in Demands :
            demand'[d].target = x <=> demand[d].target = x \/ (d \in ds /\ docOf[d] = x)
      BY <1>1, <1>2, <3>1, ConstantsAssumption
    <3>3. QED
      BY <3>2, HeldIs
  <2>2. QED
    BY <2>1 DEF Held
<1> HIDE DEF given
<1>13. Pool!Hand
  BY <1>4, <1>7, <1>8, <1>9, <1>10, <1>11, <1>12 DEF Pool!Hand
<1>14. QED
  BY <1>6, <1>13 DEF Pooled, Pool!Next

(* A cancelled work order gives back all it holds *)
LEMMA PoolCloses ==
  ASSUME TypeOK, PoolInv, NEW x \in Docs, CancelWorkOrder(x)
  PROVE  Pooled /\ PoolInv'
<1>1. /\ doc[x].state = "Open" /\ doc[x].kind = "WorkOrder"
      /\ doc'[x].state = "Cancelled" /\ doc'[x].kind = "WorkOrder"
      /\ \A y \in Docs \ {x} : doc'[y] = doc[y]
  BY DEF CancelWorkOrder, TypeOK
<1>2. \A d \in Demands : IF demand[d].target = x
                         THEN /\ demand'[d].status = "Pending"
                              /\ demand'[d].target = NoDoc
                              /\ demand'[d].deleted = demand[d].deleted
                         ELSE demand'[d] = demand[d]
  <2> SUFFICES ASSUME NEW d \in Demands
               PROVE  IF demand[d].target = x
                      THEN /\ demand'[d].status = "Pending"
                           /\ demand'[d].target = NoDoc
                           /\ demand'[d].deleted = demand[d].deleted
                      ELSE demand'[d] = demand[d]
    OBVIOUS
  <2>1. demand[d] \in DemandRecords
    BY DEF TypeOK, DemandRecords
  <2>2. demand'[d] = IF demand[d].target = x
                     THEN [demand[d] EXCEPT !.status = "Pending", !.target = NoDoc]
                     ELSE demand[d]
    BY DEF CancelWorkOrder, ReleaseBackToPool, PoolInv
  <2>3. QED
    BY <2>1, <2>2 DEF DemandRecords
<1>3. Closed' = Closed \cup {x} /\ x \notin Closed
  BY <1>1 DEF Closed
<1>4. PoolInv'
  <2> SUFFICES ASSUME NEW d \in Demands
               PROVE  /\ ~demand'[d].deleted
                      /\ demand'[d].target = NoDoc <=> demand'[d].status \in {"None", "Pending"}
                      /\ demand'[d].target # NoDoc =>
                           /\ doc'[demand'[d].target].state # "Unused"
                           /\ demand'[d].target \notin Closed'
    BY DEF PoolInv
  <2>1. CASE demand[d].target = x
    BY <1>2, <2>1 DEF PoolInv
  <2>2. CASE demand[d].target # x
    <3>1. demand[d].target \in Docs \cup {NoDoc}
      BY DEF TypeOK
    <3>2. QED
      BY <1>1, <1>2, <1>3, <2>2, <3>1 DEF PoolInv
  <2>3. QED
    BY <2>1, <2>2
<1>5. Waiting' = Waiting \cup Held[x]
  BY <1>2, HeldIs DEF Waiting
<1>6. Held' = [Held EXCEPT ![x] = {}]
  <2>1. NoDoc # x
    BY ConstantsAssumption
  <2>2. Held'[x] = {}
    BY <1>2, <2>1, HeldIs
  <2>3. ASSUME NEW y \in Docs \ {x} PROVE Held'[y] = Held[y]
    <3>1. \A d \in Demands : demand'[d].target = y <=> demand[d].target = y
      BY <1>2, ConstantsAssumption
    <3>2. QED
      BY ZenonT(40), <3>1, HeldIs
  <2>4. QED
    BY <2>2, <2>3 DEF Held
<1>7. Pool!Close(x)
  BY <1>3, <1>5, <1>6 DEF Pool!Close
<1>8. QED
  BY <1>4, <1>7 DEF Pooled, Pool!Next

LEMMA PoolStep ==
  ASSUME ManualOps \subseteq {"reconcile"}
  PROVE  TypeOK /\ Recorded /\ PoolInv /\ [Next]_vars => Pooled /\ PoolInv'
<1> SUFFICES ASSUME TypeOK, Recorded, PoolInv, [Next]_vars
             PROVE  Pooled /\ PoolInv'
  OBVIOUS
<1>1. CASE UNCHANGED <<demand, doc>>
  BY <1>1, PoolStutter DEF Closed
<1>2. ASSUME NEW c \in Clerks, FinishConfirm(c) PROVE Pooled /\ PoolInv'
  BY <1>1, <1>2, PoolArrives DEF FinishConfirm, supply
<1>3. ASSUME NEW c \in Clerks, FinishManual(c) PROVE Pooled /\ PoolInv'
  BY <1>3 DEF FinishManual
<1>4. CASE CreateWorkOrdersFromDemands
  BY <1>4, WorkOrderSupply, PoolHands
<1>5. CASE CreateOrderFromDemands
  BY <1>5, PurchaseOrderSupply, PoolHands
<1>6. ASSUME NEW x \in Docs, CancelWorkOrder(x) PROVE Pooled /\ PoolInv'
  BY <1>6, PoolCloses
<1>7. ASSUME NEW x \in Docs, CancelPurchaseOrder(x) PROVE Pooled /\ PoolInv'
  <2>1. /\ doc[x].kind = "PurchaseOrder" /\ doc'[x].kind = "PurchaseOrder"
        /\ doc'[x].state = "Cancelled"
        /\ \A y \in Docs \ {x} : doc'[y] = doc[y]
        /\ UNCHANGED demand
    BY <1>7 DEF CancelPurchaseOrder, TypeOK
  <2>2. QED
    BY <2>1, PoolStutter DEF Closed
<1>8. ASSUME NEW w \in Workers, (\E e \in Events : Take(w, e)) \/ Handle(w) \/ LoseStatement(w) \/ Crash(w)
      PROVE  Pooled /\ PoolInv'
  BY <1>1, <1>8, WorkerEffect
<1>9. QED
  BY <1>1, <1>2, <1>3, <1>4, <1>5, <1>6, <1>7, <1>8
     DEF Next, StartConfirm, StartManual, Reconcile, vars, supply

(* Production, purchasing and cancellations together keep the promise of a *)
(* pool, for any number of planners and documents, provided that           *)
(* DemandService stays unreachable, as it is from every route.             *)
THEOREM PoolIsKept ==
  ASSUME ManualOps \subseteq {"reconcile"}
  PROVE  Spec => ImplementsPool
<1>1. Init => Pool!Init /\ PoolInv
  <2> SUFFICES ASSUME Init PROVE Pool!Init /\ PoolInv
    OBVIOUS
  <2>1. /\ \A d \in Demands : /\ demand[d].status = "None"
                              /\ demand[d].target = NoDoc
                              /\ ~demand[d].deleted
        /\ \A x \in Docs : doc[x].state = "Unused"
    BY DEF Init
  <2>2. Waiting = {} /\ Closed = {} /\ Held = [x \in Docs |-> {}]
    BY <2>1, ConstantsAssumption DEF Waiting, Closed, Held
  <2>3. QED
    BY <2>1, <2>2 DEF Pool!Init, PoolInv
<1>2. TypeOK /\ Recorded /\ PoolInv /\ [Next]_vars => Pooled /\ PoolInv'
  BY PoolStep
<1>3. Pooled <=> [Pool!Next]_(Pool!vars)
  BY DEF Pooled
<1>4. QED
  BY <1>1, <1>2, <1>3, TypeInvariance, RecordedInvariant, PTL
     DEF Spec, ImplementsPool, Pool!Spec

(***************************************************************************)
(* What a claim does to the order line it comes from: a line that stock    *)
(* covers in full is left alone, and a claim that was neither withdrawn    *)
(* nor mixed with others is on the plan line before its event is settled.  *)
(*                                                                         *)
(* Both need that nobody calls reconcile_fulfillment_status, which looks   *)
(* the plan lines up with the wrong ids: the theorems say so.              *)
(***************************************************************************)

(***************************************************************************)
(* The office: every step that is not an event worker's, described by what *)
(* the rest of the proof needs of it.                                      *)
(***************************************************************************)
Office ==
  \/ \E c \in Clerks : \/ \E o \in Orders : StartConfirm(c, o)
                       \/ FinishConfirm(c)
                       \/ \E op \in ManualOps \cap Operations, d \in Demands :
                            StartManual(c, op, d)
                       \/ FinishManual(c)
  \/ CreateWorkOrdersFromDemands
  \/ CreateOrderFromDemands
  \/ \E x \in Docs : CancelWorkOrder(x) \/ CancelPurchaseOrder(x)
  \/ UNCHANGED vars

(* A demand that was never created has no document *)
TargetsKnown ==
  \A d \in Demands : demand[d].status = "None" => demand[d].target = NoDoc

(* An event is left alone or newly published, with no attempt made, for a  *)
(* demand that exists; a DemandConfirmed names its document                *)
Published(e) ==
  \/ event'[e] = event[e]
  \/ /\ event[e].state = "None"
     /\ event'[e].state = "Queued"
     /\ event'[e].retries = 0 /\ event'[e].lost = 0
     /\ demand[e[2]].status # "None"
     /\ e[1] = "Confirmed" => event'[e].doc # NoDoc

(* A line is left alone or planned for the first time *)
Planned(l) ==
  \/ plan'[l] = plan[l] /\ line'[l] = line[l]
  \/ /\ plan[l].status = "None"
     /\ plan'[l].status = "Allocated" => line'[l].status = "Allocated"

(* A demand that does not exist is left alone or created with its line's   *)
(* first plan, and then the line was short                                 *)
Created(d) ==
  demand[d].status = "None" =>
    /\ demand'[d].target = NoDoc
    /\ \/ demand'[d].status = "None"
       \/ plan[d[1]].status = "None" /\ plan'[d[1]].status # "Allocated"

OfficeEffects ==
  /\ UNCHANGED job
  /\ \A e \in Events : Published(e)
  /\ \A l \in Lines : Planned(l)
  /\ \A d \in Demands : Created(d)

LEMMA PublishedBy ==
  ASSUME NEW kind, NEW ds \in SUBSET Demands, NEW docOf \in [ds -> Docs \cup {NoDoc}],
         Publish(kind, ds, docOf),
         \A d \in ds : demand[d].status # "None",
         kind = "Confirmed" => \A d \in ds : docOf[d] # NoDoc
  PROVE  \A e \in Events : Published(e)
BY DEF Publish, Published

LEMMA OfficeQuiet ==
  ASSUME TargetsKnown, UNCHANGED <<job, event, plan, line, demand>>
  PROVE  OfficeEffects
BY DEF OfficeEffects, Published, Planned, Created, TargetsKnown

LEMMA OfficeSupplies ==
  ASSUME TypeOK, TargetsKnown,
         NEW ds \in SUBSET Demands, NEW kind, NEW docOf \in [ds -> Docs],
         \A d \in ds : demand[d].status = "Pending",
         Supply(ds, kind, docOf)
  PROVE  OfficeEffects
<1>1. /\ Publish("Confirmed", ds, docOf)
      /\ UNCHANGED <<job, plan, line>>
      /\ \A d \in Demands \ ds : demand'[d] = demand[d]
  BY DEF Supply, sales, staff
<1>2. \A e \in Events : Published(e)
  <2>1. /\ docOf \in [ds -> Docs \cup {NoDoc}]
        /\ \A d \in ds : docOf[d] # NoDoc
    BY ConstantsAssumption
  <2>2. QED
    BY <1>1, <2>1, PublishedBy
<1>3. \A l \in Lines : Planned(l)
  BY <1>1 DEF Planned
<1>4. \A d \in Demands : Created(d)
  BY <1>1 DEF Created, TargetsKnown
<1>5. QED
  BY <1>1, <1>2, <1>3, <1>4 DEF OfficeEffects

LEMMA OfficeReleases ==
  ASSUME TypeOK, TargetsKnown, NEW x \in Docs, CancelWorkOrder(x)
  PROVE  OfficeEffects
<1> DEFINE ds == {d \in Demands : demand[d].target = x /\ ~demand[d].deleted}
           docOf == [d \in ds |-> x]
<1>1. /\ Publish("Released", ds, docOf)
      /\ UNCHANGED <<job, plan, line>>
      /\ \A d \in Demands \ ds : demand'[d] = demand[d]
  BY DEF CancelWorkOrder, ReleaseBackToPool, sales, staff
<1>2. \A d \in ds : demand[d].status # "None"
  BY ConstantsAssumption DEF TargetsKnown
<1>3. ds \in SUBSET Demands /\ docOf \in [ds -> Docs \cup {NoDoc}]
  OBVIOUS
<1> HIDE DEF ds, docOf
<1>4. \A e \in Events : Published(e)
  BY <1>1, <1>2, <1>3, PublishedBy
<1>5. \A l \in Lines : Planned(l)
  BY <1>1 DEF Planned
<1>6. \A d \in Demands : Created(d)
  BY <1>1, <1>2 DEF Created, TargetsKnown
<1>7. QED
  BY <1>1, <1>4, <1>5, <1>6 DEF OfficeEffects

LEMMA OfficeDecides ==
  ASSUME TypeOK, TargetsKnown, RequestsKnown, NEW c \in Clerks, FinishManual(c)
  PROVE  OfficeEffects
<1>1. PICK op \in ManualOps, d \in Demands :
        /\ desk[c] = <<op, d>>
        /\ op \in Operations
        /\ \A f \in Demands \ {d} : demand'[f] = demand[f]
        /\ UNCHANGED <<plan, line, job>>
        /\ \/ \E x \in Docs : Publish("Confirmed", {d}, [e \in {d} |-> x])
           \/ Publish("Rejected", {d}, [e \in {d} |-> NoDoc])
           \/ UNCHANGED event
  <2>1. PICK op \in ManualOps, d \in Demands :
          /\ desk[c] = <<op, d>>
          /\ \/ /\ op = "confirm"
                /\ \E x \in {y \in Docs : doc[y].state = "Open"} :
                     /\ demand' = [demand EXCEPT ![d].status = "Confirmed",
                                                 ![d].target = x]
                     /\ Publish("Confirmed", {d}, [e \in {d} |-> x])
             \/ /\ op = "reject"
                /\ demand' = [demand EXCEPT ![d].status = "Rejected"]
                /\ Publish("Rejected", {d}, [e \in {d} |-> NoDoc])
             \/ /\ op = "fulfill"
                /\ demand' = [demand EXCEPT ![d].status = "Fulfilled"]
                /\ UNCHANGED event
             \/ /\ op = "cancel"
                /\ demand' = [demand EXCEPT ![d].deleted = TRUE]
                /\ UNCHANGED event
          /\ UNCHANGED <<sales, job>>
    BY DEF FinishManual
  <2>2. op \in Operations /\ UNCHANGED <<plan, line, job>>
    BY <2>1 DEF Operations, sales
  <2>3. \A f \in Demands \ {d} : demand'[f] = demand[f]
    <3>1. demand \in [Demands -> DemandRecords]
      BY DEF TypeOK, DemandRecords
    <3>2. QED
      BY <2>1, <3>1
  <2>4. QED
    BY <2>1, <2>2, <2>3
<1>2. demand[d].status # "None"
  BY <1>1 DEF RequestsKnown
<1>3. \A e \in Events : Published(e)
  <2>1. ASSUME NEW kind, NEW x \in Docs \cup {NoDoc},
               kind = "Confirmed" => x # NoDoc,
               Publish(kind, {d}, [e \in {d} |-> x])
        PROVE  \A e \in Events : Published(e)
    <3> DEFINE docOf == [e \in {d} |-> x]
    <3>1. docOf \in [{d} -> Docs \cup {NoDoc}] /\ docOf[d] = x
      OBVIOUS
    <3>2. Publish(kind, {d}, docOf)
      BY <2>1
    <3> HIDE DEF docOf
    <3>3. QED
      BY <1>2, <2>1, <3>1, <3>2, PublishedBy
  <2>2. CASE \E x \in Docs : Publish("Confirmed", {d}, [e \in {d} |-> x])
    BY <2>1, <2>2, ConstantsAssumption
  <2>3. CASE Publish("Rejected", {d}, [e \in {d} |-> NoDoc])
    BY <2>1, <2>3
  <2>4. CASE UNCHANGED event
    BY <2>4 DEF Published
  <2>5. QED
    BY <1>1, <2>2, <2>3, <2>4
<1>4. \A l \in Lines : Planned(l)
  BY <1>1 DEF Planned
<1>5. \A f \in Demands : Created(f)
  BY <1>1, <1>2 DEF Created, TargetsKnown
<1>6. QED
  BY <1>1, <1>3, <1>4, <1>5 DEF OfficeEffects

LEMMA OfficeConfirms ==
  ASSUME TypeOK, TargetsKnown, Recorded, NEW c \in Clerks, NEW o \in Orders,
         FreshPlan(o), Confirm(c, o)
  PROVE  OfficeEffects
<1>1. PICK short \in SUBSET {l \in LinesOf(o) : Channel(Own(l)) # "NonInventory"},
           covered \in SUBSET {d \in Demands : d[2] \in Bom[ProductOf[d[1]]]},
           created \in BOOLEAN :
        /\ line' = [l \in Lines |->
             IF OrderOf[l] = o
             THEN [status |-> [k \in Lines |-> IF k \in short THEN "Pending"
                                               ELSE "Allocated"][l],
                   version |-> line[l].version + 1]
             ELSE line[l]]
        /\ plan' = [l \in Lines |->
             IF OrderOf[l] = o
             THEN [status |-> [k \in Lines |-> IF k \in short THEN "Pending"
                                               ELSE "Allocated"][l],
                   version |-> 1, doc |-> NoDoc]
             ELSE plan[l]]
        /\ demand' = IF created
                     THEN CreateFromOrder(LinesOf(o), short, covered)
                     ELSE demand
        /\ UNCHANGED <<event, job>>
  BY DEF Confirm
<1>2. \A l \in LinesOf(o) : l \in Lines /\ OrderOf[l] = o /\ plan[l].status = "None"
  BY DEF FreshPlan, LinesOf
<1>3. \A l \in Lines :
        IF OrderOf[l] = o
        THEN /\ plan'[l].status = IF l \in short THEN "Pending" ELSE "Allocated"
             /\ line'[l].status = plan'[l].status
        ELSE plan'[l] = plan[l] /\ line'[l] = line[l]
  BY <1>1
<1>4. \A l \in Lines : Planned(l)
  BY <1>2, <1>3 DEF Planned, LinesOf
<1>5. ASSUME NEW d \in Demands
      PROVE  \/ demand'[d] = demand[d]
             \/ d[1] \in short /\ demand'[d].target = NoDoc
  <2>1. CASE created
    <3>1. demand' = CreateFromOrder(LinesOf(o), short, covered)
      BY <1>1, <2>1
    <3>2. QED
      BY <3>1 DEF CreateFromOrder
  <2>2. CASE ~created
    BY <1>1, <2>2
  <2>3. QED
    BY <2>1, <2>2
<1>6. ASSUME NEW d \in Demands PROVE Created(d)
  <2>1. CASE demand'[d] = demand[d]
    BY <2>1 DEF Created, TargetsKnown
  <2>2. CASE d[1] \in short /\ demand'[d].target = NoDoc
    BY <1>2, <1>3, <2>2 DEF Created
  <2>3. QED
    BY <1>5, <2>1, <2>2
<1>7. QED
  BY <1>1, <1>4, <1>6 DEF OfficeEffects, Published

LEMMA OfficeStep ==
  ASSUME TypeOK, TargetsKnown, RequestsKnown, Recorded, Office
  PROVE  OfficeEffects
<1>1. CASE UNCHANGED <<job, event, plan, line, demand>>
  BY <1>1, OfficeQuiet
<1>2. ASSUME NEW c \in Clerks, FinishConfirm(c) PROVE OfficeEffects
  <2>1. PICK o \in Orders :
          \/ FreshPlan(o) /\ Confirm(c, o)
          \/ UNCHANGED <<job, event, plan, line, demand>>
    BY <1>2 DEF FinishConfirm, sales, supply
  <2>2. QED
    BY <1>1, <2>1, OfficeConfirms
<1>3. ASSUME NEW c \in Clerks, FinishManual(c) PROVE OfficeEffects
  BY <1>3, OfficeDecides
<1>4. CASE CreateWorkOrdersFromDemands
  BY <1>4, WorkOrderSupply, OfficeSupplies
<1>5. CASE CreateOrderFromDemands
  BY <1>5, PurchaseOrderSupply, OfficeSupplies
<1>6. ASSUME NEW x \in Docs, CancelWorkOrder(x) PROVE OfficeEffects
  BY <1>6, OfficeReleases
<1>7. CASE \/ \E c \in Clerks, o \in Orders : StartConfirm(c, o)
           \/ \E c \in Clerks, op \in ManualOps \cap Operations, d \in Demands :
                StartManual(c, op, d)
           \/ \E x \in Docs : CancelPurchaseOrder(x)
           \/ UNCHANGED vars
  BY <1>1, <1>7
     DEF StartConfirm, StartManual, CancelPurchaseOrder, sales, supply,
         staff, vars
<1>8. QED
  BY <1>2, <1>3, <1>4, <1>5, <1>6, <1>7 DEF Office

(***************************************************************************)
(* The event workers                                                       *)
(***************************************************************************)
HandledLine(w) == job[w].event[2][1]

(* What a worker's step leaves alone: other events, jobs and lines, and    *)
(* every demand; it works on its event until it frees itself, and never    *)
(* calls a line Allocated                                                  *)
WorkerFrame(w) ==
  /\ job[w] # Free /\ job[w].event \in Events
  /\ UNCHANGED <<demand, doc>>
  /\ \A e \in Events \ {job[w].event} : event'[e] = event[e]
  /\ event'[job[w].event].state # "None"
  /\ event'[job[w].event].doc = event[job[w].event].doc
  /\ \A v \in Workers \ {w} : job'[v] = job[v]
  /\ \A l \in Lines \ {HandledLine(w)} : plan'[l] = plan[l] /\ line'[l] = line[l]
  /\ \A l \in Lines : plan'[l].status \in {plan[l].status} \cup
                         {"Pending", "Producing", "Purchasing"}
  /\ job'[w] # Free =>
       job'[w].event = job[w].event /\ event'[job[w].event] = event[job[w].event]

(* The attempt ended and left the plan line as it was: the server died, a   *)
(* statement was lost, or one of the two version checks failed             *)
Ends(w) ==
  LET f == job[w].event
      l == HandledLine(w)
  IN /\ job'[w] = Free
     /\ plan'[l] = plan[l]
     /\ \/ /\ event'[f].state = "Queued"
           /\ event'[f].retries = event[f].retries /\ event'[f].lost = event[f].lost
        \/ /\ event'[f].lost = event[f].lost + 1
           /\ \/ /\ event'[f].state = "Queued"
                 /\ event'[f].retries = event[f].retries + 1
              \/ event'[f].state = "Dead" /\ event[f].retries + 1 >= MaxRetries
        \/ job[w].step = "plan" /\ plan[l].version # job[w].version
        \/ job[w].step = "line"

(* And what it does to the plan line, statement by statement *)
WorkerEffects(w) ==
  LET f == job[w].event
      l == HandledLine(w)
  IN /\ WorkerFrame(w)
     /\ \/ Ends(w)
        \/ /\ job'[w] # Free /\ job'[w].step = "plan"
           /\ plan'[l] = plan[l] /\ job'[w].version = plan[l].version
        \/ /\ job'[w] # Free /\ job'[w].step = AfterPlan(f)
           /\ plan'[l].status = Outcome(f) /\ plan'[l].doc = plan[l].doc
        \/ /\ job[w].step = "doc"
           /\ job'[w] # Free /\ job'[w].step = "line"
           /\ plan'[l].status = plan[l].status /\ plan'[l].doc = event[f].doc

(* A job is of an event that is Running, and it is the only one of it *)
JobsRun ==
  \A w \in Workers : job[w] # Free =>
    /\ event[job[w].event].state = "Running"
    /\ \A v \in Workers : job[v] # Free /\ job[v].event = job[w].event => v = w

LEMMA TypesUnfolded ==
  ASSUME TypeOK
  PROVE  /\ event \in [Events -> EventRecords]
         /\ plan \in [Lines -> PlanRecords]
         /\ line \in [Lines -> LineRecords]
         /\ job \in [Workers -> {Free} \cup JobRecords]
BY DEF TypeOK, EventRecords, PlanRecords, LineRecords, JobRecords

(* A worker with a job is told apart from one without by the record, so    *)
(* the event it names is an event *)
LEMMA JobTypes ==
  ASSUME TypeOK, NEW w \in Workers, job[w] # Free
  PROVE  /\ job[w] \in JobRecords
         /\ job[w].event \in Events /\ HandledLine(w) \in Lines
<1>1. job[w] \in JobRecords
  BY TypesUnfolded
<1>2. job[w].event \in Events
  BY <1>1 DEF JobRecords
<1>3. QED
  BY <1>1, <1>2, EventTypes DEF HandledLine

LEMMA FailEffect ==
  ASSUME TypeOK, NEW w \in Workers, job[w] # Free, NEW n \in Nat, Fail(w, n)
  PROVE  /\ \A e \in Events \ {job[w].event} : event'[e] = event[e]
         /\ \/ /\ event'[job[w].event].state = "Queued"
               /\ event'[job[w].event].retries = event[job[w].event].retries + 1
            \/ /\ event'[job[w].event].state = "Dead"
               /\ event[job[w].event].retries + 1 >= MaxRetries
         /\ event'[job[w].event].lost = event[job[w].event].lost + n
         /\ event'[job[w].event].doc = event[job[w].event].doc
         /\ job'[w] = Free
         /\ \A v \in Workers \ {w} : job'[v] = job[v]
BY JobTypes, TypesUnfolded DEF Fail

(* A step that moves a job on leaves a job *)
LEMMA JobMovesTo ==
  ASSUME TypeOK, NEW w \in Workers, job[w] # Free, NEW s \in Steps,
         job' = [job EXCEPT ![w].step = s]
  PROVE  /\ job'[w] # Free
         /\ job'[w].event = job[w].event /\ job'[w].step = s
         /\ \A v \in Workers \ {w} : job'[v] = job[v]
<1>1. job[w] \in JobRecords
  BY JobTypes
<1>2. job'[w] = [job[w] EXCEPT !.step = s]
  BY TypesUnfolded
<1>3. [job[w] EXCEPT !.step = s] \in JobRecords
  BY <1>1 DEF JobRecords
<1>4. job'[w] # Free
  BY <1>2, <1>3, FreeAssumption DEF JobRecords
<1>5. job'[w].event = job[w].event /\ job'[w].step = s
  BY <1>1, <1>2 DEF JobRecords
<1>6. QED
  BY <1>4, <1>5, TypesUnfolded

LEMMA ReadEffect ==
  ASSUME TypeOK, JobsRun, NEW w \in Workers, ReadPlan(w)
  PROVE  WorkerEffects(w)
<1>1. /\ job[w] # Free /\ UNCHANGED <<plan, line, demand, doc, event>>
      /\ job' = [job EXCEPT ![w].step = "plan",
                            ![w].version = plan[HandledLine(w)].version]
  BY DEF ReadPlan, Working, sales, supply, HandledLine
<1>2. job[w].event \in Events /\ HandledLine(w) \in Lines /\ job[w] \in JobRecords
  BY <1>1, JobTypes
<1> DEFINE n == plan[HandledLine(w)].version
<1>3. n \in Nat /\ "plan" \in Steps
  BY <1>2, TypesUnfolded DEF PlanRecords, Steps
<1>4. job'[w] = [[job[w] EXCEPT !.step = "plan"] EXCEPT !.version = n]
  BY <1>1, TypesUnfolded
<1> HIDE DEF n
<1>5. /\ job'[w].event = job[w].event /\ job'[w].step = "plan"
      /\ job'[w].version = n
      /\ job'[w] # Free
  <2> DEFINE r == [job[w] EXCEPT !.step = "plan"]
  <2>1. r \in JobRecords /\ r.event = job[w].event /\ r.step = "plan"
    BY <1>2, <1>3 DEF JobRecords
  <2>2. job'[w] = [r EXCEPT !.version = n]
    BY <1>4
  <2> HIDE DEF r
  <2>3. [r EXCEPT !.version = n] \in JobRecords
    BY <1>3, <2>1 DEF JobRecords
  <2>4. job'[w] # Free
    BY <2>2, <2>3, FreeAssumption DEF JobRecords
  <2>5. QED
    BY <2>1, <2>2, <2>4 DEF JobRecords
<1>6. \A v \in Workers \ {w} : job'[v] = job[v]
  BY <1>1, TypesUnfolded
<1>7. QED
  BY <1>1, <1>2, <1>5, <1>6 DEF n, WorkerEffects, WorkerFrame, JobsRun

(* A handler that gives up *)
LEMMA GiveUpEffect ==
  ASSUME TypeOK, NEW w \in Workers, job[w] # Free, NEW n \in {0, 1}, Fail(w, n),
         UNCHANGED <<plan, line, demand, doc>>,
         \/ n = 1
         \/ job[w].step = "line"
         \/ job[w].step = "plan" /\ plan[HandledLine(w)].version # job[w].version
  PROVE  WorkerEffects(w)
<1>1. job[w].event \in Events /\ HandledLine(w) \in Lines
  BY JobTypes
<1> DEFINE f == job[w].event
<1>2. /\ \A e \in Events \ {f} : event'[e] = event[e]
      /\ \/ event'[f].state = "Queued" /\ event'[f].retries = event[f].retries + 1
         \/ event'[f].state = "Dead" /\ event[f].retries + 1 >= MaxRetries
      /\ event'[f].lost = event[f].lost + n
      /\ event'[f].doc = event[f].doc
      /\ job'[w] = Free
      /\ \A v \in Workers \ {w} : job'[v] = job[v]
  BY FailEffect
<1>3. WorkerFrame(w)
  BY <1>1, <1>2 DEF WorkerFrame
<1>4. Ends(w)
  BY <1>2 DEF Ends
<1>5. QED
  BY <1>3, <1>4 DEF WorkerEffects

LEMMA WritePlanEffect ==
  ASSUME TypeOK, JobsRun, NEW w \in Workers, WritePlan(w)
  PROVE  WorkerEffects(w)
<1> DEFINE f == job[w].event
           l == HandledLine(w)
<1>1. /\ job[w] # Free /\ job[w].step = "plan"
      /\ UNCHANGED <<line, demand, doc>>
      /\ f \in Events /\ l \in Lines
  BY JobTypes DEF WritePlan, Working, supply
<1>2. CASE Fail(w, 0) /\ UNCHANGED plan /\ plan[l].version # job[w].version
  BY <1>1, <1>2, GiveUpEffect
<1>3. CASE /\ plan' = [plan EXCEPT ![l].status = Outcome(f), ![l].version = @ + 1]
           /\ job' = [job EXCEPT ![w].step = AfterPlan(f)]
           /\ UNCHANGED event
  <2>1. AfterPlan(f) \in Steps
    BY DEF AfterPlan, Steps
  <2>2. /\ job'[w] # Free
        /\ job'[w].event = f /\ job'[w].step = AfterPlan(f)
        /\ \A v \in Workers \ {w} : job'[v] = job[v]
    BY <1>1, <1>3, <2>1, JobMovesTo
  <2>3. /\ plan'[l].status = Outcome(f) /\ plan'[l].doc = plan[l].doc
        /\ \A k \in Lines \ {l} : plan'[k] = plan[k]
    BY <1>1, <1>3, TypesUnfolded DEF PlanRecords
  <2>4. Outcome(f) \in {"Pending", "Producing", "Purchasing"}
    BY DEF Outcome, Underway
  <2>5. WorkerFrame(w)
    BY <1>1, <1>3, <2>2, <2>3, <2>4 DEF WorkerFrame, JobsRun
  <2>6. QED
    BY <2>2, <2>3, <2>5 DEF WorkerEffects
<1>4. QED
  BY <1>2, <1>3 DEF WritePlan, HandledLine

LEMMA WriteSourceDocEffect ==
  ASSUME TypeOK, JobsRun, NEW w \in Workers, WriteSourceDoc(w)
  PROVE  WorkerEffects(w)
<1> DEFINE f == job[w].event
           l == HandledLine(w)
<1>1. /\ job[w] # Free /\ job[w].step = "doc"
      /\ UNCHANGED <<line, demand, doc, event>>
      /\ f \in Events /\ l \in Lines
      /\ plan' = [plan EXCEPT ![l].doc = event[f].doc]
      /\ job' = [job EXCEPT ![w].step = "line"]
  BY JobTypes DEF WriteSourceDoc, Working, supply, HandledLine
<1>2. /\ job'[w] # Free /\ job'[w].event = f /\ job'[w].step = "line"
      /\ \A v \in Workers \ {w} : job'[v] = job[v]
  BY <1>1, JobMovesTo DEF Steps
<1>3. /\ plan'[l].status = plan[l].status /\ plan'[l].doc = event[f].doc
      /\ \A k \in Lines \ {l} : plan'[k] = plan[k]
  BY <1>1, TypesUnfolded DEF PlanRecords
<1>4. WorkerFrame(w)
  BY <1>1, <1>2, <1>3 DEF WorkerFrame, JobsRun
<1>5. QED
  BY <1>1, <1>2, <1>3, <1>4 DEF WorkerEffects

LEMMA WriteLineEffect ==
  ASSUME TypeOK, JobsRun, NEW w \in Workers, WriteLine(w)
  PROVE  WorkerEffects(w)
<1> DEFINE f == job[w].event
           l == HandledLine(w)
<1>1. /\ job[w] # Free /\ job[w].step = "line"
      /\ UNCHANGED <<plan, demand, doc>>
      /\ f \in Events /\ l \in Lines
  BY JobTypes DEF WriteLine, Working, supply
<1>2. CASE Fail(w, 0) /\ UNCHANGED line
  BY <1>1, <1>2, GiveUpEffect
<1>3. CASE /\ line' = [line EXCEPT ![l] = [status |-> Outcome(f), version |-> 2]]
           /\ event' = [event EXCEPT ![f].state = "Done"]
           /\ job' = [job EXCEPT ![w] = Free]
  <2>1. /\ \A k \in Lines \ {l} : line'[k] = line[k]
        /\ job'[w] = Free
        /\ \A v \in Workers \ {w} : job'[v] = job[v]
    BY <1>1, <1>3, TypesUnfolded
  <2>2. /\ event'[f].state = "Done" /\ event'[f].doc = event[f].doc
        /\ \A e \in Events \ {f} : event'[e] = event[e]
    BY <1>1, <1>3, TypesUnfolded DEF EventRecords
  <2>3. WorkerFrame(w)
    BY <1>1, <2>1, <2>2 DEF WorkerFrame
  <2>4. QED
    BY <1>1, <2>1, <2>3 DEF WorkerEffects, Ends
<1>4. QED
  BY <1>2, <1>3 DEF WriteLine, HandledLine

LEMMA LoseEffect ==
  ASSUME TypeOK, NEW w \in Workers, LoseStatement(w)
  PROVE  WorkerEffects(w)
BY GiveUpEffect DEF LoseStatement, sales, supply

LEMMA CrashEffect ==
  ASSUME TypeOK, NEW w \in Workers, Crash(w)
  PROVE  WorkerEffects(w)
<1> DEFINE f == job[w].event
<1>1. /\ job[w] # Free /\ f \in Events
      /\ UNCHANGED <<plan, line, demand, doc>>
      /\ event' = [event EXCEPT ![f].state = "Queued"]
      /\ job' = [job EXCEPT ![w] = Free]
  BY JobTypes DEF Crash, sales, supply
<1>2. /\ event'[f].state = "Queued" /\ event'[f].doc = event[f].doc
      /\ event'[f].retries = event[f].retries /\ event'[f].lost = event[f].lost
      /\ \A e \in Events \ {f} : event'[e] = event[e]
  BY <1>1, TypesUnfolded DEF EventRecords
<1>3. job'[w] = Free /\ \A v \in Workers \ {w} : job'[v] = job[v]
  BY <1>1, TypesUnfolded
<1>4. WorkerFrame(w)
  BY <1>1, <1>2, <1>3 DEF WorkerFrame
<1>5. QED
  BY <1>1, <1>2, <1>3, <1>4 DEF WorkerEffects, Ends

LEMMA WorkerStep ==
  ASSUME TypeOK, JobsRun, NEW w \in Workers, Handle(w) \/ LoseStatement(w) \/ Crash(w)
  PROVE  WorkerEffects(w)
BY ReadEffect, WritePlanEffect, WriteSourceDocEffect, WriteLineEffect,
   LoseEffect, CrashEffect DEF Handle

(* Taking an event *)
TakeEffects(w, e) ==
  /\ job[w] = Free /\ event[e].state = "Queued"
  /\ UNCHANGED <<plan, line, demand, doc>>
  /\ event'[e].state = "Running" /\ event'[e].doc = event[e].doc
  /\ event'[e].retries = event[e].retries /\ event'[e].lost = event[e].lost
  /\ \A g \in Events \ {e} : event'[g] = event[g]
  /\ job'[w].event = e /\ job'[w].step = "read"
  /\ \A v \in Workers \ {w} : job'[v] = job[v]

LEMMA TakeStep ==
  ASSUME TypeOK, NEW w \in Workers, NEW e \in Events, Take(w, e)
  PROVE  TakeEffects(w, e)
<1>1. /\ event'[e].state = "Running" /\ event'[e].doc = event[e].doc
      /\ event'[e].retries = event[e].retries /\ event'[e].lost = event[e].lost
      /\ \A g \in Events \ {e} : event'[g] = event[g]
  BY TypesUnfolded DEF Take, EventRecords
<1>2. /\ job'[w] = [event |-> e, step |-> "read", version |-> 0]
      /\ \A v \in Workers \ {w} : job'[v] = job[v]
  BY TypesUnfolded DEF Take
<1>3. QED
  BY <1>1, <1>2 DEF Take, TakeEffects, sales, supply

LEMMA StepKinds ==
  ASSUME "reconcile" \notin ManualOps, [Next]_vars
  PROVE  \/ Office
         \/ \E w \in Workers : \/ \E e \in Events : Take(w, e)
                               \/ Handle(w) \/ LoseStatement(w) \/ Crash(w)
BY DEF Next, Office, Reconcile

(***************************************************************************)
(* An Allocated line                                                       *)
(*                                                                         *)
(* AllocatedStaysAllocated follows because a line that stock covers has no *)
(* demand, hence no event, hence no worker writes it.                      *)
(***************************************************************************)

(* Events are of demands that exist *)
EventsKnown ==
  \A e \in Events : event[e].state # "None" => demand[e[2]].status # "None"

(* A line that stock covers agrees with its plan and has no demand *)
AllocatedAlone ==
  \A l \in Lines : plan[l].status = "Allocated" =>
    /\ line[l].status = "Allocated"
    /\ \A d \in Demands : d[1] = l => demand[d].status = "None"

AllocInv == TargetsKnown /\ EventsKnown /\ JobsRun /\ AllocatedAlone

AllocatedKept ==
  \A l \in Lines : plan[l].status = "Allocated" =>
    plan'[l].status = "Allocated" /\ line'[l].status = "Allocated"

LEMMA AllocByOffice ==
  ASSUME TypeOK, Recorded, AllocInv, OfficeEffects,
         \A d \in Demands : demand[d].status # "None" => demand'[d].status # "None"
  PROVE  AllocInv' /\ AllocatedKept
<1>1. /\ UNCHANGED job
      /\ \A e \in Events : Published(e)
      /\ \A l \in Lines : Planned(l)
      /\ \A d \in Demands : Created(d)
  BY DEF OfficeEffects
<1>2. TargetsKnown'
  BY <1>1 DEF TargetsKnown, Created
<1>3. EventsKnown'
  BY <1>1, EventTypes DEF AllocInv, EventsKnown, Published
<1>4. JobsRun'
  BY <1>1, JobTypes DEF AllocInv, JobsRun, Published
<1>5. ASSUME NEW l \in Lines, plan'[l].status = "Allocated"
      PROVE  /\ line'[l].status = "Allocated"
             /\ \A d \in Demands : d[1] = l => demand'[d].status = "None"
  <2>1. line'[l].status = "Allocated"
    BY <1>1, <1>5 DEF Planned, AllocInv, AllocatedAlone
  <2>2. ASSUME NEW d \in Demands, d[1] = l PROVE demand[d].status = "None"
    <3>1. CASE plan[l].status = "None"
      BY <2>2, <3>1 DEF Recorded, NoDemandUnplanned
    <3>2. CASE plan'[l] = plan[l]
      BY <1>5, <2>2, <3>2 DEF AllocInv, AllocatedAlone
    <3>3. QED
      BY <1>1, <3>1, <3>2 DEF Planned
  <2>3. ASSUME NEW d \in Demands, d[1] = l PROVE demand'[d].status = "None"
    BY <1>1, <1>5, <2>2, <2>3 DEF Created
  <2>4. QED
    BY <2>1, <2>3
<1>6. AllocatedKept
  BY <1>1 DEF AllocatedKept, Planned, AllocInv, AllocatedAlone
<1>7. QED
  BY <1>2, <1>3, <1>4, <1>5, <1>6 DEF AllocInv, AllocatedAlone

LEMMA AllocByWorker ==
  ASSUME TypeOK, AllocInv, NEW w \in Workers, WorkerFrame(w)
  PROVE  AllocInv' /\ AllocatedKept
<1> DEFINE f == job[w].event
           k == HandledLine(w)
<1>1. /\ job[w] # Free /\ f \in Events /\ UNCHANGED demand
      /\ \A e \in Events \ {f} : event'[e] = event[e]
      /\ \A v \in Workers \ {w} : job'[v] = job[v]
      /\ \A l \in Lines \ {k} : plan'[l] = plan[l] /\ line'[l] = line[l]
      /\ \A l \in Lines : plan'[l].status \in {plan[l].status} \cup
                             {"Pending", "Producing", "Purchasing"}
      /\ job'[w] # Free => job'[w].event = f /\ event'[f] = event[f]
  BY DEF WorkerFrame
<1>2. f[2] \in Demands /\ f[2][1] = k /\ k \in Lines
  BY <1>1, EventTypes DEF HandledLine
<1>3. event[f].state = "Running"
  BY <1>1 DEF AllocInv, JobsRun
<1>4. demand[f[2]].status # "None"
  BY <1>1, <1>3 DEF AllocInv, EventsKnown
<1>5. plan[k].status # "Allocated"
  BY <1>2, <1>4 DEF AllocInv, AllocatedAlone
<1>6. plan'[k].status # "Allocated"
  BY <1>1, <1>2, <1>5
<1>7. TargetsKnown'
  BY <1>1 DEF AllocInv, TargetsKnown
<1>8. EventsKnown'
  <2> SUFFICES ASSUME NEW e \in Events, event'[e].state # "None"
               PROVE  demand[e[2]].status # "None"
    BY <1>1 DEF EventsKnown
  <2>1. CASE e = f
    BY <1>4, <2>1
  <2>2. CASE e # f
    BY <1>1, <2>2 DEF AllocInv, EventsKnown
  <2>3. QED
    BY <2>1, <2>2
<1>9. JobsRun'
  <2> SUFFICES ASSUME NEW u \in Workers, job'[u] # Free
               PROVE  /\ event'[job'[u].event].state = "Running"
                      /\ \A v \in Workers :
                           job'[v] # Free /\ job'[v].event = job'[u].event => v = u
    BY DEF JobsRun
  <2>1. ASSUME NEW v \in Workers, job'[v] # Free
        PROVE  job[v] # Free /\ job'[v].event = job[v].event
    BY <1>1, <2>1
  <2>2. job[u] # Free /\ job'[u].event = job[u].event /\ job[u].event \in Events
    BY <2>1, JobTypes
  <2>3. event'[job[u].event] = event[job[u].event]
    <3>1. CASE u = w
      BY <1>1, <3>1
    <3>2. CASE u # w
      <4>1. job[u].event # f
        BY <1>1, <2>2, <3>2 DEF AllocInv, JobsRun
      <4>2. QED
        BY <1>1, <2>2, <4>1
    <3>3. QED
      BY <3>1, <3>2
  <2>4. QED
    BY <2>1, <2>2, <2>3 DEF AllocInv, JobsRun
<1>10. AllocatedAlone'
  BY <1>1, <1>6 DEF AllocInv, AllocatedAlone
<1>11. AllocatedKept
  BY <1>1, <1>5 DEF AllocatedKept, AllocInv, AllocatedAlone
<1>12. QED
  BY <1>7, <1>8, <1>9, <1>10, <1>11 DEF AllocInv

LEMMA AllocByTake ==
  ASSUME TypeOK, TypeOK', AllocInv, NEW w \in Workers, NEW e \in Events,
         TakeEffects(w, e)
  PROVE  AllocInv' /\ AllocatedKept
<1>1. TargetsKnown' /\ AllocatedAlone' /\ AllocatedKept
  BY DEF TakeEffects, AllocInv, TargetsKnown, AllocatedAlone, AllocatedKept
<1>2. EventsKnown'
  BY DEF TakeEffects, AllocInv, EventsKnown
<1>3. JobsRun'
  <2> SUFFICES ASSUME NEW u \in Workers, job'[u] # Free
               PROVE  /\ event'[job'[u].event].state = "Running"
                      /\ \A v \in Workers :
                           job'[v] # Free /\ job'[v].event = job'[u].event => v = u
    BY DEF JobsRun
  <2>1. \A v \in Workers \ {w} :
          job'[v] = job[v] /\
          (job[v] # Free => job[v].event \in Events /\ job[v].event # e)
    BY JobTypes DEF TakeEffects, AllocInv, JobsRun
  <2>2. QED
    BY <2>1 DEF TakeEffects, AllocInv, JobsRun
<1>4. QED
  BY <1>1, <1>2, <1>3 DEF AllocInv

LEMMA AllocStep ==
  ASSUME "reconcile" \notin ManualOps
  PROVE  TypeOK /\ TypeOK' /\ RequestsKnown /\ Recorded /\ AllocInv
         /\ [Next]_vars => AllocInv' /\ AllocatedKept
<1> SUFFICES ASSUME TypeOK, TypeOK', RequestsKnown, Recorded, AllocInv, [Next]_vars
             PROVE  AllocInv' /\ AllocatedKept
  OBVIOUS
<1>1. CASE Office
  <2>1. \A d \in Demands : demand[d].status # "None" => demand'[d].status # "None"
    BY DemandsStay
  <2>2. OfficeEffects
    BY <1>1, OfficeStep DEF AllocInv
  <2>3. QED
    BY <2>1, <2>2, AllocByOffice
<1>2. ASSUME NEW w \in Workers, Handle(w) \/ LoseStatement(w) \/ Crash(w)
      PROVE  AllocInv' /\ AllocatedKept
  <2>1. WorkerFrame(w)
    BY <1>2, WorkerStep DEF AllocInv, WorkerEffects
  <2>2. QED
    BY <2>1, AllocByWorker
<1>3. ASSUME NEW w \in Workers, NEW e \in Events, Take(w, e)
      PROVE  AllocInv' /\ AllocatedKept
  BY <1>3, TakeStep, AllocByTake
<1>4. QED
  BY <1>1, <1>2, <1>3, StepKinds

LEMMA AllocStart == Init => AllocInv
BY EventTypes
   DEF Init, AllocInv, TargetsKnown, EventsKnown, JobsRun, AllocatedAlone

(* A line that stock covered when its order was confirmed stays Allocated, *)
(* in the plan and in the order: no pool, decision, event, retry or crash  *)
(* touches it.                                                             *)
THEOREM AllocatedLinesAreLeft ==
  ASSUME "reconcile" \notin ManualOps
  PROVE  Spec => AllocatedStaysAllocated
<1>1. TypeOK /\ TypeOK' /\ RequestsKnown /\ Recorded /\ AllocInv
      /\ [Next]_vars => AllocInv' /\ AllocatedKept
  BY AllocStep
<1>2. AllocatedKept =>
        \A l \in Lines : plan[l].status = "Allocated" =>
          plan'[l].status = "Allocated" /\ line'[l].status = "Allocated"
  BY DEF AllocatedKept
<1>3. QED
  BY <1>1, <1>2, AllocStart, TypeInvariance, RecordedInvariant, PTL
     DEF Spec, AllocatedStaysAllocated

(***************************************************************************)
(* A claim of its own                                                      *)
(*                                                                         *)
(* As long as the line has no other event, its plan line is written by the *)
(* worker of this one only: the version it has read is still the row's     *)
(* when it writes.  An attempt then fails at the order line, when the plan *)
(* line is as it should be and stays so, or because a statement was lost:  *)
(* until the first of the former, every retry counts a lost statement.     *)
(***************************************************************************)
ClaimOf(d) == <<"Confirmed", d>>

DocsNamed ==
  \A d \in Demands :
    event[ClaimOf(d)].state # "None" => event[ClaimOf(d)].doc # NoDoc

(* An event nobody has published has been tried by nobody *)
Untried ==
  \A d \in Demands : event[ClaimOf(d)].state = "None" =>
    event[ClaimOf(d)].retries = 0 /\ event[ClaimOf(d)].lost = 0

OnPlan(d) ==
  /\ plan[d[1]].status = Underway(Channel(d))
  /\ plan[d[1]].doc = event[ClaimOf(d)].doc

ClaimUnderWay(w, d) ==
  /\ job[w].step = "plan" => job[w].version = plan[d[1]].version
  /\ job[w].step \in {"doc", "line"} => plan[d[1]].status = Underway(Channel(d))
  /\ job[w].step = "line" => plan[d[1]].doc = event[ClaimOf(d)].doc

Delivered(d) ==
  LET e == ClaimOf(d)
  IN \/ OnPlan(d)
     \/ event[e].lost >= MaxRetries
     \/ ~Settled(e) /\ event[e].retries <= event[e].lost

ClaimsHold ==
  \A d \in Demands : OnlyEvent(ClaimOf(d)) =>
    /\ Delivered(d)
    /\ \A w \in Workers :
         job[w] # Free /\ job[w].event = ClaimOf(d) => ClaimUnderWay(w, d)

ClaimsInv == DocsNamed /\ Untried /\ ClaimsHold

LEMMA ClaimTypes ==
  ASSUME NEW d \in Demands
  PROVE  ClaimOf(d) \in Events /\ ClaimOf(d)[1] = "Confirmed"
         /\ ClaimOf(d)[2] = d /\ d[1] \in Lines
BY DemandTypes DEF ClaimOf, Events, Kinds

LEMMA ClaimsByOffice ==
  ASSUME TypeOK, Recorded, AllocInv, ClaimsInv, OfficeEffects
  PROVE  ClaimsInv'
<1>1. /\ UNCHANGED job
      /\ \A e \in Events : Published(e)
      /\ \A l \in Lines : Planned(l)
  BY DEF OfficeEffects
<1>2. DocsNamed' /\ Untried'
  BY <1>1, ClaimTypes DEF ClaimsInv, DocsNamed, Untried, Published
<1>3. ASSUME NEW d \in Demands, OnlyEvent(ClaimOf(d))'
      PROVE  /\ Delivered(d)'
             /\ \A w \in Workers :
                  job'[w] # Free /\ job'[w].event = ClaimOf(d)
                    => ClaimUnderWay(w, d)'
  <2> DEFINE e == ClaimOf(d)
  <2>1. e \in Events /\ e[2] = d /\ d[1] \in Lines
    BY ClaimTypes
  <2>2. OnlyEvent(e)
    BY <1>1, <1>3 DEF OnlyEvent, Published
  <2>3. CASE event'[e] = event[e] /\ event[e].state # "None"
    <3>1. plan[d[1]].status # "None"
      BY <2>1, <2>3 DEF AllocInv, EventsKnown, Recorded, NoDemandUnplanned
    <3>2. plan'[d[1]] = plan[d[1]]
      BY <1>1, <2>1, <3>1 DEF Planned
    <3>3. QED
      BY <1>1, <2>2, <2>3, <3>2
         DEF ClaimsInv, ClaimsHold, Delivered, Settled, OnPlan, ClaimUnderWay
  <2>4. CASE event[e].state = "None"
    <3>1. \A w \in Workers : job[w] # Free => job[w].event # e
      BY <2>4 DEF AllocInv, JobsRun
    <3>2. /\ event'[e].state \in {"None", "Queued"}
          /\ event'[e].retries = 0 /\ event'[e].lost = 0
      BY <1>1, <2>1, <2>4 DEF Published, ClaimsInv, Untried
    <3>3. QED
      BY <1>1, <3>1, <3>2 DEF Delivered, Settled
  <2>5. QED
    BY <1>1, <2>1, <2>3, <2>4 DEF Published
<1>4. QED
  BY <1>2, <1>3 DEF ClaimsInv, ClaimsHold

LEMMA ClaimsByTake ==
  ASSUME TypeOK, AllocInv, ClaimsInv, NEW v \in Workers, NEW g \in Events,
         TakeEffects(v, g)
  PROVE  ClaimsInv'
<1>1. DocsNamed' /\ Untried'
  BY ClaimTypes DEF TakeEffects, ClaimsInv, DocsNamed, Untried
<1>2. ASSUME NEW d \in Demands, OnlyEvent(ClaimOf(d))'
      PROVE  /\ Delivered(d)'
             /\ \A w \in Workers :
                  job'[w] # Free /\ job'[w].event = ClaimOf(d)
                    => ClaimUnderWay(w, d)'
  <2> DEFINE e == ClaimOf(d)
  <2>1. e \in Events
    BY ClaimTypes
  <2>2. OnlyEvent(e)
    BY <1>2 DEF OnlyEvent, TakeEffects
  <2>3. UNCHANGED plan /\ event'[e].doc = event[e].doc
    BY <2>1 DEF TakeEffects
  <2>4. Settled(e)' => Settled(e)
    BY <2>1 DEF Settled, TakeEffects
  <2>5. ASSUME NEW w \in Workers, job'[w] # Free, job'[w].event = e
        PROVE  ClaimUnderWay(w, d)'
    <3>1. CASE w = v
      BY <3>1 DEF TakeEffects, ClaimUnderWay
    <3>2. CASE w # v
      <4>1. job'[w] = job[w]
        BY <3>2 DEF TakeEffects
      <4>2. QED
        BY <2>2, <2>3, <2>5, <4>1 DEF ClaimsInv, ClaimsHold, ClaimUnderWay
    <3>3. QED
      BY <3>1, <3>2
  <2>6. Delivered(d)'
    <3>1. event'[e].retries = event[e].retries /\ event'[e].lost = event[e].lost
      BY <2>1 DEF TakeEffects
    <3>2. QED
      BY <2>2, <2>3, <2>4, <3>1 DEF ClaimsInv, ClaimsHold, Delivered, OnPlan
  <2>7. QED
    BY <2>5, <2>6
<1>3. QED
  BY <1>1, <1>2 DEF ClaimsInv, ClaimsHold

LEMMA ClaimsByWorker ==
  ASSUME TypeOK, AllocInv, ClaimsInv, NEW v \in Workers, WorkerEffects(v)
  PROVE  ClaimsInv'
<1> DEFINE f == job[v].event
           k == HandledLine(v)
<1>1. /\ job[v] # Free /\ f \in Events
      /\ \A e \in Events \ {f} : event'[e] = event[e]
      /\ event'[f].doc = event[f].doc /\ event'[f].state # "None"
      /\ \A w \in Workers \ {v} : job'[w] = job[w]
      /\ \A l \in Lines \ {k} : plan'[l] = plan[l]
      /\ job'[v] # Free => job'[v].event = f /\ event'[f] = event[f]
  BY DEF WorkerEffects, WorkerFrame
<1>2. event[f].state = "Running" /\ f[2][1] = k
  BY <1>1 DEF AllocInv, JobsRun, HandledLine
<1>3. Untried'
  BY <1>1, <1>2, ClaimTypes DEF ClaimsInv, Untried
<1>6. DocsNamed'
  <2> SUFFICES ASSUME NEW d \in Demands, event'[ClaimOf(d)].state # "None"
               PROVE  event'[ClaimOf(d)].doc # NoDoc
    BY DEF DocsNamed
  <2>1. event[ClaimOf(d)].state # "None"
    BY <1>1, <1>2, ClaimTypes
  <2>2. QED
    BY <1>1, <2>1, ClaimTypes DEF ClaimsInv, DocsNamed
<1>4. ASSUME NEW d \in Demands, OnlyEvent(ClaimOf(d))'
      PROVE  /\ Delivered(d)'
             /\ \A w \in Workers :
                  job'[w] # Free /\ job'[w].event = ClaimOf(d)
                    => ClaimUnderWay(w, d)'
  <2> DEFINE e == ClaimOf(d)
  <2>1. e \in Events /\ e[1] = "Confirmed" /\ e[2] = d /\ d[1] \in Lines
    BY ClaimTypes
  <2>2. OnlyEvent(e)
    <3>1. \A g \in Events : event'[g].state = "None" => event[g].state = "None"
      BY <1>1
    <3>2. QED
      BY <1>4, <3>1 DEF OnlyEvent
  <2>3. CASE f = e
    <3>1. k = d[1] /\ OnlyEvent(e)
      BY <1>2, <2>1, <2>2, <2>3
    <3>2. ClaimUnderWay(v, d)
      BY <1>1, <2>2, <2>3 DEF ClaimsInv, ClaimsHold
    <3>3. \A w \in Workers : job'[w] # Free /\ job'[w].event = e => w = v
      BY <1>1, <2>3 DEF AllocInv, JobsRun
    <3>4. AfterPlan(e) = "doc" /\ Outcome(e) = Underway(Channel(d))
      BY <2>1 DEF AfterPlan, Outcome
    <3>8. Delivered(d)
      BY <2>2 DEF ClaimsInv, ClaimsHold
    <3>9. event[e].retries \in Nat /\ event[e].lost \in Nat /\ MaxRetries \in Nat
      BY <2>1, TypesUnfolded, ConstantsAssumption DEF EventRecords
    <3>5. CASE Ends(v)
      <4>1. job'[v] = Free /\ plan'[k] = plan[k] /\ event'[e].doc = event[e].doc
        BY <1>1, <2>3, <3>5 DEF Ends
      <4>2. ASSUME job[v].step = "line" PROVE Delivered(d)'
        BY <2>3, <3>1, <3>2, <4>1, <4>2 DEF Delivered, OnPlan, ClaimUnderWay
      <4>3. ASSUME OnPlan(d) PROVE Delivered(d)'
        BY <3>1, <4>1, <4>3 DEF Delivered, OnPlan
      <4>4. ASSUME job[v].step # "line", ~OnPlan(d) PROVE Delivered(d)'
        <5>1. \/ /\ event'[e].state = "Queued"
                 /\ event'[e].retries = event[e].retries /\ event'[e].lost = event[e].lost
              \/ /\ event'[e].lost = event[e].lost + 1
                 /\ \/ /\ event'[e].state = "Queued"
                       /\ event'[e].retries = event[e].retries + 1
                    \/ event'[e].state = "Dead" /\ event[e].retries + 1 >= MaxRetries
          BY <2>3, <3>1, <3>2, <3>5, <4>4 DEF Ends, ClaimUnderWay
        <5>2. event[e].lost >= MaxRetries \/ event[e].retries <= event[e].lost
          BY <3>8, <4>4 DEF Delivered
        <5>3. QED
          BY <3>9, <5>1, <5>2 DEF Delivered, Settled
      <4>5. QED
        BY <3>3, <4>1, <4>2, <4>3, <4>4
    <3>6. CASE job'[v] # Free
      <4>1. event'[e] = event[e]
        BY <1>1, <2>3, <3>6
      <4>2. ClaimUnderWay(v, d)'
        <5>1. \/ job'[v].step = "plan" /\ job'[v].version = plan'[k].version
              \/ job'[v].step = "doc" /\ plan'[k].status = Outcome(e)
              \/ /\ job[v].step = "doc" /\ job'[v].step = "line"
                 /\ plan'[k].status = plan[k].status
                 /\ plan'[k].doc = event[e].doc
          BY <2>3, <3>4, <3>6 DEF WorkerEffects, Ends
        <5>2. QED
          BY <3>1, <3>2, <3>4, <4>1, <5>1 DEF ClaimUnderWay
      <4>3. OnPlan(d) => OnPlan(d)'
        <5>1. \/ plan'[k] = plan[k]
              \/ plan'[k].status = Outcome(e) /\ plan'[k].doc = plan[k].doc
              \/ plan'[k].status = plan[k].status /\ plan'[k].doc = event[e].doc
          BY <2>3, <3>6 DEF WorkerEffects, Ends
        <5>2. QED
          BY <3>1, <3>4, <4>1, <5>1 DEF OnPlan
      <4>4. Delivered(d)'
        BY <3>8, <4>1, <4>3 DEF Delivered, Settled
      <4>5. QED
        BY <3>3, <4>2, <4>4
    <3>7. QED
      BY <3>5, <3>6 DEF WorkerEffects
  <2>4. CASE f # e
    <3>1. k # d[1]
      BY <1>1, <1>2, <2>1, <2>2, <2>4 DEF OnlyEvent
    <3>2. plan'[d[1]] = plan[d[1]] /\ event'[e] = event[e]
      BY <1>1, <2>1, <2>4, <3>1
    <3>3. \A w \in Workers : job'[w] # Free /\ job'[w].event = e => job'[w] = job[w]
      BY <1>1, <2>4
    <3>4. Delivered(d)'
      BY <2>2, <3>2 DEF ClaimsInv, ClaimsHold, Delivered, Settled, OnPlan
    <3>5. ASSUME NEW w \in Workers, job'[w] # Free, job'[w].event = e
          PROVE  ClaimUnderWay(w, d)'
      BY <2>2, <3>2, <3>3, <3>5 DEF ClaimsInv, ClaimsHold, ClaimUnderWay
    <3>6. QED
      BY <3>4, <3>5
  <2>5. QED
    BY <2>3, <2>4
<1>5. QED
  BY <1>3, <1>4, <1>6 DEF ClaimsInv, ClaimsHold

LEMMA ClaimsStep ==
  ASSUME "reconcile" \notin ManualOps
  PROVE  TypeOK /\ RequestsKnown /\ Recorded /\ AllocInv /\ ClaimsInv
         /\ [Next]_vars => ClaimsInv'
<1> SUFFICES ASSUME TypeOK, RequestsKnown, Recorded, AllocInv, ClaimsInv, [Next]_vars
             PROVE  ClaimsInv'
  OBVIOUS
<1>1. CASE Office
  BY <1>1, OfficeStep, ClaimsByOffice DEF AllocInv
<1>2. ASSUME NEW w \in Workers, Handle(w) \/ LoseStatement(w) \/ Crash(w) PROVE ClaimsInv'
  BY <1>2, WorkerStep, ClaimsByWorker DEF AllocInv
<1>3. ASSUME NEW w \in Workers, NEW e \in Events, Take(w, e) PROVE ClaimsInv'
  BY <1>3, TakeStep, ClaimsByTake
<1>4. QED
  BY <1>1, <1>2, <1>3, StepKinds

(* A claim that is the only event of its line is on the plan line, with    *)
(* the document made for it, by the time its event is done or given up,    *)
(* unless as many attempts as the budget has each lost a statement: for    *)
(* every budget and every number of servers, crashes and lines.            *)
THEOREM ClaimsReachThePlan ==
  ASSUME "reconcile" \notin ManualOps
  PROVE  Spec => []ClaimReachesPlan
<1>1. Init => ClaimsInv
  BY ClaimTypes, EventTypes
     DEF Init, ClaimsInv, DocsNamed, Untried, ClaimsHold, Delivered, Settled
<1>2. TypeOK /\ Recorded /\ ClaimsInv => ClaimReachesPlan
  <2> SUFFICES ASSUME TypeOK, Recorded, ClaimsInv, NEW d \in Demands,
                      Settled(ClaimOf(d)), OnlyEvent(ClaimOf(d)),
                      event[ClaimOf(d)].lost < MaxRetries
               PROVE  /\ plan[d[1]].status = Underway(Channel(d))
                      /\ plan[d[1]].doc # NoDoc
                      /\ d \in doc[plan[d[1]].doc].supplies
    BY DEF ClaimReachesPlan, ClaimOf
  <2>1. OnPlan(d)
    <3>1. event[ClaimOf(d)].lost \in Nat /\ MaxRetries \in Nat
      BY ClaimTypes, TypesUnfolded, ConstantsAssumption DEF EventRecords
    <3>2. QED
      BY <3>1 DEF ClaimsInv, ClaimsHold, Delivered
  <2>2. event[ClaimOf(d)].doc # NoDoc
    BY DEF ClaimsInv, DocsNamed, Settled
  <2>3. d \in doc[event[ClaimOf(d)].doc].supplies
    BY <2>2, ClaimTypes DEF Recorded, SupplyRecorded
  <2>4. QED
    BY <2>1, <2>2, <2>3 DEF OnPlan
<1>3. TypeOK /\ TypeOK' /\ RequestsKnown /\ Recorded /\ AllocInv
      /\ [Next]_vars => AllocInv'
  BY AllocStep
<1>4. TypeOK /\ RequestsKnown /\ Recorded /\ AllocInv /\ ClaimsInv
      /\ [Next]_vars => ClaimsInv'
  BY ClaimsStep
<1>5. QED
  BY <1>1, <1>2, <1>3, <1>4, AllocStart, TypeInvariance, RecordedInvariant, PTL
     DEF Spec
=============================================================================
