--------------------------- MODULE EventBusProofs ---------------------------
(***************************************************************************)
(* Theorems about EventBus, for every set of servers, callers and keys and *)
(* every number of events, handlers, retries, faults and operator calls.   *)
(***************************************************************************)
EXTENDS EventBus, FiniteSetTheorems, TLAPS

(* Claiming keeps the types: used by the three fetches. *)
LEMMA ClaimType ==
  ASSUME TypeOK, NEW w \in Workers, NEW S \in SUBSET Ids,
         NEW source \in {"retryable", "pending"}, Claim(w, S, source)
  PROVE  /\ status' \in [Ids -> Status]
         /\ batch' \in [Workers -> SUBSET Fetched]
<1>1. {[id |-> i, retry |-> retry[i], from |-> source] : i \in S}
        \in SUBSET Fetched
  BY DEF TypeOK, Fetched
<1>2. QED
  BY <1>1 DEF TypeOK, Claim, Status

LEMMA OldestSubset ==
  ASSUME NEW n, NEW S  PROVE Oldest(n, S) \subseteq S
BY DEF Oldest

(* Every variable keeps its type. *)
THEOREM TypeInvariance == Spec => []TypeOK
<1>1. Init => TypeOK
  BY ConstantsAssumption
     DEF Init, TypeOK, Ids, Status, PcStates, Fetched, NoEvent, Handlers
<1>2. TypeOK /\ [Next]_vars => TypeOK'
  <2> SUFFICES ASSUME TypeOK, [Next]_vars PROVE TypeOK'
    OBVIOUS
  <2> USE DEF TypeOK, Goto, table, worker, budget, history
  <2>1. ASSUME NEW k \in Keys, Publish(k) PROVE TypeOK'
    BY <2>1 DEF Publish, Status, vars
  <2>2. ASSUME NEW i \in Ids, Age(i)  PROVE TypeOK'
    BY <2>2 DEF Age, Existing
  <2>3. ASSUME NEW i \in Ids, RetryOne(i) PROVE TypeOK'
    BY <2>3 DEF RetryOne, Status
  <2>4. ASSUME NEW i \in Ids, ArchiveDeadLetters(i) PROVE TypeOK'
    BY <2>4 DEF ArchiveDeadLetters, Status
  <2>5. ASSUME NEW p \in Processors,
               Start(p) \/ Stop(p) \/ Connect(p) \/ ListenFails(p)
        PROVE  TypeOK'
    <3>1. CASE Start(p)
      BY <3>1 DEF Start, ResetStaleProcessing, Status, PcStates, Workers
    <3>2. CASE Stop(p)
      BY <3>2 DEF Stop
    <3>3. CASE Connect(p)
      BY <3>3 DEF Connect, PcStates, Workers
    <3>4. CASE ListenFails(p)
      BY <3>4 DEF ListenFails, PcStates, Workers
    <3>5. QED
      BY <2>5, <3>1, <3>2, <3>3, <3>4
  <2>6. ASSUME NEW p \in Processors, Wake(p) \/ Shutdown(p) PROVE TypeOK'
    BY <2>6 DEF Wake, Shutdown, ResetStaleProcessing, Status, PcStates,
                Workers
  <2>7. ASSUME NEW p \in Processors, FetchRetryable(p) \/ FetchPending(p)
        PROVE  TypeOK'
    <3>1. /\ Oldest(RetryBatch, Retryable) \in SUBSET Ids
          /\ Oldest(FullBatch, InStatus("Pending")) \in SUBSET Ids
      BY OldestSubset DEF Retryable, InStatus
    <3>2. p \in Workers
      BY DEF Workers
    <3>3. /\ status' \in [Ids -> Status]
          /\ batch' \in [Workers -> SUBSET Fetched]
      BY <2>7, <3>1, <3>2, ClaimType DEF FetchRetryable, FetchPending
    <3>4. QED
      BY <2>7, <3>2, <3>3 DEF FetchRetryable, FetchPending, PcStates
  <2>8. ASSUME NEW p \in Processors, FetchFails(p) PROVE TypeOK'
    BY <2>8 DEF FetchFails, AfterBatch, PcStates, Workers
  <2>9. ASSUME NEW c \in Callers, RetryFailed(c) PROVE TypeOK'
    <3>1. Oldest(FullBatch, Retryable) \in SUBSET Ids
      BY OldestSubset DEF Retryable, InStatus
    <3>2. c \in Workers
      BY DEF Workers
    <3>3. /\ status' \in [Ids -> Status]
          /\ batch' \in [Workers -> SUBSET Fetched]
      BY <2>9, <3>1, <3>2, ClaimType DEF RetryFailed
    <3>4. QED
      BY <2>9, <3>2, <3>3 DEF RetryFailed, PcStates
  <2>10. ASSUME NEW w \in Workers, CheckAndMark(w) \/ CheckFails(w)
         PROVE  TypeOK'
    <3>1. 1 \in 1..(NHandlers + 1)
      BY ConstantsAssumption
    <3>2. CASE CheckAndMark(w)
      <4>1. PICK e \in batch[w] :
              /\ batch' = [batch EXCEPT ![w] = @ \ {e}]
              /\ cur' = [cur EXCEPT ![w] = e]
              /\ idem' = [idem EXCEPT ![e.id] =
                            IF @ = "Processed" THEN @ ELSE "Processing"]
              /\ Goto(w, IF idem[e.id] = "Processed" THEN "skip"
                                                     ELSE "dispatch")
        BY <3>2 DEF CheckAndMark
      <4>2. e \in Fetched /\ e.id \in Ids
        BY DEF Fetched
      <4>3. idem' \in [Ids -> {"None", "Processing", "Processed"}]
        BY <4>1, <4>2
      <4>4. pc' \in [Workers -> PcStates]
        BY <4>1 DEF PcStates
      <4>5. /\ batch' \in [Workers -> SUBSET Fetched]
            /\ cur' \in [Workers -> Fetched]
        BY <4>1, <4>2
      <4>6. QED
        BY <3>1, <3>2, <4>3, <4>4, <4>5 DEF CheckAndMark
    <3>3. CASE CheckFails(w)
      <4>1. batch' \in [Workers -> SUBSET Fetched]
        BY <3>3 DEF CheckFails
      <4>2. QED
        BY <3>3, <4>1 DEF CheckFails
    <3>4. QED
      BY <2>10, <3>2, <3>3
  <2>11. ASSUME NEW w \in Workers,
                Skip(w) \/ AckEvent(w) \/ AckRecord(w) \/ MarkFails(w)
         PROVE  TypeOK'
    <3>1. NoEvent \in Fetched /\ 1 \in 1..(NHandlers + 1)
      BY ConstantsAssumption DEF NoEvent, Fetched, Ids
    <3>2. cur[w].id \in Ids
      BY DEF Fetched
    <3>3. QED
      BY <2>11, <3>1, <3>2
         DEF Skip, AckEvent, AckRecord, MarkFails, MarkProcessed, Finish,
             Status, PcStates
  <2>12. ASSUME NEW w \in Workers, HandlerSucceeds(w) \/ HandlerFails(w)
         PROVE  TypeOK'
    <3>1. cur[w].id \in Ids
      BY DEF Fetched
    <3>2. CASE HandlerSucceeds(w)
      <4>1. next[w] + 1 \in 1..(NHandlers + 1)
        BY <3>2, ConstantsAssumption DEF HandlerSucceeds, Handlers
      <4>2. /\ delivered' \in [Ids -> SUBSET Handlers]
            /\ repeated' \in [Ids -> SUBSET Handlers]
        BY <3>1, <3>2 DEF HandlerSucceeds
      <4>3. QED
        BY <3>2, <4>1, <4>2 DEF HandlerSucceeds
    <3>3. CASE HandlerFails(w)
      BY <3>1, <3>3 DEF HandlerFails, PcStates
    <3>4. QED
      BY <2>12, <3>2, <3>3
  <2>13. ASSUME NEW w \in Workers, Nack(w) PROVE TypeOK'
    <3>1. NoEvent \in Fetched /\ 1 \in 1..(NHandlers + 1)
      BY ConstantsAssumption DEF NoEvent, Fetched, Ids
    <3>2. cur[w].id \in Ids
      BY DEF Fetched
    <3>3. QED
      BY <2>13, <3>1, <3>2
         DEF Nack, MarkDeadLetter, MarkFailed, Finish, Status, PcStates
  <2>14. ASSUME NEW w \in Workers, EndBatch(w) \/ Crash(w) PROVE TypeOK'
    <3>1. NoEvent \in Fetched /\ 1 \in 1..(NHandlers + 1)
      BY ConstantsAssumption DEF NoEvent, Fetched, Ids
    <3>2. CASE EndBatch(w)
      BY <3>2 DEF EndBatch, AfterBatch, PcStates
    <3>3. CASE Crash(w)
      <4>1. /\ running' \in [Processors -> BOOLEAN]
            /\ pc' \in [Workers -> PcStates]
        BY <3>3 DEF Crash, PcStates
      <4>2. /\ batch' \in [Workers -> SUBSET Fetched]
            /\ cur' \in [Workers -> Fetched]
            /\ next' \in [Workers -> 1..(NHandlers + 1)]
        BY <3>1, <3>3 DEF Crash
      <4>3. QED
        BY <3>3, <4>1, <4>2 DEF Crash
    <3>4. QED
      BY <2>14, <3>2, <3>3
  <2>15. CASE UNCHANGED vars
    BY <2>15 DEF vars
  <2>16. QED
    BY <2>1, <2>2, <2>3, <2>4, <2>5, <2>6, <2>7, <2>8, <2>9, <2>10, <2>11,
       <2>12, <2>13, <2>14, <2>15
       DEF Next, Task, ProcessSingleEvent, Fault
<1>3. QED
  BY <1>1, <1>2, PTL DEF Spec

(***************************************************************************)
(* NothingAckedUndelivered is not inductive: what a worker may acknowledge *)
(* depends on where it is in its dispatch.  DeliveryInv adds, for every    *)
(* worker, what has been delivered of the event it is at.                  *)
(***************************************************************************)
Progress(w) ==
  /\ pc[w] = "dispatch" => 1..(next[w] - 1) \subseteq delivered[cur[w].id]
  /\ pc[w] \in {"skip", "record"} => delivered[cur[w].id] = Handlers

DeliveryInv ==
  /\ NothingAckedUndelivered
  /\ DeliveredInOrder
  /\ \A w \in Workers : Progress(w)

(* Steps that write neither the handlers' history nor a worker's place,    *)
(* and mark nothing Processed, cannot break it.                            *)
LEMMA Frame ==
  ASSUME TypeOK, DeliveryInv,
         UNCHANGED <<delivered, idem>>,
         \A i \in Ids : status'[i] = "Processed" => status[i] = "Processed",
         \A w \in Workers :
           \/ pc'[w] \notin {"dispatch", "skip", "record"}
           \/ /\ pc'[w] = pc[w]
              /\ next'[w] = next[w]
              /\ cur'[w] = cur[w]
  PROVE  DeliveryInv'
<1>1. NothingAckedUndelivered'
  BY DEF DeliveryInv, NothingAckedUndelivered
<1>2. DeliveredInOrder'
  BY DEF DeliveryInv, DeliveredInOrder
<1>3. ASSUME NEW w \in Workers PROVE Progress(w)'
  BY DEF DeliveryInv, Progress
<1>4. QED
  BY <1>1, <1>2, <1>3 DEF DeliveryInv

LEMMA DeliveryStep == TypeOK /\ TypeOK' /\ DeliveryInv /\ [Next]_vars => DeliveryInv'
<1> SUFFICES ASSUME TypeOK, TypeOK', DeliveryInv, [Next]_vars
             PROVE  DeliveryInv'
  OBVIOUS
<1> USE DEF Goto, table, worker, budget, history
<1>1. ASSUME NEW k \in Keys, Publish(k) PROVE DeliveryInv'
  BY <1>1, Frame DEF Publish, vars, TypeOK
<1>2. ASSUME NEW i \in Ids,
             Age(i)  \/ RetryOne(i) \/ ArchiveDeadLetters(i)
      PROVE  DeliveryInv'
  BY <1>2, Frame DEF Age, RetryOne, ArchiveDeadLetters, TypeOK
<1>3. ASSUME NEW p \in Processors,
             Start(p) \/ Stop(p) \/ Connect(p) \/ ListenFails(p)
      PROVE  DeliveryInv'
  BY <1>3, Frame
     DEF Start, Stop, Connect, ListenFails, ResetStaleProcessing, TypeOK
<1>4. ASSUME NEW p \in Processors, Wake(p) \/ Shutdown(p)
      PROVE  DeliveryInv'
  BY <1>4, Frame DEF Wake, Shutdown, ResetStaleProcessing, TypeOK
<1>5. ASSUME NEW p \in Processors,
             FetchRetryable(p) \/ FetchPending(p) \/ FetchFails(p)
      PROVE  DeliveryInv'
  BY <1>5, Frame
     DEF FetchRetryable, FetchPending, FetchFails, Claim, AfterBatch, TypeOK
<1>6. ASSUME NEW c \in Callers, RetryFailed(c) PROVE DeliveryInv'
  BY <1>6, Frame DEF RetryFailed, Claim, TypeOK
<1>7. ASSUME NEW w \in Workers,
             EndBatch(w) \/ Crash(w) \/ CheckFails(w) \/ MarkFails(w)
      PROVE  DeliveryInv'
  <2>1. CASE EndBatch(w) \/ CheckFails(w)
    BY <2>1, Frame DEF EndBatch, CheckFails, AfterBatch, TypeOK
  <2>2. CASE Crash(w) \/ MarkFails(w)
    BY <2>2, Frame DEF Crash, MarkFails, Finish, TypeOK
  <2>3. QED
    BY <1>7, <2>1, <2>2
<1>8. ASSUME NEW w \in Workers, HandlerFails(w) PROVE DeliveryInv'
  BY <1>8, Frame DEF HandlerFails, TypeOK
<1>9. ASSUME NEW w \in Workers, Nack(w) PROVE DeliveryInv'
  BY <1>9, Frame DEF Nack, MarkDeadLetter, MarkFailed, Finish, TypeOK
<1>10. ASSUME NEW w \in Workers, CheckAndMark(w) PROVE DeliveryInv'
  <2>1. PICK e \in batch[w] :
          /\ cur' = [cur EXCEPT ![w] = e]
          /\ idem' = [idem EXCEPT ![e.id] =
                        IF @ = "Processed" THEN @ ELSE "Processing"]
          /\ Goto(w, IF idem[e.id] = "Processed" THEN "skip"
                                                 ELSE "dispatch")
    BY <1>10 DEF CheckAndMark
  <2>2. e.id \in Ids
    BY DEF TypeOK, Fetched
  <2>3. UNCHANGED <<status, delivered>> /\ next' = [next EXCEPT ![w] = 1]
    BY <1>10 DEF CheckAndMark
  <2>4. \A i \in Ids : idem'[i] = "Processed" => idem[i] = "Processed"
    BY <2>1, <2>2 DEF TypeOK
  <2>5. NothingAckedUndelivered'
    BY <2>3, <2>4 DEF DeliveryInv, NothingAckedUndelivered
  <2>6. DeliveredInOrder'
    BY <2>3 DEF DeliveryInv, DeliveredInOrder
  <2>7. Progress(w)'
    <3>1. cur'[w] = e /\ next'[w] = 1
      BY <2>1, <2>3 DEF TypeOK
    <3>2. CASE idem[e.id] = "Processed"
      BY <2>1, <2>2, <2>3, <3>1, <3>2
         DEF TypeOK, Progress, DeliveryInv, NothingAckedUndelivered
    <3>3. CASE idem[e.id] # "Processed"
      BY <2>1, <2>3, <3>1, <3>3 DEF TypeOK, Progress
    <3>4. QED
      BY <3>2, <3>3
  <2>8. ASSUME NEW v \in Workers \ {w} PROVE Progress(v)'
    <3>1. pc'[v] = pc[v] /\ cur'[v] = cur[v] /\ next'[v] = next[v]
      BY <2>1, <2>3 DEF TypeOK
    <3>2. QED
      BY <2>3, <3>1 DEF DeliveryInv, Progress
  <2>9. QED
    BY <2>5, <2>6, <2>7, <2>8 DEF DeliveryInv
<1>11. ASSUME NEW w \in Workers, HandlerSucceeds(w) PROVE DeliveryInv'
  <2> DEFINE i == cur[w].id
             h == next[w]
  <2>1. /\ i \in Ids
        /\ h \in Handlers
        /\ 1..(h - 1) \subseteq delivered[i]
        /\ delivered' = [delivered EXCEPT ![i] = @ \cup {h}]
        /\ next' = [next EXCEPT ![w] = h + 1]
        /\ UNCHANGED <<status, idem, pc, cur>>
    BY <1>11 DEF HandlerSucceeds, TypeOK, Fetched, DeliveryInv, Progress
  <2>2. /\ \A j \in Ids : delivered[j] \subseteq delivered'[j]
        /\ delivered'[i] = delivered[i] \cup {h}
        /\ \A j \in Ids \ {i} : delivered'[j] = delivered[j]
    BY <2>1 DEF TypeOK
  <2>3. \A j \in Ids : delivered[j] = Handlers => delivered'[j] = Handlers
    BY <2>2 DEF TypeOK
  <2>4. NothingAckedUndelivered'
    BY <2>1, <2>3 DEF DeliveryInv, NothingAckedUndelivered
  <2>5. 1..h \subseteq delivered'[i]
    BY <2>1, <2>2, ConstantsAssumption DEF Handlers
  <2>6. DeliveredInOrder'
    <3> SUFFICES ASSUME NEW j \in Ids, NEW g \in delivered'[j]
                 PROVE  1..g \subseteq delivered'[j]
      BY DEF DeliveredInOrder
    <3>1. CASE g \in delivered[j]
      BY <2>2, <3>1 DEF DeliveryInv, DeliveredInOrder
    <3>2. CASE g \notin delivered[j]
      BY <2>2, <2>5, <3>2
    <3>3. QED
      BY <3>1, <3>2
  <2>7. Progress(w)'
    <3>1. next'[w] = h + 1 /\ pc'[w] = "dispatch" /\ cur'[w].id = i
      BY <1>11, <2>1 DEF HandlerSucceeds, TypeOK
    <3>2. (h + 1) - 1 = h
      BY <2>1, ConstantsAssumption DEF Handlers
    <3>3. QED
      BY <2>5, <3>1, <3>2 DEF Progress
  <2>8. ASSUME NEW v \in Workers \ {w} PROVE Progress(v)'
    <3>1. pc'[v] = pc[v] /\ cur'[v] = cur[v] /\ next'[v] = next[v]
      BY <2>1 DEF TypeOK
    <3>2. cur[v].id \in Ids
      BY DEF TypeOK, Fetched
    <3>3. QED
      BY <2>2, <2>3, <3>1, <3>2 DEF DeliveryInv, Progress
  <2>9. QED
    BY <2>4, <2>6, <2>7, <2>8 DEF DeliveryInv
<1>12. ASSUME NEW w \in Workers, AckEvent(w) PROVE DeliveryInv'
  <2>1. /\ pc[w] = "dispatch"
        /\ next[w] \notin Handlers
        /\ cur[w].id \in Ids
        /\ UNCHANGED <<idem, delivered, cur, next>>
        /\ pc' = [pc EXCEPT ![w] = "record"]
    BY <1>12 DEF AckEvent, TypeOK, Fetched
  <2>2. next[w] = NHandlers + 1
    <3>1. next[w] \in 1..(NHandlers + 1) /\ NHandlers \in Nat
      BY ConstantsAssumption DEF TypeOK
    <3>2. next[w] \notin 1..NHandlers
      BY <2>1 DEF Handlers
    <3>3. QED
      BY <3>1, <3>2
  <2>3. delivered[cur[w].id] = Handlers
    <3>1. (NHandlers + 1) - 1 = NHandlers
      BY ConstantsAssumption
    <3>2. QED
      BY <2>1, <2>2, <3>1 DEF DeliveryInv, Progress, TypeOK, Handlers
  <2>4. \A i \in Ids :
          status'[i] = "Processed" => status[i] = "Processed" \/ i = cur[w].id
    BY <1>12 DEF AckEvent, MarkProcessed, TypeOK
  <2>5. NothingAckedUndelivered'
    BY <2>1, <2>3, <2>4 DEF DeliveryInv, NothingAckedUndelivered
  <2>6. DeliveredInOrder'
    BY <2>1 DEF DeliveryInv, DeliveredInOrder
  <2>7. ASSUME NEW v \in Workers PROVE Progress(v)'
    BY <2>1, <2>3 DEF DeliveryInv, Progress, TypeOK
  <2>8. QED
    BY <2>5, <2>6, <2>7 DEF DeliveryInv
<1>13. ASSUME NEW w \in Workers, Skip(w) \/ AckRecord(w) PROVE DeliveryInv'
  <2>1. /\ delivered[cur[w].id] = Handlers
        /\ cur[w].id \in Ids
    BY <1>13 DEF Skip, AckRecord, DeliveryInv, Progress, TypeOK, Fetched
  <2>2. /\ UNCHANGED delivered
        /\ pc' = [pc EXCEPT ![w] = "next"]
        /\ cur' = [cur EXCEPT ![w] = NoEvent]
        /\ next' = [next EXCEPT ![w] = 1]
    BY <1>13 DEF Skip, AckRecord, Finish
  <2>3. \A i \in Ids :
          status'[i] = "Processed" => status[i] = "Processed" \/ i = cur[w].id
    BY <1>13 DEF Skip, AckRecord, MarkProcessed, TypeOK
  <2>4. \A i \in Ids :
          idem'[i] = "Processed" => idem[i] = "Processed" \/ i = cur[w].id
    BY <1>13 DEF Skip, AckRecord, TypeOK
  <2>5. NothingAckedUndelivered'
    BY <2>1, <2>2, <2>3, <2>4 DEF DeliveryInv, NothingAckedUndelivered
  <2>6. DeliveredInOrder'
    BY <2>2 DEF DeliveryInv, DeliveredInOrder
  <2>7. ASSUME NEW v \in Workers PROVE Progress(v)'
    BY <2>2 DEF DeliveryInv, Progress, TypeOK
  <2>8. QED
    BY <2>5, <2>6, <2>7 DEF DeliveryInv
<1>14. CASE UNCHANGED vars
  BY <1>14, Frame DEF vars
<1>15. QED
  BY <1>1, <1>2, <1>3, <1>4, <1>5, <1>6, <1>7, <1>8, <1>9, <1>10, <1>11,
     <1>12, <1>13, <1>14
     DEF Next, Task, ProcessSingleEvent, Fault

LEMMA DeliveryStart == Init => DeliveryInv
  BY DEF Init, DeliveryInv, NothingAckedUndelivered, DeliveredInOrder,
         Progress

(* No event is acknowledged before all its handlers have succeeded,        *)
(* whatever crashes, competing servers and operators do.                   *)
THEOREM AckedAfterDelivery == Spec => []NothingAckedUndelivered
<1>1. DeliveryInv => NothingAckedUndelivered
  BY DEF DeliveryInv
<1>2. QED
  BY <1>1, DeliveryStart, TypeInvariance, DeliveryStep, PTL DEF Spec

(* A handler has succeeded on an event only if those registered before it  *)
(* have too.                                                               *)
THEOREM DeliveryInOrder == Spec => []DeliveredInOrder
<1>1. DeliveryInv => DeliveredInOrder
  BY DEF DeliveryInv
<1>2. QED
  BY <1>1, DeliveryStart, TypeInvariance, DeliveryStep, PTL DEF Spec

(***************************************************************************)
(* The decision to give up is taken on a retry_count that may be stale, so *)
(* that DeadLetterEarned rests on what every copy of the count is worth:   *)
(* the row never counts more failures than there were, less those that a   *)
(* worker has yet to write down, and what a worker remembers is no more    *)
(* than has failed, its own unrecorded failure included.                   *)
(***************************************************************************)
NackAt(i) == {w \in Workers : pc[w] = "nack" /\ cur[w].id = i}

Counted(i) == retry[i] + Cardinality(NackAt(i)) <= failures[i]

Remembers(w) ==
  /\ \A e \in batch[w] : e.retry <= failures[e.id]
  /\ cur[w].retry <= failures[cur[w].id]
  /\ pc[w] = "nack" => cur[w].retry + 1 <= failures[cur[w].id]

EarnedInv ==
  /\ DeadLetterEarned
  /\ \A i \in Ids : Counted(i)
  /\ \A w \in Workers : Remembers(w)

LEMMA NackAtFinite ==
  ASSUME NEW i
  PROVE  IsFiniteSet(NackAt(i)) /\ Cardinality(NackAt(i)) \in Nat
<1>1. IsFiniteSet(Workers)
  BY ConstantsAssumption DEF Workers
<1>2. NackAt(i) \in SUBSET Workers
  BY DEF NackAt
<1>3. IsFiniteSet(NackAt(i))
  BY <1>1, <1>2, FS_Subset
<1>4. QED
  BY <1>3, FS_CardinalityType

(* Fewer workers with an unrecorded failure: a smaller number. *)
LEMMA NackAtShrinks ==
  ASSUME NEW i, NackAt(i)' \subseteq NackAt(i)
  PROVE  /\ Cardinality(NackAt(i)') \in Nat
         /\ Cardinality(NackAt(i)') <= Cardinality(NackAt(i))
<1>1. IsFiniteSet(NackAt(i))
  BY NackAtFinite
<1>2. NackAt(i)' \in SUBSET NackAt(i)
  OBVIOUS
<1>3. /\ IsFiniteSet(NackAt(i)')
      /\ Cardinality(NackAt(i)') <= Cardinality(NackAt(i))
  BY <1>1, <1>2, FS_Subset
<1>4. QED
  BY <1>3, FS_CardinalityType

(* Steps that record no failure and give nobody up cannot break it: they   *)
(* may only lower counts, drop or fetch events, and begin or forget one.   *)
LEMMA EarnedFrame ==
  ASSUME TypeOK, EarnedInv, TypeOK',
         UNCHANGED failures,
         \A i \in Ids : retry'[i] <= retry[i],
         \A i \in Ids : status'[i] = "DeadLetter" => status[i] = "DeadLetter",
         \A w \in Workers :
           /\ pc'[w] = "nack" => pc[w] = "nack" /\ cur'[w] = cur[w]
           /\ cur'[w] \in batch[w] \cup {cur[w], NoEvent}
           /\ \A e \in batch'[w] :
                e \in batch[w] \/ (e.id \in Ids /\ e.retry = retry[e.id])
  PROVE  EarnedInv'
<1>1. DeadLetterEarned'
  BY DEF EarnedInv, DeadLetterEarned, InStatus
<1>2. ASSUME NEW i \in Ids PROVE Counted(i)'
  <2>1. NackAt(i)' \subseteq NackAt(i)
    BY DEF NackAt
  <2>2. /\ Cardinality(NackAt(i)') \in Nat
        /\ Cardinality(NackAt(i)') <= Cardinality(NackAt(i))
    BY <2>1, NackAtShrinks
  <2>3. Cardinality(NackAt(i)) \in Nat
    BY NackAtFinite
  <2>4. retry[i] + Cardinality(NackAt(i)) <= failures[i]
    BY DEF EarnedInv, Counted
  <2>5. /\ retry[i] \in Nat /\ retry'[i] \in Nat /\ failures[i] \in Nat
        /\ failures'[i] = failures[i] /\ retry'[i] <= retry[i]
    BY DEF TypeOK
  <2>6. retry'[i] + Cardinality(NackAt(i)') <= failures'[i]
    BY <2>2, <2>3, <2>4, <2>5
  <2>7. QED
    BY <2>6 DEF Counted
<1>3. ASSUME NEW w \in Workers PROVE Remembers(w)'
  <2>1. \A i \in Ids : retry[i] <= failures[i]
    BY NackAtFinite DEF EarnedInv, Counted, TypeOK
  <2>2. ASSUME NEW e \in batch'[w] PROVE e.retry <= failures[e.id]
    BY <2>1, <2>2 DEF EarnedInv, Remembers
  <2>3. NoEvent.retry <= failures[NoEvent.id]
    BY ConstantsAssumption DEF NoEvent, TypeOK, Ids
  <2>4. cur'[w].retry <= failures[cur'[w].id]
    BY <2>3 DEF EarnedInv, Remembers
  <2>5. pc'[w] = "nack" => cur'[w].retry + 1 <= failures[cur'[w].id]
    BY DEF EarnedInv, Remembers
  <2>6. QED
    BY <2>2, <2>4, <2>5 DEF Remembers
<1>4. QED
  BY <1>1, <1>2, <1>3 DEF EarnedInv

(* A handler's error: the worker joins those that have a failure to write. *)
LEMMA EarnedByFailure ==
  ASSUME TypeOK, EarnedInv, NEW w \in Workers, HandlerFails(w)
  PROVE  EarnedInv'
<1> DEFINE i == cur[w].id
<1>1. /\ i \in Ids
      /\ pc[w] = "dispatch"
      /\ pc' = [pc EXCEPT ![w] = "nack"]
      /\ failures' = [failures EXCEPT ![i] = @ + 1]
      /\ UNCHANGED <<status, retry, batch, cur>>
  BY DEF HandlerFails, Goto, table, TypeOK, Fetched
<1>2. /\ failures'[i] = failures[i] + 1
      /\ \A j \in Ids : failures[j] \in Nat /\ failures[j] <= failures'[j]
  BY <1>1 DEF TypeOK
<1>3. DeadLetterEarned'
  BY <1>1, <1>2, ConstantsAssumption
     DEF EarnedInv, DeadLetterEarned, InStatus, TypeOK
<1>4. ASSUME NEW j \in Ids PROVE Counted(j)'
  <2>1. CASE j = i
    <3>1. NackAt(i)' = NackAt(i) \cup {w}
      BY <1>1 DEF NackAt, TypeOK
    <3>2. w \notin NackAt(i)
      BY <1>1 DEF NackAt
    <3>3. IsFiniteSet(NackAt(i)) /\ Cardinality(NackAt(i)) \in Nat
      BY NackAtFinite
    <3>4. Cardinality(NackAt(i) \cup {w}) = Cardinality(NackAt(i)) + 1
      BY <3>2, <3>3, FS_AddElement
    <3>5. /\ retry[i] + Cardinality(NackAt(i)) <= failures[i]
          /\ retry[i] \in Nat /\ failures[i] \in Nat
      BY <1>1 DEF EarnedInv, Counted, TypeOK
    <3>6. retry[i] + Cardinality(NackAt(i)') <= failures[i] + 1
      BY <3>1, <3>3, <3>4, <3>5
    <3>7. QED
      BY <1>1, <1>2, <2>1, <3>6 DEF Counted
  <2>2. CASE j # i
    <3>1. NackAt(j)' = NackAt(j)
      BY <1>1, <2>2 DEF NackAt, TypeOK
    <3>2. failures'[j] = failures[j] /\ retry'[j] = retry[j]
      BY <1>1, <2>2 DEF TypeOK
    <3>3. retry[j] + Cardinality(NackAt(j)) <= failures[j]
      BY DEF EarnedInv, Counted
    <3>4. QED
      BY <3>1, <3>2, <3>3 DEF Counted
  <2>3. QED
    BY <2>1, <2>2
<1>5. ASSUME NEW v \in Workers PROVE Remembers(v)'
  <2>1. \A e \in batch[v] : /\ e.id \in Ids /\ e.retry \in Nat
                            /\ e.retry <= failures[e.id]
    BY DEF EarnedInv, Remembers, TypeOK, Fetched
  <2>2. /\ cur[v].id \in Ids /\ cur[v].retry \in Nat
        /\ cur[v].retry <= failures[cur[v].id]
    BY DEF EarnedInv, Remembers, TypeOK, Fetched
  <2>3. \A e \in batch'[v] : e.retry <= failures'[e.id]
    BY <1>1, <1>2, <2>1 DEF TypeOK
  <2>4. cur'[v].retry <= failures'[cur'[v].id]
    BY <1>1, <1>2, <2>2 DEF TypeOK
  <2>5. pc'[v] = "nack" => cur'[v].retry + 1 <= failures'[cur'[v].id]
    <3>1. CASE v = w
      BY <1>1, <1>2, <2>2, <3>1
    <3>2. CASE v # w
      <4>1. pc'[v] = pc[v]
        BY <1>1, <3>2 DEF TypeOK
      <4>2. pc[v] = "nack" => cur[v].retry + 1 <= failures[cur[v].id]
        BY DEF EarnedInv, Remembers
      <4>3. QED
        BY <1>1, <1>2, <2>2, <4>1, <4>2
    <3>3. QED
      BY <3>1, <3>2
  <2>6. QED
    BY <2>3, <2>4, <2>5 DEF Remembers
<1>6. QED
  BY <1>3, <1>4, <1>5 DEF EarnedInv

(* Writing a failure down: the row gains what the worker gives up, or the  *)
(* worker has a count that is worth the dead letter list.                  *)
LEMMA EarnedByNack ==
  ASSUME TypeOK, EarnedInv, TypeOK', NEW w \in Workers, Nack(w)
  PROVE  EarnedInv'
<1> DEFINE i == cur[w].id
<1>1. /\ i \in Ids
      /\ cur[w].retry \in Nat
      /\ pc[w] = "nack"
      /\ pc' = [pc EXCEPT ![w] = "next"]
      /\ cur' = [cur EXCEPT ![w] = NoEvent]
      /\ UNCHANGED <<batch, failures>>
      /\ \/ Exhausted(cur[w]) /\ MarkDeadLetter(i)
         \/ MarkFailed(i)
  BY DEF Nack, Finish, Goto, history, TypeOK, Fetched
<1>2. /\ \A j \in Ids : retry'[j] \in Nat /\ failures[j] \in Nat
      /\ \A j \in Ids : retry[j] \in Nat
      /\ \A j \in Ids \ {i} : retry'[j] = retry[j]
      /\ retry'[i] <= retry[i] + 1
  BY <1>1 DEF MarkDeadLetter, MarkFailed, TypeOK
<1>3. \A j \in Ids : status'[j] = "DeadLetter" =>
        status[j] = "DeadLetter" \/ (j = i /\ Exhausted(cur[w]))
  BY <1>1 DEF MarkDeadLetter, MarkFailed, TypeOK
<1>4. DeadLetterEarned'
  <2>1. cur[w].retry + 1 <= failures[i]
    BY <1>1 DEF EarnedInv, Remembers
  <2>2. Exhausted(cur[w]) => failures[i] >= MaxRetries
    BY <1>1, <1>2, <2>1, ConstantsAssumption DEF Exhausted
  <2>3. QED
    BY <1>1, <1>3, <2>2 DEF EarnedInv, DeadLetterEarned, InStatus
<1>5. ASSUME NEW j \in Ids PROVE Counted(j)'
  <2>1. retry[j] + Cardinality(NackAt(j)) <= failures[j]
    BY DEF EarnedInv, Counted
  <2>2. IsFiniteSet(NackAt(j)) /\ Cardinality(NackAt(j)) \in Nat
    BY NackAtFinite
  <2>3. NackAt(j)' = NackAt(j) \ {w}
    BY <1>1 DEF NackAt, TypeOK
  <2>4. Cardinality(NackAt(j) \ {w}) =
          IF w \in NackAt(j) THEN Cardinality(NackAt(j)) - 1
                             ELSE Cardinality(NackAt(j))
    BY <2>2, FS_RemoveElement
  <2>5. w \in NackAt(j) <=> j = i
    BY <1>1 DEF NackAt
  <2>6. retry'[j] + Cardinality(NackAt(j)') <= failures[j]
    <3>1. CASE j = i
      BY <1>1, <1>2, <2>1, <2>2, <2>3, <2>4, <2>5, <3>1
    <3>2. CASE j # i
      BY <1>1, <1>2, <2>1, <2>2, <2>3, <2>4, <2>5, <3>2
    <3>3. QED
      BY <3>1, <3>2
  <2>7. QED
    BY <1>1, <2>6 DEF Counted
<1>6. ASSUME NEW v \in Workers PROVE Remembers(v)'
  <2>1. NoEvent.retry <= failures[NoEvent.id]
    BY ConstantsAssumption DEF NoEvent, TypeOK, Ids
  <2>2. CASE v = w
    <3>1. pc'[v] # "nack" /\ cur'[v] = NoEvent /\ batch'[v] = batch[v]
      BY <1>1, <2>2 DEF TypeOK
    <3>2. QED
      BY <1>1, <2>1, <3>1 DEF EarnedInv, Remembers
  <2>3. CASE v # w
    <3>1. pc'[v] = pc[v] /\ cur'[v] = cur[v] /\ batch'[v] = batch[v]
      BY <1>1, <2>3 DEF TypeOK
    <3>2. QED
      BY <1>1, <3>1 DEF EarnedInv, Remembers
  <2>4. QED
    BY <2>2, <2>3
<1>7. QED
  BY <1>4, <1>5, <1>6 DEF EarnedInv

(* What the three fetches put in a batch carries the row's count. *)
LEMMA ClaimRemembers ==
  ASSUME TypeOK, NEW w \in Workers, NEW S \in SUBSET Ids,
         NEW source, Claim(w, S, source)
  PROVE  /\ \A i \in Ids :
              status'[i] = "DeadLetter" => status[i] = "DeadLetter"
         /\ \A v \in Workers : \A e \in batch'[v] :
              e \in batch[v] \/ (e.id \in Ids /\ e.retry = retry[e.id])
<1>1. batch' = [batch EXCEPT ![w] = @ \cup
         {[id |-> i, retry |-> retry[i], from |-> source] : i \in S}]
  BY DEF Claim
<1>2. ASSUME NEW v \in Workers, NEW e \in batch'[v], e \notin batch[v]
      PROVE  e.id \in Ids /\ e.retry = retry[e.id]
  <2>1. e \in {[id |-> i, retry |-> retry[i], from |-> source] : i \in S}
    BY <1>1, <1>2 DEF TypeOK
  <2>2. QED
    BY <2>1
<1>3. QED
  BY <1>2 DEF Claim, TypeOK

LEMMA EarnedStep ==
  TypeOK /\ TypeOK' /\ EarnedInv /\ [Next]_vars => EarnedInv'
<1> SUFFICES ASSUME TypeOK, TypeOK', EarnedInv, [Next]_vars
             PROVE  EarnedInv'
  OBVIOUS
<1> USE DEF Goto, table, worker, budget, history
<1>1. ASSUME NEW k \in Keys, Publish(k) PROVE EarnedInv'
  BY <1>1, EarnedFrame DEF Publish, vars, TypeOK
<1>2. ASSUME NEW i \in Ids,
             Age(i) \/ RetryOne(i) \/ ArchiveDeadLetters(i)
      PROVE  EarnedInv'
  BY <1>2, EarnedFrame DEF Age, RetryOne, ArchiveDeadLetters, TypeOK
<1>3. ASSUME NEW p \in Processors,
             Start(p) \/ Stop(p) \/ Connect(p) \/ ListenFails(p)
      PROVE  EarnedInv'
  BY <1>3, EarnedFrame
     DEF Start, Stop, Connect, ListenFails, ResetStaleProcessing, TypeOK
<1>4. ASSUME NEW p \in Processors,
             Wake(p) \/ Shutdown(p) \/ FetchFails(p)
      PROVE  EarnedInv'
  BY <1>4, EarnedFrame
     DEF Wake, Shutdown, FetchFails, AfterBatch, ResetStaleProcessing, TypeOK
<1>5. ASSUME NEW p \in Processors, FetchRetryable(p) \/ FetchPending(p)
      PROVE  EarnedInv'
  <2>1. /\ Oldest(RetryBatch, Retryable) \in SUBSET Ids
        /\ Oldest(FullBatch, InStatus("Pending")) \in SUBSET Ids
        /\ p \in Workers
    BY OldestSubset DEF Retryable, InStatus, Workers
  <2>2. /\ \A i \in Ids :
             status'[i] = "DeadLetter" => status[i] = "DeadLetter"
        /\ \A v \in Workers : \A e \in batch'[v] :
             e \in batch[v] \/ (e.id \in Ids /\ e.retry = retry[e.id])
    BY <1>5, <2>1, ClaimRemembers DEF FetchRetryable, FetchPending
  <2>3. QED
    BY <1>5, <2>2, EarnedFrame DEF FetchRetryable, FetchPending, TypeOK
<1>6. ASSUME NEW c \in Callers, RetryFailed(c) PROVE EarnedInv'
  <2>1. Oldest(FullBatch, Retryable) \in SUBSET Ids /\ c \in Workers
    BY OldestSubset DEF Retryable, InStatus, Workers
  <2>2. /\ \A i \in Ids :
             status'[i] = "DeadLetter" => status[i] = "DeadLetter"
        /\ \A v \in Workers : \A e \in batch'[v] :
             e \in batch[v] \/ (e.id \in Ids /\ e.retry = retry[e.id])
    BY <1>6, <2>1, ClaimRemembers DEF RetryFailed
  <2>3. QED
    BY <1>6, <2>2, EarnedFrame DEF RetryFailed, TypeOK
<1>7. ASSUME NEW w \in Workers,
             EndBatch(w) \/ CheckFails(w) \/ CheckAndMark(w)
      PROVE  EarnedInv'
  <2>1. CASE EndBatch(w) \/ CheckFails(w)
    BY <2>1, EarnedFrame DEF EndBatch, CheckFails, AfterBatch, TypeOK
  <2>2. CASE CheckAndMark(w)
    BY <2>2, EarnedFrame DEF CheckAndMark, TypeOK
  <2>3. QED
    BY <1>7, <2>1, <2>2
<1>8. ASSUME NEW w \in Workers, Crash(w) \/ MarkFails(w) PROVE EarnedInv'
  BY <1>8, EarnedFrame DEF Crash, MarkFails, Finish, TypeOK
<1>9. ASSUME NEW w \in Workers,
             Skip(w) \/ AckEvent(w) \/ AckRecord(w) \/ HandlerSucceeds(w)
      PROVE  EarnedInv'
  BY <1>9, EarnedFrame
     DEF Skip, AckEvent, AckRecord, HandlerSucceeds, MarkProcessed, Finish,
         TypeOK
<1>10. ASSUME NEW w \in Workers, HandlerFails(w) PROVE EarnedInv'
  BY <1>10, EarnedByFailure
<1>11. ASSUME NEW w \in Workers, Nack(w) PROVE EarnedInv'
  BY <1>11, EarnedByNack
<1>12. CASE UNCHANGED vars
  BY <1>12, EarnedFrame DEF vars, TypeOK
<1>13. QED
  BY <1>1, <1>2, <1>3, <1>4, <1>5, <1>6, <1>7, <1>8, <1>9, <1>10, <1>11,
     <1>12
     DEF Next, Task, ProcessSingleEvent, Fault

LEMMA EarnedStart == Init => EarnedInv
<1> SUFFICES ASSUME Init PROVE EarnedInv
  OBVIOUS
<1>1. ASSUME NEW i \in Ids PROVE Counted(i)
  <2>1. NackAt(i) = {}
    BY DEF NackAt, Init
  <2>2. Cardinality(NackAt(i)) = 0
    BY <2>1, FS_EmptySet
  <2>3. QED
    BY <2>2 DEF Counted, Init
<1>2. ASSUME NEW w \in Workers PROVE Remembers(w)
  BY ConstantsAssumption DEF Remembers, Init, NoEvent, Ids
<1>3. QED
  BY <1>1, <1>2 DEF EarnedInv, DeadLetterEarned, InStatus, Init

(* However many servers count failures from stale copies, an event is in   *)
(* the dead letter list only after MaxRetries of its dispatches failed.    *)
THEOREM DeadLettersAreEarned == Spec => []DeadLetterEarned
<1>1. EarnedInv => DeadLetterEarned
  BY DEF EarnedInv
<1>2. QED
  BY <1>1, EarnedStart, TypeInvariance, EarnedStep, PTL DEF Spec

(***************************************************************************)
(* ClaimedByOne is not inductive either.  While no operator has called     *)
(* (so that no task has been told to stop), an event that is neither old   *)
(* nor redriven is Processing as long as somebody holds it, and nobody     *)
(* holds it twice: so that neither a fetch nor a reset can hand it out.    *)
(***************************************************************************)
Busy(w) == pc[w] \in {"skip", "dispatch", "record", "nack"}

Fresh(i) == operations = 0 /\ i \notin aged \cup deadOnce

KeepsRunning ==
  operations = 0 =>
    \A p \in Processors :
      /\ pc[p] # "shutdown"
      /\ pc[p] \notin {"stopped", "halted"} => running[p]

HeldOnce(w) ==
  \A e \in batch[w] : Fresh(e.id) =>
    /\ status[e.id] = "Processing"
    /\ ~(Busy(w) /\ cur[w].id = e.id)
    /\ \A f \in batch[w] : f.id = e.id => f = e

HeldNow(w) ==
  Busy(w) /\ Fresh(cur[w].id) =>
    \/ status[cur[w].id] = "Processing"
    \/ pc[w] = "record" /\ status[cur[w].id] = "Processed"

ClaimInv ==
  /\ KeepsRunning
  /\ \A w \in Workers : HeldOnce(w) /\ HeldNow(w)
  /\ ClaimedByOne

(* Steps that claim nothing, and change the status only of events nobody   *)
(* works on or that are no longer fresh.                                   *)
LEMMA ClaimFrame ==
  ASSUME TypeOK, ClaimInv, KeepsRunning',
         \A i \in Ids : Fresh(i)' => Fresh(i),
         \A i \in Ids :
           Fresh(i)' /\ status[i] \in {"Processing", "Processed"}
             => status'[i] = status[i],
         \A w \in Workers :
           /\ batch'[w] \subseteq batch[w]
           /\ Busy(w)' => pc'[w] = pc[w] /\ cur'[w] = cur[w]
  PROVE  ClaimInv'
<1>1. ASSUME NEW w \in Workers PROVE Busy(w)' => Busy(w)
  BY DEF Busy
<1>2. ASSUME NEW w \in Workers PROVE HeldOnce(w)'
  <2> SUFFICES ASSUME NEW e \in batch'[w], Fresh(e.id)'
               PROVE  /\ status'[e.id] = "Processing"
                      /\ ~(Busy(w)' /\ cur'[w].id = e.id)
                      /\ \A f \in batch'[w] : f.id = e.id => f = e
    BY DEF HeldOnce
  <2>1. e \in batch[w] /\ e.id \in Ids /\ Fresh(e.id)
    BY DEF TypeOK, Fetched
  <2>2. /\ status[e.id] = "Processing"
        /\ ~(Busy(w) /\ cur[w].id = e.id)
        /\ \A f \in batch[w] : f.id = e.id => f = e
    BY <2>1 DEF ClaimInv, HeldOnce
  <2>3. QED
    BY <1>1, <2>1, <2>2
<1>3. ASSUME NEW w \in Workers PROVE HeldNow(w)'
  <2> SUFFICES ASSUME Busy(w)', Fresh(cur[w].id)'
               PROVE  \/ status'[cur'[w].id] = "Processing"
                      \/ /\ pc'[w] = "record"
                         /\ status'[cur'[w].id] = "Processed"
    BY DEF HeldNow
  <2>1. /\ pc'[w] = pc[w] /\ cur'[w] = cur[w] /\ cur[w].id \in Ids
        /\ Busy(w) /\ Fresh(cur[w].id)
    BY <1>1 DEF TypeOK, Fetched
  <2>2. \/ status[cur[w].id] = "Processing"
        \/ pc[w] = "record" /\ status[cur[w].id] = "Processed"
    BY <2>1 DEF ClaimInv, HeldNow
  <2>3. QED
    BY <2>1, <2>2
<1>4. ASSUME NEW w \in Workers, NEW i \in Ids, Holds(w, i)'
      PROVE  Holds(w, i)
  BY <1>1, <1>4 DEF Holds, Busy
<1>5. ClaimedByOne'
  <2> SUFFICES ASSUME NEW i \in Ids, Fresh(i)', NEW v \in Workers,
                      NEW w \in Workers, Holds(v, i)', Holds(w, i)'
               PROVE  v = w
    BY DEF ClaimedByOne, Fresh
  <2>1. Holds(v, i) /\ Holds(w, i) /\ Fresh(i)
    BY <1>4
  <2>2. QED
    BY <2>1 DEF ClaimInv, ClaimedByOne, Fresh
<1>6. QED
  BY <1>2, <1>3, <1>5 DEF ClaimInv

(* A fetch: what it claims was Pending or Failed, and so nobody's. *)
LEMMA ClaimByFetch ==
  ASSUME TypeOK, ClaimInv, NEW w \in Workers, NEW S \in SUBSET Ids,
         NEW source, Claim(w, S, source), KeepsRunning',
         \A i \in S : status[i] \in {"Pending", "Failed"},
         UNCHANGED <<cur, operations, aged, deadOnce>>,
         \A v \in Workers : v # w => pc'[v] = pc[v],
         ~Busy(w), ~Busy(w)'
  PROVE  ClaimInv'
<1> DEFINE New == {[id |-> i, retry |-> retry[i], from |-> source] : i \in S}
<1>1. /\ batch' = [batch EXCEPT ![w] = @ \cup New]
      /\ \A i \in Ids : status'[i] = IF i \in S THEN "Processing"
                                               ELSE status[i]
      /\ \A i \in Ids : Fresh(i)' <=> Fresh(i)
  BY DEF Claim, Fresh
<1>2. /\ \A e \in New : e.id \in S
      /\ \A e, f \in New : e.id = f.id => e = f
  OBVIOUS
<1>3. /\ batch'[w] = batch[w] \cup New
      /\ \A v \in Workers \ {w} : batch'[v] = batch[v]
  BY <1>1 DEF TypeOK
<1>4. \A v \in Workers : Busy(v)' <=> Busy(v)
  BY DEF Busy
<1> HIDE DEF New
<1>5. ASSUME NEW v \in Workers, NEW i \in S, Fresh(i) PROVE ~Holds(v, i)
  <2>1. status[i] \notin {"Processing", "Processed"}
    OBVIOUS
  <2>2. \A e \in batch[v] : Fresh(e.id) => status[e.id] = "Processing"
    BY DEF ClaimInv, HeldOnce
  <2>3. Busy(v) /\ Fresh(cur[v].id)
          => status[cur[v].id] \in {"Processing", "Processed"}
    BY DEF ClaimInv, HeldNow
  <2>4. QED
    BY <1>5, <2>1, <2>2, <2>3 DEF Holds, Busy
<1>6. ASSUME NEW v \in Workers PROVE HeldOnce(v)'
  <2> SUFFICES ASSUME NEW e \in batch'[v], Fresh(e.id)'
               PROVE  /\ status'[e.id] = "Processing"
                      /\ ~(Busy(v)' /\ cur'[v].id = e.id)
                      /\ \A f \in batch'[v] : f.id = e.id => f = e
    BY DEF HeldOnce
  <2>1. CASE e \in batch[v]
    <3>1. e.id \in Ids /\ Fresh(e.id)
      BY <1>1, <2>1 DEF TypeOK, Fetched
    <3>2. /\ status[e.id] = "Processing"
          /\ ~(Busy(v) /\ cur[v].id = e.id)
          /\ \A f \in batch[v] : f.id = e.id => f = e
      BY <2>1, <3>1 DEF ClaimInv, HeldOnce
    <3>3. e.id \notin S
      BY <3>2
    <3>4. QED
      BY <1>1, <1>2, <1>3, <1>4, <3>1, <3>2, <3>3
  <2>2. CASE e \notin batch[v]
    <3>1. v = w /\ e \in New /\ e.id \in S /\ e.id \in Ids
      BY <1>2, <1>3, <2>2
    <3>2. \A f \in batch[w] : f.id # e.id
      BY <1>1, <1>5, <3>1 DEF Holds
    <3>3. QED
      BY <1>1, <1>2, <1>3, <3>1, <3>2
  <2>3. QED
    BY <2>1, <2>2
<1>7. ASSUME NEW v \in Workers PROVE HeldNow(v)'
  <2> SUFFICES ASSUME Busy(v)', Fresh(cur[v].id)'
               PROVE  \/ status'[cur'[v].id] = "Processing"
                      \/ /\ pc'[v] = "record"
                         /\ status'[cur'[v].id] = "Processed"
    BY DEF HeldNow
  <2>1. /\ v # w /\ pc'[v] = pc[v] /\ cur'[v] = cur[v]
        /\ cur[v].id \in Ids /\ Busy(v) /\ Fresh(cur[v].id)
    BY <1>1, <1>4 DEF TypeOK, Fetched
  <2>2. \/ status[cur[v].id] = "Processing"
        \/ pc[v] = "record" /\ status[cur[v].id] = "Processed"
    BY <2>1 DEF ClaimInv, HeldNow
  <2>3. QED
    BY <1>1, <2>1, <2>2
<1>8. ASSUME NEW v \in Workers, NEW i \in Ids, Holds(v, i)'
      PROVE  Holds(v, i) \/ (v = w /\ i \in S)
  BY <1>2, <1>3, <1>4, <1>8 DEF Holds, Busy
<1>9. ClaimedByOne'
  <2> SUFFICES ASSUME NEW i \in Ids, Fresh(i)', NEW u \in Workers,
                      NEW v \in Workers, Holds(u, i)', Holds(v, i)'
               PROVE  u = v
    BY DEF ClaimedByOne, Fresh
  <2>1. Fresh(i)
    BY <1>1
  <2>2. CASE i \in S
    BY <1>5, <1>8, <2>1, <2>2
  <2>3. CASE i \notin S
    BY <1>8, <2>1, <2>3 DEF ClaimInv, ClaimedByOne, Fresh
  <2>4. QED
    BY <2>2, <2>3
<1>10. QED
  BY <1>6, <1>7, <1>9 DEF ClaimInv

(* Beginning an event: the one copy moves from the batch to the hand. *)
LEMMA ClaimByBegin ==
  ASSUME TypeOK, ClaimInv, KeepsRunning', NEW w \in Workers, CheckAndMark(w)
  PROVE  ClaimInv'
<1>1. PICK e \in batch[w] :
        /\ batch' = [batch EXCEPT ![w] = @ \ {e}]
        /\ cur' = [cur EXCEPT ![w] = e]
        /\ pc' = [pc EXCEPT ![w] = IF idem[e.id] = "Processed"
                                   THEN "skip" ELSE "dispatch"]
  BY DEF CheckAndMark, Goto
<1>2. /\ pc[w] = "next"
      /\ UNCHANGED <<status, aged, operations, deadOnce>>
      /\ e.id \in Ids
      /\ \A i \in Ids : Fresh(i)' <=> Fresh(i)
  BY DEF CheckAndMark, table, budget, TypeOK, Fetched, Fresh
<1>3. /\ batch'[w] = batch[w] \ {e} /\ cur'[w] = e
      /\ pc'[w] \in {"skip", "dispatch"}
  BY <1>1 DEF TypeOK
<1>4. ASSUME NEW v \in Workers \ {w}
      PROVE  batch'[v] = batch[v] /\ cur'[v] = cur[v] /\ pc'[v] = pc[v]
  BY <1>1 DEF TypeOK
<1>5. ASSUME NEW v \in Workers PROVE HeldOnce(v)'
  <2> SUFFICES ASSUME NEW f \in batch'[v], Fresh(f.id)'
               PROVE  /\ status'[f.id] = "Processing"
                      /\ ~(Busy(v)' /\ cur'[v].id = f.id)
                      /\ \A g \in batch'[v] : g.id = f.id => g = f
    BY DEF HeldOnce
  <2>1. f \in batch[v] /\ f.id \in Ids /\ Fresh(f.id)
    BY <1>2, <1>3, <1>4 DEF TypeOK, Fetched
  <2>2. /\ status[f.id] = "Processing"
        /\ ~(Busy(v) /\ cur[v].id = f.id)
        /\ \A g \in batch[v] : g.id = f.id => g = f
    BY <2>1 DEF ClaimInv, HeldOnce
  <2>3. CASE v = w
    BY <1>2, <1>3, <2>1, <2>2, <2>3
  <2>4. CASE v # w
    BY <1>2, <1>4, <2>2, <2>4 DEF Busy
  <2>5. QED
    BY <2>3, <2>4
<1>6. ASSUME NEW v \in Workers PROVE HeldNow(v)'
  <2>1. CASE v = w
    BY <1>2, <1>3, <2>1 DEF ClaimInv, HeldOnce, HeldNow
  <2>2. CASE v # w
    <3>1. HeldNow(v) /\ cur[v].id \in Ids
      BY DEF ClaimInv, TypeOK, Fetched
    <3>2. QED
      BY <1>2, <1>4, <2>2, <3>1 DEF HeldNow, Busy
  <2>3. QED
    BY <2>1, <2>2
<1>7. ASSUME NEW v \in Workers, NEW i \in Ids, Holds(v, i)'
      PROVE  Holds(v, i)
  <2>1. CASE v = w
    BY <1>3, <1>7, <2>1 DEF Holds
  <2>2. CASE v # w
    BY <1>4, <1>7, <2>2 DEF Holds
  <2>3. QED
    BY <2>1, <2>2
<1>8. ClaimedByOne'
  <2> SUFFICES ASSUME NEW i \in Ids, Fresh(i)', NEW u \in Workers,
                      NEW v \in Workers, Holds(u, i)', Holds(v, i)'
               PROVE  u = v
    BY DEF ClaimedByOne, Fresh
  <2>1. Fresh(i) /\ Holds(u, i) /\ Holds(v, i)
    BY <1>2, <1>7
  <2>2. QED
    BY <2>1 DEF ClaimInv, ClaimedByOne, Fresh
<1>9. QED
  BY <1>5, <1>6, <1>8 DEF ClaimInv

(* Working on the event in hand: nobody else holds it, so what is written  *)
(* to its row concerns nobody else.                                        *)
LEMMA ClaimByWork ==
  ASSUME TypeOK, ClaimInv, KeepsRunning', NEW w \in Workers, Busy(w),
         UNCHANGED <<batch, aged, operations>>,
         deadOnce \subseteq deadOnce',
         \A i \in Ids \ {cur[w].id} : status'[i] = status[i],
         \A v \in Workers \ {w} : pc'[v] = pc[v] /\ cur'[v] = cur[v],
         Busy(w)' =>
           /\ pc[w] = "dispatch"
           /\ cur'[w] = cur[w]
           /\ \/ status'[cur[w].id] = status[cur[w].id]
              \/ pc'[w] = "record" /\ status'[cur[w].id] = "Processed"
              \/ status[cur[w].id] # "Processing"
  PROVE  ClaimInv'
<1>1. \A i \in Ids : Fresh(i)' => Fresh(i)
  BY DEF Fresh
<1>2. \A v \in Workers : Busy(v)' => Busy(v) /\ cur'[v] = cur[v]
  BY DEF Busy
<1>3. ASSUME NEW v \in Workers, NEW i \in Ids, Holds(v, i)'
      PROVE  Holds(v, i)
  BY <1>2, <1>3 DEF Holds, Busy
<1>4. cur[w].id \in Ids /\ Holds(w, cur[w].id)
  BY DEF Holds, Busy, TypeOK, Fetched
<1>5. ASSUME NEW v \in Workers, v # w, NEW i \in Ids, Holds(v, i), Fresh(i)
      PROVE  status'[i] = status[i]
  BY <1>4, <1>5 DEF ClaimInv, ClaimedByOne, Fresh
<1>6. ASSUME NEW v \in Workers PROVE HeldOnce(v)'
  <2> SUFFICES ASSUME NEW e \in batch'[v], Fresh(e.id)'
               PROVE  /\ status'[e.id] = "Processing"
                      /\ ~(Busy(v)' /\ cur'[v].id = e.id)
                      /\ \A f \in batch'[v] : f.id = e.id => f = e
    BY DEF HeldOnce
  <2>1. e \in batch[v] /\ e.id \in Ids /\ Fresh(e.id) /\ Holds(v, e.id)
    BY <1>1 DEF TypeOK, Fetched, Holds
  <2>2. /\ status[e.id] = "Processing"
        /\ ~(Busy(v) /\ cur[v].id = e.id)
        /\ \A f \in batch[v] : f.id = e.id => f = e
    BY <2>1 DEF ClaimInv, HeldOnce
  <2>3. status'[e.id] = status[e.id]
    BY <1>5, <2>1, <2>2
  <2>4. QED
    BY <1>2, <2>2, <2>3
<1>7. ASSUME NEW v \in Workers PROVE HeldNow(v)'
  <2> SUFFICES ASSUME Busy(v)', Fresh(cur[v].id)', cur'[v] = cur[v]
               PROVE  \/ status'[cur[v].id] = "Processing"
                      \/ /\ pc'[v] = "record"
                         /\ status'[cur[v].id] = "Processed"
    BY <1>2 DEF HeldNow
  <2>1. /\ Busy(v) /\ cur[v].id \in Ids /\ Fresh(cur[v].id)
        /\ Holds(v, cur[v].id)
    BY <1>1, <1>2 DEF TypeOK, Fetched, Holds, Busy
  <2>2. \/ status[cur[v].id] = "Processing"
        \/ pc[v] = "record" /\ status[cur[v].id] = "Processed"
    BY <2>1 DEF ClaimInv, HeldNow
  <2>3. CASE v = w
    BY <2>2, <2>3
  <2>4. CASE v # w
    BY <1>5, <2>1, <2>2, <2>4
  <2>5. QED
    BY <2>3, <2>4
<1>8. ClaimedByOne'
  <2> SUFFICES ASSUME NEW i \in Ids, Fresh(i)', NEW u \in Workers,
                      NEW v \in Workers, Holds(u, i)', Holds(v, i)'
               PROVE  u = v
    BY DEF ClaimedByOne, Fresh
  <2>1. Fresh(i) /\ Holds(u, i) /\ Holds(v, i)
    BY <1>1, <1>3
  <2>2. QED
    BY <2>1 DEF ClaimInv, ClaimedByOne, Fresh
<1>9. QED
  BY <1>6, <1>7, <1>8 DEF ClaimInv

(* Only Stop ends the loop of a task that is alive. *)
LEMMA KeepsRunningAt ==
  ASSUME TypeOK, KeepsRunning, NEW w \in Workers, NEW l \in PcStates,
         UNCHANGED <<running, operations>>, pc' = [pc EXCEPT ![w] = l],
         w \in Processors /\ operations = 0 =>
           l # "shutdown" /\ (l \notin {"stopped", "halted"} => running[w])
  PROVE  KeepsRunning'
<1> SUFFICES ASSUME operations = 0, NEW p \in Processors
             PROVE  /\ pc'[p] # "shutdown"
                    /\ pc'[p] \notin {"stopped", "halted"} => running[p]
  BY DEF KeepsRunning
<1>1. p \in Workers
  BY DEF Workers
<1>2. CASE p = w
  BY <1>1, <1>2 DEF TypeOK
<1>3. CASE p # w
  <2>1. pc'[p] = pc[p]
    BY <1>1, <1>3 DEF TypeOK
  <2>2. QED
    BY <2>1 DEF KeepsRunning
<1>4. QED
  BY <1>2, <1>3

LEMMA KeepsRunningStep ==
  TypeOK /\ KeepsRunning /\ [Next]_vars => KeepsRunning'
<1> SUFFICES ASSUME TypeOK, KeepsRunning, [Next]_vars PROVE KeepsRunning'
  OBVIOUS
<1> USE DEF Goto, table, worker, budget, history, KeepsRunning, TypeOK
<1>1. ASSUME NEW k \in Keys, Publish(k) PROVE KeepsRunning'
  BY <1>1 DEF Publish, vars
<1>2. ASSUME NEW i \in Ids,
             Age(i) \/ RetryOne(i) \/ ArchiveDeadLetters(i)
      PROVE  KeepsRunning'
  BY <1>2 DEF Age, RetryOne, ArchiveDeadLetters
<1>3. ASSUME NEW p \in Processors,
             Start(p) \/ Stop(p) \/ Connect(p) \/ ListenFails(p)
      PROVE  KeepsRunning'
  <2>1. CASE Start(p)
    BY <1>3, <2>1 DEF Start, Workers
  <2>2. CASE Stop(p)
    BY <2>2 DEF Stop
  <2>3. CASE Connect(p)
    BY <2>3 DEF Connect, Workers
  <2>4. CASE ListenFails(p)
    BY <2>4 DEF ListenFails, Workers
  <2>5. QED
    BY <1>3, <2>1, <2>2, <2>3, <2>4
<1>4. ASSUME NEW p \in Processors,
             Wake(p) \/ Shutdown(p) \/ FetchFails(p)
             \/ FetchRetryable(p) \/ FetchPending(p)
      PROVE  KeepsRunning'
  <2>1. p \in Workers /\ p \notin Callers
    BY ConstantsAssumption DEF Workers
  <2>2. CASE Wake(p) \/ FetchRetryable(p) \/ FetchPending(p)
    BY <2>1, <2>2, KeepsRunningAt
       DEF Wake, FetchRetryable, FetchPending, PcStates
  <2>3. CASE Shutdown(p) \/ FetchFails(p)
    BY <2>1, <2>3, KeepsRunningAt
       DEF Shutdown, FetchFails, AfterBatch, PcStates
  <2>4. QED
    BY <1>4, <2>2, <2>3
<1>5. ASSUME NEW c \in Callers, RetryFailed(c) PROVE KeepsRunning'
  BY <1>5, ConstantsAssumption DEF RetryFailed
<1>6. ASSUME NEW w \in Workers, EndBatch(w) PROVE KeepsRunning'
  BY <1>6, ConstantsAssumption DEF EndBatch, AfterBatch, Workers
<1>7. ASSUME NEW w \in Workers, Fault(w) PROVE KeepsRunning'
  BY <1>7, ConstantsAssumption
     DEF Fault, Crash, CheckFails, MarkFails, Finish, Workers
<1>8. ASSUME NEW w \in Workers, ProcessSingleEvent(w) PROVE KeepsRunning'
  <2>1. CASE CheckAndMark(w)
    BY <2>1, KeepsRunningAt DEF CheckAndMark, PcStates
  <2>2. CASE HandlerFails(w) \/ AckEvent(w)
    BY <2>2, KeepsRunningAt DEF HandlerFails, AckEvent, PcStates
  <2>3. CASE Skip(w) \/ AckRecord(w) \/ Nack(w)
    BY <2>3, KeepsRunningAt DEF Skip, AckRecord, Nack, Finish, PcStates
  <2>4. CASE HandlerSucceeds(w)
    BY <2>4 DEF HandlerSucceeds
  <2>5. QED
    BY <1>8, <2>1, <2>2, <2>3, <2>4 DEF ProcessSingleEvent
<1>9. CASE UNCHANGED vars
  BY <1>9 DEF vars
<1>10. QED
  BY <1>1, <1>2, <1>3, <1>4, <1>5, <1>6, <1>7, <1>8, <1>9 DEF Next, Task

LEMMA ClaimStep ==
  TypeOK /\ TypeOK' /\ ClaimInv /\ [Next]_vars => ClaimInv'
<1> SUFFICES ASSUME TypeOK, TypeOK', ClaimInv, [Next]_vars PROVE ClaimInv'
  OBVIOUS
<1>0. KeepsRunning'
  BY KeepsRunningStep DEF ClaimInv
<1> USE DEF Goto, table, worker, budget, history
<1>1. ASSUME NEW k \in Keys, Publish(k) PROVE ClaimInv'
  BY <1>0, <1>1, ClaimFrame DEF Publish, vars, TypeOK, Fresh, Busy
<1>2. ASSUME NEW i \in Ids,
             Age(i) \/ RetryOne(i) \/ ArchiveDeadLetters(i)
      PROVE  ClaimInv'
  BY <1>0, <1>2, ClaimFrame
     DEF Age, RetryOne, ArchiveDeadLetters, TypeOK, Fresh, Busy
<1>3. ASSUME NEW p \in Processors,
             Start(p) \/ Stop(p) \/ Connect(p) \/ ListenFails(p)
      PROVE  ClaimInv'
  BY <1>0, <1>3, ClaimFrame
     DEF Start, Stop, Connect, ListenFails, ResetStaleProcessing, TypeOK,
         Fresh, Busy
<1>4. ASSUME NEW p \in Processors, Wake(p) \/ FetchFails(p)
      PROVE  ClaimInv'
  BY <1>0, <1>4, ClaimFrame
     DEF Wake, FetchFails, AfterBatch, ResetStaleProcessing, TypeOK, Fresh,
         Busy
<1>5. ASSUME NEW p \in Processors, Shutdown(p) PROVE ClaimInv'
  <2>1. operations # 0 /\ operations' = operations
    BY <1>5 DEF Shutdown, ClaimInv, KeepsRunning
  <2>2. QED
    BY <1>0, <1>5, <2>1, ClaimFrame DEF Shutdown, TypeOK, Fresh, Busy
<1>6. ASSUME NEW p \in Processors, FetchRetryable(p) PROVE ClaimInv'
  <2>1. /\ Oldest(RetryBatch, Retryable) \in SUBSET Ids /\ p \in Workers
        /\ \A i \in Oldest(RetryBatch, Retryable) : status[i] = "Failed"
    BY OldestSubset DEF Retryable, InStatus, Workers
  <2>2. QED
    BY <1>0, <1>6, <2>1, ClaimByFetch DEF FetchRetryable, TypeOK, Busy
<1>7. ASSUME NEW p \in Processors, FetchPending(p) PROVE ClaimInv'
  <2>1. /\ Oldest(FullBatch, InStatus("Pending")) \in SUBSET Ids
        /\ p \in Workers
        /\ \A i \in Oldest(FullBatch, InStatus("Pending")) :
             status[i] = "Pending"
    BY OldestSubset DEF InStatus, Workers
  <2>2. QED
    BY <1>0, <1>7, <2>1, ClaimByFetch DEF FetchPending, TypeOK, Busy
<1>8. ASSUME NEW c \in Callers, RetryFailed(c) PROVE ClaimInv'
  <2>1. /\ Oldest(FullBatch, Retryable) \in SUBSET Ids /\ c \in Workers
        /\ \A i \in Oldest(FullBatch, Retryable) : status[i] = "Failed"
    BY OldestSubset DEF Retryable, InStatus, Workers
  <2>2. QED
    BY <1>0, <1>8, <2>1, ClaimByFetch DEF RetryFailed, TypeOK, Busy
<1>9. ASSUME NEW w \in Workers,
             EndBatch(w) \/ Fault(w) \/ HandlerSucceeds(w)
      PROVE  ClaimInv'
  <2>1. CASE EndBatch(w) \/ HandlerSucceeds(w)
    BY <1>0, <2>1, ClaimFrame
       DEF EndBatch, HandlerSucceeds, AfterBatch, TypeOK, Fresh, Busy
  <2>2. CASE Fault(w)
    BY <1>0, <2>2, ClaimFrame
       DEF Fault, Crash, CheckFails, MarkFails, Finish, TypeOK, Fresh, Busy
  <2>3. QED
    BY <1>9, <2>1, <2>2
<1>10. ASSUME NEW w \in Workers, CheckAndMark(w) PROVE ClaimInv'
  BY <1>0, <1>10, ClaimByBegin
<1>11. ASSUME NEW w \in Workers,
              Skip(w) \/ HandlerFails(w) \/ AckEvent(w) \/ AckRecord(w)
       PROVE  ClaimInv'
  BY <1>0, <1>11, ClaimByWork
     DEF Skip, HandlerFails, AckEvent, AckRecord, MarkProcessed, Finish,
         TypeOK, Busy
<1>12. ASSUME NEW w \in Workers, Nack(w) PROVE ClaimInv'
  BY <1>0, <1>12, ClaimByWork
     DEF Nack, MarkDeadLetter, MarkFailed, Finish, TypeOK, Busy
<1>13. CASE UNCHANGED vars
  BY <1>0, <1>13, ClaimFrame DEF vars, TypeOK, Fresh, Busy
<1>14. QED
  BY <1>1, <1>2, <1>3, <1>4, <1>5, <1>6, <1>7, <1>8, <1>9, <1>10, <1>11,
     <1>12, <1>13
     DEF Next, Task, ProcessSingleEvent

(* SKIP LOCKED gives an event to one worker at a time, for any number of   *)
(* servers and callers, while it is young and no operator has called.      *)
THEOREM ClaimsAreExclusive == Spec => []ClaimedByOne
<1>1. Init => ClaimInv
  <2> SUFFICES ASSUME Init PROVE ClaimInv
    OBVIOUS
  <2>1. \A w \in Workers : batch[w] = {} /\ pc[w] = "stopped"
    BY DEF Init
  <2>2. KeepsRunning
    BY <2>1 DEF KeepsRunning, Workers
  <2>3. \A w \in Workers : HeldOnce(w) /\ HeldNow(w)
    BY <2>1 DEF HeldOnce, HeldNow, Busy
  <2>4. ClaimedByOne
    BY <2>1 DEF ClaimedByOne, Holds
  <2>5. QED
    BY <2>2, <2>3, <2>4 DEF ClaimInv
<1>2. ClaimInv => ClaimedByOne
  BY DEF ClaimInv
<1>3. QED
  BY <1>1, <1>2, TypeInvariance, ClaimStep, PTL DEF Spec

-----------------------------------------------------------------------------
(***************************************************************************)
(* What one server promises that two do not: an acknowledged event stays   *)
(* acknowledged, handlers are repeated only for a cause, and the abstract  *)
(* EventDelivery is implemented.  abt-web runs one EventProcessor, so this *)
(* is the deployment as it is; the number of events, handlers, retries,    *)
(* faults and operator calls is arbitrary.                                 *)
(***************************************************************************)

(***************************************************************************)
(* The server p holds nothing when it resets stale events, and holds every *)
(* event that was not redriven once, Processing until it is acknowledged.  *)
(***************************************************************************)
EmptyHands(p) ==
  pc[p] \notin {"fetchPending", "next"} /\ ~Busy(p) => batch[p] = {}

OneCopy(p) ==
  \A e \in batch[p] : e.id \notin deadOnce =>
    /\ status[e.id] = "Processing"
    /\ ~(Busy(p) /\ cur[p].id = e.id)
    /\ \A f \in batch[p] : f.id = e.id => f = e

InHand(p) ==
  Busy(p) /\ cur[p].id \notin deadOnce =>
    \/ status[cur[p].id] = "Processing"
    \/ pc[p] = "record" /\ status[cur[p].id] = "Processed"

OneInv(p) == EmptyHands(p) /\ OneCopy(p) /\ InHand(p)

AckedKept ==
  \A i \in Ids \ deadOnce : status[i] = "Processed" => status'[i] = "Processed"

(* A step that claims and begins nothing: it leaves what is claimed alone, *)
(* or has nothing in hand                                                  *)
LEMMA OneFrame ==
  ASSUME NEW p, TypeOK, p \in Workers, OneInv(p),
         deadOnce \subseteq deadOnce',
         batch'[p] \subseteq batch[p],
         Busy(p)' => pc'[p] = pc[p] /\ cur'[p] = cur[p],
         EmptyHands(p)',
         \A i \in Ids : status[i] = "Processed" => status'[i] = "Processed",
         \/ batch'[p] = {} /\ ~Busy(p)'
         \/ \A i \in Ids : status[i] = "Processing" => status'[i] = "Processing"
  PROVE  OneInv(p)' /\ AckedKept
<1>1. Busy(p)' => Busy(p)
  BY DEF Busy
<1>2. /\ \A e \in batch[p] : e.id \in Ids
      /\ cur[p].id \in Ids
  BY DEF TypeOK, Fetched
<1>3. OneCopy(p)'
  BY <1>1, <1>2 DEF OneInv, OneCopy
<1>4. InHand(p)'
  BY <1>1, <1>2 DEF OneInv, InHand
<1>5. QED
  BY <1>3, <1>4 DEF OneInv, AckedKept

LEMMA OneByFetch ==
  ASSUME NEW p, TypeOK, p \in Workers, OneInv(p),
         NEW S \in SUBSET Ids, NEW source, Claim(p, S, source),
         \A i \in S : status[i] \in {"Pending", "Failed"},
         UNCHANGED <<cur, deadOnce>>,
         ~Busy(p)', pc'[p] \in {"fetchPending", "next"}
  PROVE  OneInv(p)' /\ AckedKept
<1> DEFINE New == {[id |-> i, retry |-> retry[i], from |-> source] : i \in S}
<1>1. /\ batch'[p] = batch[p] \cup New
      /\ \A i \in Ids : status'[i] = IF i \in S THEN "Processing" ELSE status[i]
  BY DEF Claim, TypeOK
<1>2. /\ \A e \in New : e.id \in S
      /\ \A e, f \in New : e.id = f.id => e = f
  OBVIOUS
<1> HIDE DEF New
<1>3. \A e \in batch[p] : e.id \in Ids
  BY DEF TypeOK, Fetched
<1>4. OneCopy(p)'
  <2> SUFFICES ASSUME NEW e \in batch'[p], e.id \notin deadOnce
               PROVE  /\ status'[e.id] = "Processing"
                      /\ \A f \in batch'[p] : f.id = e.id => f = e
    BY DEF OneCopy
  <2>1. \A f \in batch[p] : f.id \notin deadOnce => f.id \notin S
    BY DEF OneInv, OneCopy
  <2>2. CASE e \in batch[p]
    BY <1>1, <1>2, <1>3, <2>1, <2>2 DEF OneInv, OneCopy
  <2>3. CASE e \in New
    BY <1>1, <1>2, <2>1, <2>3
  <2>4. QED
    BY <1>1, <2>2, <2>3
<1>5. EmptyHands(p)' /\ InHand(p)'
  BY DEF EmptyHands, InHand
<1>6. QED
  BY <1>1, <1>4, <1>5 DEF OneInv, AckedKept

LEMMA OneByBegin ==
  ASSUME NEW p, TypeOK, p \in Workers, OneInv(p), CheckAndMark(p)
  PROVE  OneInv(p)' /\ AckedKept
<1>1. PICK e \in batch[p] :
        /\ batch' = [batch EXCEPT ![p] = @ \ {e}]
        /\ cur' = [cur EXCEPT ![p] = e]
        /\ pc' = [pc EXCEPT ![p] = IF idem[e.id] = "Processed"
                                   THEN "skip" ELSE "dispatch"]
  BY DEF CheckAndMark, Goto
<1>2. UNCHANGED <<status, deadOnce>>
  BY DEF CheckAndMark, table
<1>3. /\ batch'[p] = batch[p] \ {e} /\ cur'[p] = e
      /\ pc'[p] \in {"skip", "dispatch"}
  BY <1>1 DEF TypeOK
<1>4. OneCopy(p)'
  BY <1>2, <1>3 DEF OneInv, OneCopy
<1>5. InHand(p)'
  BY <1>2, <1>3 DEF OneInv, OneCopy, InHand
<1>6. EmptyHands(p)'
  BY <1>3 DEF EmptyHands, Busy
<1>7. QED
  BY <1>2, <1>4, <1>5, <1>6 DEF OneInv, AckedKept

(* Working on the event in hand: a statement that turns an event that was  *)
(* not redriven into anything else finds it Processing *)
LEMMA OneByWork ==
  ASSUME NEW p, TypeOK, p \in Workers, OneInv(p), Busy(p),
         UNCHANGED batch, deadOnce \subseteq deadOnce',
         \A i \in Ids \ {cur[p].id} : status'[i] = status[i],
         \/ status'[cur[p].id] \in {status[cur[p].id], "Processed"}
         \/ pc[p] = "nack",
         Busy(p)' =>
           /\ cur'[p] = cur[p] /\ pc[p] = "dispatch"
           /\ \/ status'[cur[p].id] = status[cur[p].id]
              \/ pc'[p] = "record" /\ status'[cur[p].id] = "Processed"
              \/ status[cur[p].id] # "Processing",
         Busy(p)' \/ pc'[p] = "next"
  PROVE  OneInv(p)' /\ AckedKept
<1>1. cur[p].id \in Ids /\ \A e \in batch[p] : e.id \in Ids
  BY DEF TypeOK, Fetched
<1>2. OneCopy(p)'
  BY <1>1 DEF OneInv, OneCopy
<1>3. InHand(p)'
  BY <1>1 DEF OneInv, InHand
<1>4. EmptyHands(p)'
  BY DEF EmptyHands
<1>5. AckedKept
  BY <1>1 DEF AckedKept, OneInv, InHand
<1>6. QED
  BY <1>2, <1>3, <1>4, <1>5 DEF OneInv

LEMMA OneStep ==
  ASSUME NEW p \in Processors, Workers = {p}
  PROVE  TypeOK /\ OneInv(p) /\ [Next]_vars => OneInv(p)' /\ AckedKept
<1> SUFFICES ASSUME TypeOK, OneInv(p), [Next]_vars
             PROVE  OneInv(p)' /\ AckedKept
  OBVIOUS
<1>0. /\ p \in Workers /\ p \notin Callers /\ Callers = {}
      /\ \A q \in Processors : q = p
      /\ \A w \in Workers : w = p
  BY ConstantsAssumption DEF Workers
<1> USE DEF Goto, table, worker, budget, history
<1>1. ASSUME NEW k \in Keys, Publish(k) PROVE OneInv(p)' /\ AckedKept
  BY <1>0, <1>1, OneFrame
     DEF Publish, vars, TypeOK, OneInv, EmptyHands, Busy
<1>2. ASSUME NEW i \in Ids, Age(i) \/ ArchiveDeadLetters(i)
      PROVE  OneInv(p)' /\ AckedKept
  BY <1>0, <1>2, OneFrame
     DEF Age, ArchiveDeadLetters, TypeOK, OneInv, EmptyHands, Busy
<1>3. ASSUME NEW i \in Ids, RetryOne(i) PROVE OneInv(p)' /\ AckedKept
  <2>1. /\ i \in deadOnce
        /\ \A j \in Ids \ {i} : status'[j] = status[j]
        /\ UNCHANGED <<pc, batch, cur, deadOnce>>
    BY <1>3 DEF RetryOne, TypeOK
  <2>2. /\ cur[p].id \in Ids
        /\ \A e \in batch[p] : e.id \in Ids
    BY <1>0 DEF TypeOK, Fetched
  <2>3. OneCopy(p)' /\ InHand(p)' /\ EmptyHands(p)'
    BY <2>1, <2>2 DEF OneInv, OneCopy, InHand, EmptyHands, Busy
  <2>4. QED
    BY <2>1, <2>3 DEF OneInv, AckedKept
<1>4. CASE Start(p) \/ Wake(p) \/ Shutdown(p)
  <2>1. /\ batch[p] = {} /\ UNCHANGED <<batch, cur, deadOnce>>
        /\ pc'[p] \in {"connect", "fetchRetryable", "stopped"}
    BY <1>0, <1>4
       DEF Start, Wake, Shutdown, OneInv, EmptyHands, Busy, TypeOK
  <2>2. \A i \in Ids : status[i] = "Processed" => status'[i] = "Processed"
    BY <1>4 DEF Start, Wake, Shutdown, ResetStaleProcessing, TypeOK
  <2>3. EmptyHands(p)' /\ ~Busy(p)'
    BY <2>1 DEF EmptyHands, Busy
  <2>4. QED
    BY <1>0, <2>1, <2>2, <2>3, OneFrame
<1>5. CASE Stop(p) \/ Connect(p) \/ ListenFails(p)
  BY <1>0, <1>5, OneFrame
     DEF Stop, Connect, ListenFails, TypeOK, OneInv, EmptyHands, Busy
<1>6. CASE FetchFails(p) \/ EndBatch(p)
  <2>1. /\ batch'[p] = {} /\ UNCHANGED <<status, deadOnce>>
        /\ pc'[p] \in {"wait", "shutdown"}
    BY <1>0, <1>6 DEF FetchFails, EndBatch, AfterBatch, TypeOK
  <2>2. EmptyHands(p)' /\ ~Busy(p)'
    BY <2>1 DEF EmptyHands, Busy
  <2>3. QED
    BY <1>0, <2>1, <2>2, OneFrame
<1>7. CASE FetchRetryable(p)
  <2>1. /\ Oldest(RetryBatch, Retryable) \in SUBSET Ids
        /\ \A i \in Oldest(RetryBatch, Retryable) : status[i] = "Failed"
    BY OldestSubset DEF Retryable, InStatus
  <2>2. QED
    BY <1>0, <1>7, <2>1, OneByFetch DEF FetchRetryable, TypeOK, Busy
<1>8. CASE FetchPending(p)
  <2>1. /\ Oldest(FullBatch, InStatus("Pending")) \in SUBSET Ids
        /\ \A i \in Oldest(FullBatch, InStatus("Pending")) :
             status[i] = "Pending"
    BY OldestSubset DEF InStatus
  <2>2. QED
    BY <1>0, <1>8, <2>1, OneByFetch DEF FetchPending, TypeOK, Busy
<1>9. CASE CheckAndMark(p)
  BY <1>0, <1>9, OneByBegin
<1>10. CASE Skip(p) \/ HandlerFails(p) \/ AckEvent(p) \/ AckRecord(p)
  BY <1>0, <1>10, OneByWork
     DEF Skip, HandlerFails, AckEvent, AckRecord, MarkProcessed, Finish,
         TypeOK, Fetched, Busy
<1>11. CASE Nack(p)
  BY <1>0, <1>11, OneByWork
     DEF Nack, MarkDeadLetter, MarkFailed, Finish, TypeOK, Busy
<1>12. CASE HandlerSucceeds(p)
  BY <1>0, <1>12, OneFrame
     DEF HandlerSucceeds, TypeOK, OneInv, EmptyHands, Busy
<1>13. CASE Crash(p)
  <2>1. /\ batch'[p] = {} /\ pc'[p] = "stopped"
        /\ UNCHANGED <<status, deadOnce>>
    BY <1>0, <1>13 DEF Crash, TypeOK
  <2>2. EmptyHands(p)' /\ ~Busy(p)'
    BY <2>1 DEF EmptyHands, Busy
  <2>3. QED
    BY <1>0, <2>1, <2>2, OneFrame
<1>14. CASE CheckFails(p) \/ MarkFails(p)
  <2>1. /\ batch'[p] \subseteq batch[p] /\ pc'[p] = "next"
        /\ UNCHANGED <<status, deadOnce>>
    BY <1>0, <1>14 DEF CheckFails, MarkFails, Finish, TypeOK
  <2>2. EmptyHands(p)' /\ ~Busy(p)'
    BY <2>1 DEF EmptyHands, Busy
  <2>3. QED
    BY <1>0, <2>1, <2>2, OneFrame
<1>15. CASE UNCHANGED vars
  BY <1>0, <1>15, OneFrame DEF vars, OneInv, EmptyHands, Busy
<1>16. QED
  BY <1>0, <1>1, <1>2, <1>3, <1>4, <1>5, <1>6, <1>7, <1>8, <1>9, <1>10,
     <1>11, <1>12, <1>13, <1>14, <1>15
     DEF Next, Task, ProcessSingleEvent, Fault

LEMMA OneStart ==
  ASSUME NEW p \in Processors
  PROVE  Init => OneInv(p)
<1> SUFFICES ASSUME Init PROVE OneInv(p)
  OBVIOUS
<1>1. batch[p] = {} /\ pc[p] = "stopped"
  BY DEF Init, Workers
<1>2. QED
  BY <1>1 DEF OneInv, EmptyHands, OneCopy, InHand, Busy

(* With one server, an acknowledged event stays acknowledged until an      *)
(* operator redrives it.                                                   *)
THEOREM AcknowledgedForGood ==
  ASSUME NEW p \in Processors, Workers = {p}
  PROVE  Spec => ProcessedIsFinal
<1>1. TypeOK /\ OneInv(p) /\ [Next]_vars => OneInv(p)' /\ AckedKept
  BY OneStep
<1>2. AckedKept =>
        \A i \in Ids \ deadOnce :
          status[i] = "Processed" => status'[i] = "Processed"
  BY DEF AckedKept
<1>3. Init => OneInv(p)
  BY OneStart
<1>4. QED
  BY <1>1, <1>2, <1>3, TypeInvariance, PTL DEF Spec, ProcessedIsFinal

(***************************************************************************)
(* The retry budget.  The server p may hold two copies of an event, one    *)
(* fetched as retryable and, redriven in between, one fetched as pending:  *)
(* each that is not exhausted still finds room to count a failure.         *)
(***************************************************************************)
OneOfEach(p) ==
  /\ \A e, f \in batch[p] : e.id = f.id /\ e.from = f.from => e = f
  /\ Busy(p) => \A f \in batch[p] : f.id = cur[p].id => f.from # cur[p].from
  /\ pc[p] = "fetchPending" => \A e \in batch[p] : e.from = "retryable"

(* e alone, and e with another copy f of the same event                    *)
RoomFor(e) == ~Exhausted(e) => retry[e.id] + 1 <= MaxRetries
RoomForBoth(e, f) ==
  e.id = f.id /\ ~Exhausted(e) /\ ~Exhausted(f) => retry[e.id] + 2 <= MaxRetries

Room(p) ==
  /\ \A e \in batch[p] : RoomFor(e) /\ \A f \in batch[p] : e # f => RoomForBoth(e, f)
  /\ Busy(p) => RoomFor(cur[p]) /\ \A f \in batch[p] : RoomForBoth(cur[p], f)

WithinBudget == \A i \in Ids : retry[i] <= MaxRetries

RoomInv(p) == WithinBudget /\ OneOfEach(p) /\ Room(p)

(* A step that fetches, begins and fails nothing                           *)
LEMMA RoomFrame ==
  ASSUME NEW p, TypeOK, p \in Workers, RoomInv(p),
         \A i \in Ids : retry'[i] \in {0, retry[i]},
         batch'[p] \subseteq batch[p],
         Busy(p)' => Busy(p) /\ cur'[p] = cur[p],
         pc'[p] = "fetchPending" => pc[p] = "fetchPending"
  PROVE  RoomInv(p)'
<1>1. \A i \in Ids : retry[i] \in Nat /\ (retry'[i] = 0 \/ retry'[i] = retry[i])
  BY DEF TypeOK
<1>2. MaxRetries \in Nat /\ MaxRetries >= 0
  BY ConstantsAssumption
<1>3. WithinBudget'
  BY <1>1, <1>2 DEF RoomInv, WithinBudget
<1>4. OneOfEach(p)'
  BY DEF RoomInv, OneOfEach
<1>5. cur[p] \in Fetched /\ batch[p] \subseteq Fetched
  BY DEF TypeOK
<1>6. ASSUME NEW e \in Fetched
      PROVE  /\ RoomFor(e) => RoomFor(e)'
             /\ \A f \in Fetched : RoomForBoth(e, f) => RoomForBoth(e, f)'
  <2>1. e.id \in Ids /\ e.retry \in Nat
    BY DEF Fetched
  <2>2. retry[e.id] \in Nat /\ (retry'[e.id] = 0 \/ retry'[e.id] = retry[e.id])
    BY <1>1, <2>1
  <2>3. RoomFor(e) => RoomFor(e)'
    BY <1>2, <2>1, <2>2 DEF RoomFor, Exhausted
  <2>4. ASSUME NEW f \in Fetched, RoomForBoth(e, f)  PROVE RoomForBoth(e, f)'
    BY <1>2, <2>1, <2>2, <2>4 DEF RoomForBoth, Exhausted
  <2>5. QED
    BY <2>3, <2>4
<1>7. \A e \in batch'[p] : RoomFor(e)' /\ \A f \in batch'[p] : e # f => RoomForBoth(e, f)'
  BY <1>5, <1>6 DEF RoomInv, Room
<1>8. Busy(p)' => RoomFor(cur[p])' /\ \A f \in batch'[p] : RoomForBoth(cur[p], f)'
  BY <1>5, <1>6 DEF RoomInv, Room
<1>9. Room(p)'
  BY <1>7, <1>8 DEF Room, RoomFor, RoomForBoth, Exhausted
<1>10. QED
  BY <1>3, <1>4, <1>9 DEF RoomInv

(* A claim remembers the retry_count it read: if that leaves a failure to  *)
(* count, it leaves two.                                                   *)
LEMMA RoomByFetch ==
  ASSUME NEW p, TypeOK, p \in Workers, RoomInv(p),
         NEW S \in SUBSET Ids, NEW source \in {"retryable", "pending"}, Claim(p, S, source),
         UNCHANGED retry, ~Busy(p)',
         \A e \in batch[p] : e.from # source,
         pc'[p] = "fetchPending" => batch[p] = {} /\ source = "retryable"
  PROVE  RoomInv(p)'
<1> DEFINE New == {[id |-> i, retry |-> retry[i], from |-> source] : i \in S}
<1>1. batch'[p] = batch[p] \cup New
  BY DEF Claim, TypeOK
<1>2. \A e \in New : /\ e \in Fetched /\ e.retry = retry[e.id] /\ e.from = source
                     /\ \A f \in New : f.id = e.id => f = e
  BY DEF TypeOK, Fetched
<1> HIDE DEF New
<1>3. \A e \in batch'[p] : e \in Fetched /\ e.id \in Ids /\ e.retry \in Nat /\ retry[e.id] \in Nat
  BY <1>1, <1>2 DEF TypeOK, Fetched
<1>4. OneOfEach(p)'
  BY <1>1, <1>2 DEF RoomInv, OneOfEach
<1>5. ASSUME NEW e \in New, ~Exhausted(e)  PROVE retry[e.id] + 2 <= MaxRetries
  <2>1. e.retry \in Nat /\ e.retry = retry[e.id] /\ MaxRetries \in Nat
    BY <1>1, <1>2, <1>3, ConstantsAssumption
  <2>2. QED
    BY <1>5, <2>1 DEF Exhausted
<1>6. \A e \in batch'[p] : RoomFor(e) /\ \A f \in batch'[p] : e # f => RoomForBoth(e, f)
  <2> SUFFICES ASSUME NEW e \in batch'[p]
               PROVE  RoomFor(e) /\ \A f \in batch'[p] : e # f => RoomForBoth(e, f)
    OBVIOUS
  <2>1. CASE e \in New
    <3>1. RoomFor(e)
      <4>1. retry[e.id] \in Nat /\ MaxRetries \in Nat
        BY <1>3, ConstantsAssumption
      <4>2. QED
        BY <1>5, <2>1, <4>1 DEF RoomFor
    <3>2. \A f \in batch'[p] : RoomForBoth(e, f)
      BY <1>5, <2>1 DEF RoomForBoth
    <3>3. QED
      BY <3>1, <3>2
  <2>2. CASE e \in batch[p]
    <3>1. RoomFor(e)
      BY <2>2 DEF RoomInv, Room
    <3>2. ASSUME NEW f \in batch'[p], e # f  PROVE RoomForBoth(e, f)
      <4>1. CASE f \in New
        BY <1>5, <4>1 DEF RoomForBoth
      <4>2. CASE f \in batch[p]
        BY <2>2, <3>2, <4>2 DEF RoomInv, Room
      <4>3. QED
        BY <1>1, <4>1, <4>2
    <3>3. QED
      BY <3>1, <3>2
  <2>3. QED
    BY <1>1, <2>1, <2>2
<1>7. Room(p)'
  BY <1>6 DEF Room, RoomFor, RoomForBoth, Exhausted
<1>8. QED
  BY <1>4, <1>7 DEF RoomInv, WithinBudget

LEMMA RoomByBegin ==
  ASSUME NEW p, TypeOK, p \in Workers, RoomInv(p), CheckAndMark(p)
  PROVE  RoomInv(p)'
<1>1. PICK e \in batch[p] : batch'[p] = batch[p] \ {e} /\ cur'[p] = e
  BY DEF CheckAndMark, TypeOK
<1>2. UNCHANGED retry /\ pc'[p] \in {"skip", "dispatch"}
  BY DEF CheckAndMark, Goto, table, TypeOK
<1>3. OneOfEach(p)'
  BY <1>1, <1>2 DEF RoomInv, OneOfEach
<1>4. RoomFor(e) /\ \A f \in batch'[p] : RoomForBoth(e, f)
  BY <1>1 DEF RoomInv, Room
<1>5. \A d \in batch'[p] : RoomFor(d) /\ \A f \in batch'[p] : d # f => RoomForBoth(d, f)
  BY <1>1 DEF RoomInv, Room
<1>6. Room(p)'
  BY <1>1, <1>2, <1>4, <1>5 DEF Room, RoomFor, RoomForBoth, Exhausted
<1>7. QED
  BY <1>2, <1>3, <1>6 DEF RoomInv, WithinBudget

(* Counting a failure uses the room of the event in hand, and half of what *)
(* it had together with its other copy.                                    *)
LEMMA RoomByNack ==
  ASSUME NEW p, TypeOK, p \in Workers, RoomInv(p), Nack(p)
  PROVE  RoomInv(p)'
<1>1. /\ pc'[p] = "next" /\ batch' = batch /\ pc[p] = "nack"
      /\ Busy(p) /\ ~Busy(p)'
  BY DEF Nack, Finish, Goto, TypeOK, Busy
<1>2. CASE UNCHANGED retry
  BY <1>1, <1>2, RoomFrame DEF TypeOK
<1>3. ASSUME ~Exhausted(cur[p]), MarkFailed(cur[p].id)  PROVE RoomInv(p)'
  <2> DEFINE c == cur[p]
  <2>1. c \in Fetched /\ c.id \in Ids /\ retry[c.id] \in Nat
    BY DEF TypeOK, Fetched
  <2>2. /\ retry'[c.id] \in {retry[c.id], retry[c.id] + 1}
        /\ \A i \in Ids \ {c.id} : retry'[i] = retry[i]
    BY <1>3, <2>1 DEF MarkFailed, TypeOK
  <2>3. retry[c.id] + 1 <= MaxRetries /\ \A f \in batch[p] : RoomForBoth(c, f)
    BY <1>1, <1>3 DEF RoomInv, Room, RoomFor
  <2>4. WithinBudget'
    <3>1. retry'[c.id] <= MaxRetries
      BY <2>1, <2>2, <2>3, ConstantsAssumption
    <3>2. QED
      BY <2>2, <3>1 DEF RoomInv, WithinBudget
  <2>5. OneOfEach(p)'
    BY <1>1 DEF RoomInv, OneOfEach
  <2>6. \A e \in batch[p] : e.id \in Ids /\ e \in Fetched
    BY DEF TypeOK, Fetched
  <2>7. ASSUME NEW e \in batch[p], NEW f \in batch[p], e # f, e.id = f.id
        PROVE  e.id # c.id
    <3>1. /\ e.from \in {"retryable", "pending"} /\ f.from \in {"retryable", "pending"}
          /\ c.from \in {"retryable", "pending"}
      BY <2>1, <2>6 DEF Fetched
    <3>2. e.from # f.from
      BY <2>7 DEF RoomInv, OneOfEach
    <3>3. e.id = c.id => e.from # c.from /\ f.from # c.from
      BY <1>1, <2>7 DEF RoomInv, OneOfEach
    <3>4. QED
      BY <3>1, <3>2, <3>3
  <2>8. ASSUME NEW e \in batch[p], ~Exhausted(e)  PROVE retry'[e.id] + 1 <= MaxRetries
    <3>1. CASE e.id = c.id
      <4>1. retry[c.id] + 2 <= MaxRetries
        BY <1>3, <2>3, <2>8, <3>1 DEF RoomForBoth
      <4>2. QED
        BY <2>1, <2>2, <3>1, <4>1, ConstantsAssumption
    <3>2. CASE e.id # c.id
      <4>1. retry'[e.id] = retry[e.id]
        BY <2>2, <2>6, <3>2
      <4>2. QED
        BY <2>8, <4>1 DEF RoomInv, Room, RoomFor
    <3>3. QED
      BY <3>1, <3>2
  <2>9. ASSUME NEW e \in batch[p], NEW f \in batch[p], e # f, e.id = f.id,
               ~Exhausted(e), ~Exhausted(f)
        PROVE  retry'[e.id] + 2 <= MaxRetries
    <3>1. retry'[e.id] = retry[e.id]
      BY <2>2, <2>6, <2>7, <2>9
    <3>2. QED
      BY <2>9, <3>1 DEF RoomInv, Room, RoomForBoth
  <2>10. Room(p)'
    BY <1>1, <2>8, <2>9 DEF Room, RoomFor, RoomForBoth, Exhausted
  <2>11. QED
    BY <2>4, <2>5, <2>10 DEF RoomInv
<1>4. QED
  BY <1>2, <1>3 DEF Nack, MarkDeadLetter

LEMMA RoomStep ==
  ASSUME NEW p \in Processors, Workers = {p}
  PROVE  TypeOK /\ OneInv(p) /\ RoomInv(p) /\ [Next]_vars => RoomInv(p)'
<1> SUFFICES ASSUME TypeOK, OneInv(p), RoomInv(p), [Next]_vars  PROVE RoomInv(p)'
  OBVIOUS
<1>0. /\ p \in Workers /\ p \notin Callers /\ Callers = {}
      /\ \A q \in Processors : q = p
      /\ \A w \in Workers : w = p
  BY ConstantsAssumption DEF Workers
<1> USE DEF Goto, table, worker, budget, history
<1>1. ASSUME NEW k \in Keys, Publish(k)  PROVE RoomInv(p)'
  BY <1>0, <1>1, RoomFrame DEF Publish, vars, TypeOK, Busy
<1>2. ASSUME NEW i \in Ids, Age(i) \/ ArchiveDeadLetters(i) \/ RetryOne(i)
      PROVE  RoomInv(p)'
  BY <1>0, <1>2, RoomFrame DEF Age, ArchiveDeadLetters, RetryOne, TypeOK, Busy
<1>3. CASE Start(p) \/ Wake(p) \/ Shutdown(p) \/ Stop(p) \/ Connect(p) \/ ListenFails(p)
  BY <1>0, <1>3, RoomFrame
     DEF Start, Wake, Shutdown, Stop, Connect, ListenFails, TypeOK, Busy
<1>4. CASE FetchFails(p) \/ EndBatch(p)
  <2>1. /\ batch'[p] = {} /\ pc'[p] \in {"wait", "shutdown"} /\ UNCHANGED retry
    BY <1>0, <1>4 DEF FetchFails, EndBatch, AfterBatch, TypeOK
  <2>2. QED
    BY <1>0, <2>1, RoomFrame DEF Busy
<1>5. CASE FetchRetryable(p)
  <2>1. Oldest(RetryBatch, Retryable) \in SUBSET Ids
    BY OldestSubset DEF Retryable, InStatus
  <2>2. batch[p] = {} /\ ~Busy(p)' /\ UNCHANGED retry
    BY <1>0, <1>5 DEF FetchRetryable, OneInv, EmptyHands, Busy, TypeOK
  <2>3. QED
    BY <1>0, <1>5, <2>1, <2>2, RoomByFetch DEF FetchRetryable
<1>6. CASE FetchPending(p)
  <2>1. Oldest(FullBatch, InStatus("Pending")) \in SUBSET Ids
    BY OldestSubset DEF InStatus
  <2>2. /\ \A e \in batch[p] : e.from # "pending"
        /\ pc'[p] = "next" /\ ~Busy(p)' /\ UNCHANGED retry
    BY <1>0, <1>6 DEF FetchPending, RoomInv, OneOfEach, Busy, TypeOK
  <2>3. QED
    BY <1>0, <1>6, <2>1, <2>2, RoomByFetch DEF FetchPending
<1>7. CASE CheckAndMark(p)
  BY <1>0, <1>7, RoomByBegin
<1>8. CASE Skip(p) \/ HandlerFails(p) \/ AckEvent(p) \/ AckRecord(p) \/ HandlerSucceeds(p)
  BY <1>0, <1>8, RoomFrame
     DEF Skip, HandlerFails, AckEvent, AckRecord, HandlerSucceeds, Finish, TypeOK, Busy
<1>9. CASE Nack(p)
  BY <1>0, <1>9, RoomByNack
<1>10. CASE Crash(p) \/ CheckFails(p) \/ MarkFails(p)
  <2>1. /\ batch'[p] \subseteq batch[p] /\ pc'[p] \in {"stopped", "next"} /\ UNCHANGED retry
    BY <1>0, <1>10 DEF Crash, CheckFails, MarkFails, Finish, TypeOK
  <2>2. QED
    BY <1>0, <2>1, RoomFrame DEF Busy
<1>11. CASE UNCHANGED vars
  BY <1>0, <1>11, RoomFrame DEF vars, Busy
<1>12. QED
  BY <1>0, <1>1, <1>2, <1>3, <1>4, <1>5, <1>6, <1>7, <1>8, <1>9, <1>10, <1>11
     DEF Next, Task, ProcessSingleEvent, Fault

(* With one server, retry_count never runs past max_retries: no Failed     *)
(* event falls out of the reach of fetch_retryable, whatever operators     *)
(* redrive and whatever fails.                                             *)
THEOREM NothingStranded ==
  ASSUME NEW p \in Processors, Workers = {p}
  PROVE  Spec => []NoEventStranded
<1>1. Init => RoomInv(p)
  <2> SUFFICES ASSUME Init PROVE RoomInv(p)
    OBVIOUS
  <2>1. batch[p] = {} /\ pc[p] = "stopped" /\ \A i \in Ids : retry[i] = 0
    BY DEF Init, Workers
  <2>2. WithinBudget
    BY <2>1, ConstantsAssumption DEF WithinBudget
  <2>3. QED
    BY <2>1, <2>2 DEF RoomInv, OneOfEach, Room, Busy
<1>2. RoomInv(p) => NoEventStranded
  BY DEF RoomInv, WithinBudget, NoEventStranded, InStatus
<1>3. Init => OneInv(p)
  BY OneStart
<1>4. TypeOK /\ OneInv(p) /\ [Next]_vars => OneInv(p)'
  BY OneStep
<1>5. TypeOK /\ OneInv(p) /\ RoomInv(p) /\ [Next]_vars => RoomInv(p)'
  BY RoomStep
<1>6. QED
  BY <1>1, <1>2, <1>3, <1>4, <1>5, TypeInvariance, PTL DEF Spec

(***************************************************************************)
(* Repetition.  As long as nothing has failed to be written and no         *)
(* operator has called, nobody holds a dead letter, and every handler that *)
(* has succeeded on an open event did so in this dispatch or before a      *)
(* failure, the last one only at the end of this dispatch.                 *)
(***************************************************************************)
Clean == faults = 0 /\ operations = 0

At(p, i) == pc[p] = "dispatch" /\ cur[p].id = i

DeadAtRest(p) ==
  \A i \in deadOnce : status[i] = "DeadLetter" /\ ~Holds(p, i)

ThisDispatch(p) ==
  \A i \in Ids : \A h \in delivered[i] :
    \/ status[i] = "Processed"
    \/ failures[i] > 0
    \/ At(p, i) /\ h < next[p]

LastAtTheEnd(p) ==
  \A i \in Ids : NHandlers \in delivered[i] =>
    \/ status[i] = "Processed"
    \/ At(p, i) /\ next[p] = NHandlers + 1

CleanInv(p) ==
  /\ Clean => DeadAtRest(p) /\ ThisDispatch(p) /\ LastAtTheEnd(p)
  /\ RepeatedForCause

(* A step outside the dispatch, which touches no settled event *)
LEMMA CleanFrame ==
  ASSUME NEW p, TypeOK, TypeOK', CleanInv(p),
         UNCHANGED <<delivered, repeated, failures, deadOnce>>,
         Clean' => Clean,
         Clean' =>
           /\ \A i \in Ids : status[i] \in {"Processed", "DeadLetter"}
                               => status'[i] = status[i]
           /\ \A i \in deadOnce : Holds(p, i)' => Holds(p, i)
           /\ pc[p] = "dispatch" =>
                pc'[p] = pc[p] /\ cur'[p] = cur[p] /\ next'[p] = next[p]
  PROVE  CleanInv(p)'
<1>1. RepeatedForCause'
  <2>1. /\ faults \in Nat /\ operations \in Nat
        /\ faults' \in Nat /\ operations' \in Nat
    BY DEF TypeOK
  <2>2. faults + operations > 0 => faults' + operations' > 0
    BY <2>1 DEF Clean
  <2>3. QED
    BY <2>2 DEF CleanInv, RepeatedForCause
<1>2. ASSUME Clean'
      PROVE  DeadAtRest(p)' /\ ThisDispatch(p)' /\ LastAtTheEnd(p)'
  <2>1. DeadAtRest(p) /\ ThisDispatch(p) /\ LastAtTheEnd(p)
    BY <1>2 DEF CleanInv
  <2>2. DeadAtRest(p)'
    BY <1>2, <2>1 DEF DeadAtRest, TypeOK
  <2>3. ThisDispatch(p)'
    BY <1>2, <2>1 DEF ThisDispatch, At
  <2>4. LastAtTheEnd(p)'
    BY <1>2, <2>1 DEF LastAtTheEnd, At
  <2>5. QED
    BY <2>2, <2>3, <2>4
<1>3. QED
  BY <1>1, <1>2 DEF CleanInv

(* A handler succeeds: it has not yet in this dispatch, and if it has      *)
(* before, that dispatch failed at a handler after it                      *)
LEMMA CleanBySuccess ==
  ASSUME NEW p, TypeOK, OneInv(p), CleanInv(p), p \in Workers,
         HandlerSucceeds(p)
  PROVE  CleanInv(p)'
<1> DEFINE i == cur[p].id
           h == next[p]
<1>1. /\ i \in Ids /\ At(p, i) /\ Busy(p) /\ h \in Handlers /\ h \in Nat
      /\ delivered' = [delivered EXCEPT ![i] = @ \cup {h}]
      /\ repeated' = [repeated EXCEPT ![i] = @ \cup (delivered[i] \cap {h})]
      /\ next'[p] = h + 1
      /\ UNCHANGED <<status, pc, cur, batch, failures, deadOnce, faults, operations>>
  BY DEF HandlerSucceeds, TypeOK, Fetched, At, Busy, Handlers, table, budget
<1>2. /\ delivered'[i] = delivered[i] \cup {h}
      /\ \A j \in Ids \ {i} : delivered'[j] = delivered[j]
      /\ repeated'[i] = repeated[i] \cup (delivered[i] \cap {h})
      /\ \A j \in Ids \ {i} : repeated'[j] = repeated[j]
  BY <1>1 DEF TypeOK
<1>3. Clean' <=> Clean
  BY <1>1 DEF Clean
<1>4. ASSUME Clean
      PROVE  DeadAtRest(p) /\ ThisDispatch(p) /\ LastAtTheEnd(p)
  BY <1>4 DEF CleanInv
<1>5. ASSUME Clean PROVE i \notin deadOnce /\ status[i] = "Processing"
  <2>1. i \notin deadOnce
    BY <1>1, <1>4, <1>5 DEF DeadAtRest, Holds, At
  <2>2. QED
    BY <1>1, <2>1 DEF OneInv, InHand, At
<1>6. ASSUME Clean, h \in delivered[i]
      PROVE  h < NHandlers /\ failures[i] > 0
  <2>1. failures[i] > 0
    BY <1>1, <1>4, <1>5, <1>6 DEF ThisDispatch
  <2>2. h # NHandlers
    BY <1>1, <1>4, <1>5, <1>6, ConstantsAssumption DEF LastAtTheEnd
  <2>3. QED
    BY <1>1, <2>1, <2>2, ConstantsAssumption DEF Handlers
<1>7. RepeatedForCause'
  <2> SUFFICES ASSUME NEW j \in Ids, NEW g \in repeated'[j]
               PROVE  \/ faults + operations > 0
                      \/ g < NHandlers /\ failures[j] > 0
    BY <1>1 DEF RepeatedForCause
  <2>1. CASE g \in repeated[j]
    BY <2>1 DEF CleanInv, RepeatedForCause
  <2>2. CASE g \notin repeated[j]
    <3>1. j = i /\ g = h /\ h \in delivered[i]
      BY <1>2, <2>2
    <3>2. faults \in Nat /\ operations \in Nat
      BY DEF TypeOK
    <3>3. faults + operations > 0 \/ Clean
      BY <3>2 DEF Clean
    <3>4. QED
      BY <1>6, <3>1, <3>3
  <2>3. QED
    BY <2>1, <2>2
<1>8. ASSUME Clean
      PROVE  DeadAtRest(p)' /\ ThisDispatch(p)' /\ LastAtTheEnd(p)'
  <2>1. DeadAtRest(p)'
    BY <1>1, <1>4, <1>8 DEF DeadAtRest, Holds
  <2>2. ThisDispatch(p)'
    <3> SUFFICES ASSUME NEW j \in Ids, NEW g \in delivered'[j]
                 PROVE  \/ status[j] = "Processed"
                        \/ failures[j] > 0
                        \/ At(p, j) /\ g < h + 1
      BY <1>1 DEF ThisDispatch, At
    <3>1. g \in Handlers
      BY <1>1, <1>2 DEF TypeOK
    <3>2. CASE g \in delivered[j]
      <4>1. \/ status[j] = "Processed"
            \/ failures[j] > 0
            \/ At(p, j) /\ g < h
        BY <1>4, <1>8, <3>2 DEF ThisDispatch
      <4>2. g < h => g < h + 1
        BY <1>1, <3>1, ConstantsAssumption DEF Handlers
      <4>3. QED
        BY <4>1, <4>2
    <3>3. CASE g \notin delivered[j]
      <4>1. j = i /\ g = h
        BY <1>2, <3>3
      <4>2. QED
        BY <1>1, <4>1
    <3>4. QED
      BY <3>2, <3>3
  <2>3. LastAtTheEnd(p)'
    <3> SUFFICES ASSUME NEW j \in Ids, NHandlers \in delivered'[j]
                 PROVE  \/ status[j] = "Processed"
                        \/ At(p, j) /\ h + 1 = NHandlers + 1
      BY <1>1 DEF LastAtTheEnd, At
    <3>1. CASE NHandlers \in delivered[j]
      <4>1. \/ status[j] = "Processed"
            \/ At(p, j) /\ h = NHandlers + 1
        BY <1>4, <1>8, <3>1 DEF LastAtTheEnd
      <4>2. h # NHandlers + 1
        BY <1>1, ConstantsAssumption DEF Handlers
      <4>3. QED
        BY <4>1, <4>2
    <3>2. CASE NHandlers \notin delivered[j]
      BY <1>1, <1>2, <3>2
    <3>3. QED
      BY <3>1, <3>2
  <2>4. QED
    BY <2>1, <2>2, <2>3
<1>9. QED
  BY <1>3, <1>7, <1>8 DEF CleanInv

(* The dispatch ends: with a failure, which is counted, or with the mark *)
LEMMA CleanByEnd ==
  ASSUME NEW p, TypeOK, TypeOK', OneInv(p), CleanInv(p), p \in Workers,
         HandlerFails(p) \/ AckEvent(p)
  PROVE  CleanInv(p)'
<1> DEFINE i == cur[p].id
<1>1. /\ i \in Ids /\ At(p, i) /\ Busy(p)
      /\ ~(\E j \in Ids : At(p, j)')
      /\ UNCHANGED <<delivered, repeated, cur, batch, deadOnce, faults, operations>>
      /\ \A j \in Ids \ {i} : failures'[j] = failures[j] /\ status'[j] = status[j]
  BY DEF HandlerFails, AckEvent, MarkProcessed, Goto, table, budget, history,
         TypeOK, Fetched, At, Busy
<1>2. /\ \A j \in Ids : failures[j] \in Nat
      /\ failures'[i] \in Nat /\ failures'[i] >= failures[i]
  BY <1>1 DEF HandlerFails, AckEvent, history, TypeOK
<1>3. Clean' <=> Clean
  BY <1>1 DEF Clean
<1>4. ASSUME Clean
      PROVE  DeadAtRest(p) /\ ThisDispatch(p) /\ LastAtTheEnd(p)
  BY <1>4 DEF CleanInv
<1>5. ASSUME Clean PROVE i \notin deadOnce /\ status[i] = "Processing"
  <2>1. i \notin deadOnce
    BY <1>1, <1>4, <1>5 DEF DeadAtRest, Holds, At
  <2>2. QED
    BY <1>1, <2>1 DEF OneInv, InHand, At
<1>6. ASSUME Clean
      PROVE  status'[i] = "Processed"
             \/ (failures'[i] > 0 /\ NHandlers \notin delivered[i])
  <2>1. CASE AckEvent(p)
    BY <1>1, <1>5, <1>6, <2>1 DEF AckEvent, MarkProcessed, TypeOK
  <2>2. CASE HandlerFails(p)
    <3>1. failures'[i] > 0
      BY <1>1, <1>2, <2>2 DEF HandlerFails, TypeOK
    <3>2. next[p] # NHandlers + 1
      BY <2>2, ConstantsAssumption DEF HandlerFails, Handlers
    <3>3. NHandlers \notin delivered[i]
      BY <1>1, <1>4, <1>5, <1>6, <3>2 DEF LastAtTheEnd
    <3>4. QED
      BY <3>1, <3>3
  <2>3. QED
    BY <2>1, <2>2
<1>7. RepeatedForCause'
  <2> SUFFICES ASSUME NEW j \in Ids, NEW g \in repeated[j]
               PROVE  \/ faults + operations > 0
                      \/ g < NHandlers /\ failures'[j] > 0
    BY <1>1 DEF RepeatedForCause
  <2>1. failures'[j] >= failures[j] /\ failures'[j] \in Nat
    BY <1>1, <1>2 DEF TypeOK
  <2>2. \/ faults + operations > 0
        \/ g < NHandlers /\ failures[j] > 0
    BY DEF CleanInv, RepeatedForCause
  <2>3. failures[j] > 0 => failures'[j] > 0
    BY <1>2, <2>1
  <2>4. QED
    BY <2>2, <2>3
<1>8. ASSUME Clean
      PROVE  DeadAtRest(p)' /\ ThisDispatch(p)' /\ LastAtTheEnd(p)'
  <2>1. DeadAtRest(p)'
    <3> SUFFICES ASSUME NEW j \in deadOnce
                 PROVE  status'[j] = "DeadLetter" /\ ~Holds(p, j)'
      BY <1>1 DEF DeadAtRest
    <3>1. j \in Ids /\ j # i /\ status[j] = "DeadLetter" /\ ~Holds(p, j)
      BY <1>4, <1>5, <1>8 DEF DeadAtRest, TypeOK
    <3>2. QED
      BY <1>1, <3>1 DEF Holds
  <2>2. ThisDispatch(p)'
    <3> SUFFICES ASSUME NEW j \in Ids, NEW g \in delivered[j]
                 PROVE  status'[j] = "Processed" \/ failures'[j] > 0
      BY <1>1 DEF ThisDispatch
    <3>1. CASE j = i
      BY <1>6, <1>8, <3>1
    <3>2. CASE j # i
      BY <1>1, <1>4, <1>8, <3>2 DEF ThisDispatch, At
    <3>3. QED
      BY <3>1, <3>2
  <2>3. LastAtTheEnd(p)'
    <3> SUFFICES ASSUME NEW j \in Ids, NHandlers \in delivered[j]
                 PROVE  status'[j] = "Processed"
      BY <1>1 DEF LastAtTheEnd
    <3>1. CASE j = i
      BY <1>6, <1>8, <3>1
    <3>2. CASE j # i
      BY <1>1, <1>4, <1>8, <3>2 DEF LastAtTheEnd, At
    <3>3. QED
      BY <3>1, <3>2
  <2>4. QED
    BY <2>1, <2>2, <2>3
<1>9. QED
  BY <1>3, <1>7, <1>8 DEF CleanInv

(* The dispatch that failed is recorded: only here an event turns into a   *)
(* dead letter, which was claimed once, and is not any more                *)
LEMMA CleanByNack ==
  ASSUME NEW p, TypeOK, TypeOK', OneInv(p), CleanInv(p), p \in Workers,
         Nack(p)
  PROVE  CleanInv(p)'
<1>0. PICK i : i = cur[p].id
  OBVIOUS
<1>1. /\ i \in Ids /\ Busy(p) /\ pc[p] = "nack" /\ pc'[p] = "next"
      /\ UNCHANGED <<delivered, repeated, failures, batch, faults, operations>>
      /\ \A j \in Ids \ {i} : status'[j] = status[j]
      /\ \/ status'[i] = IF status[i] = "Archived" THEN "Archived" ELSE "DeadLetter"
         \/ UNCHANGED deadOnce
      /\ deadOnce' \subseteq deadOnce \cup {i}
  BY <1>0 DEF Nack, MarkDeadLetter, MarkFailed, Finish, Goto, budget, history,
         TypeOK, Fetched, Busy
<1>2. Clean' <=> Clean
  BY <1>1 DEF Clean
<1>3. RepeatedForCause'
  BY <1>1 DEF CleanInv, RepeatedForCause
<1>4. ASSUME Clean
      PROVE  DeadAtRest(p)' /\ ThisDispatch(p)' /\ LastAtTheEnd(p)'
  <2>1. DeadAtRest(p) /\ ThisDispatch(p) /\ LastAtTheEnd(p)
    BY <1>4 DEF CleanInv
  <2>2. i \notin deadOnce
    BY <1>0, <1>1, <2>1 DEF DeadAtRest, Holds
  <2>3. status[i] = "Processing"
    BY <1>0, <1>1, <2>2 DEF OneInv, InHand
  <2>4. \A e \in batch[p] : e.id # i
    BY <1>0, <1>1, <2>2 DEF OneInv, OneCopy
  <2>5. ~Holds(p, i)'
    BY <1>1, <2>4 DEF Holds
  <2>6. DeadAtRest(p)'
    <3> SUFFICES ASSUME NEW j \in deadOnce'
                 PROVE  status'[j] = "DeadLetter" /\ ~Holds(p, j)'
      BY DEF DeadAtRest
    <3>1. CASE j = i
      BY <1>1, <2>2, <2>3, <2>5, <3>1
    <3>2. CASE j # i
      <4>1. j \in deadOnce /\ j \in Ids /\ status[j] = "DeadLetter" /\ ~Holds(p, j)
        BY <1>1, <2>1, <3>2 DEF DeadAtRest, TypeOK
      <4>2. QED
        BY <1>1, <3>2, <4>1 DEF Holds
    <3>3. QED
      BY <3>1, <3>2
  <2>7. ThisDispatch(p)'
    BY <1>1, <2>1, <2>3 DEF ThisDispatch, At
  <2>8. LastAtTheEnd(p)'
    BY <1>1, <2>1, <2>3 DEF LastAtTheEnd, At
  <2>9. QED
    BY <2>6, <2>7, <2>8
<1>5. QED
  BY <1>2, <1>3, <1>4 DEF CleanInv

(* What was Processed or a dead letter is not claimed *)
LEMMA CleanByFetch ==
  ASSUME NEW p, TypeOK, TypeOK', p \in Workers, CleanInv(p),
         NEW S \in SUBSET Ids, NEW source, Claim(p, S, source),
         \A i \in S : status[i] \in {"Pending", "Failed"},
         UNCHANGED <<cur, deadOnce, budget, history>>,
         pc[p] # "dispatch", pc'[p] \in {"fetchPending", "next"}
  PROVE  CleanInv(p)'
<1>1. /\ \A e \in batch'[p] : e \in batch[p] \/ e.id \in S
      /\ \A i \in Ids : status'[i] = IF i \in S THEN "Processing" ELSE status[i]
  BY DEF Claim, TypeOK
<1>2. Clean' <=> Clean
  BY DEF Clean, budget
<1>3. ASSUME Clean, NEW i \in deadOnce
      PROVE  Holds(p, i)' => Holds(p, i)
  <2>1. i \notin S
    BY <1>3 DEF CleanInv, DeadAtRest
  <2>2. QED
    BY <1>1, <2>1 DEF Holds
<1>4. \A i \in Ids : status[i] \in {"Processed", "DeadLetter"}
                       => status'[i] = status[i]
  BY <1>1
<1>5. UNCHANGED <<delivered, repeated, failures, deadOnce>>
  BY DEF history
<1>6. QED
  BY <1>2, <1>3, <1>4, <1>5, CleanFrame

(* An operator's call and a fault end the clean part of the behaviour *)
LEMMA CleanOver ==
  ASSUME NEW p, TypeOK, TypeOK', CleanInv(p),
         UNCHANGED <<repeated, failures>>,
         faults' > 0 \/ operations' > 0
  PROVE  CleanInv(p)'
<1>1. /\ faults' \in Nat /\ operations' \in Nat
  BY DEF TypeOK
<1>2. faults' + operations' > 0
  <2> SUFFICES \A m, n \in Nat : m > 0 \/ n > 0 => m + n > 0
    BY <1>1
  <2> QED
    OBVIOUS
<1>3. ~Clean'
  BY DEF Clean
<1>4. QED
  BY <1>2, <1>3 DEF CleanInv, RepeatedForCause

LEMMA CleanStep ==
  ASSUME NEW p \in Processors, Workers = {p}
  PROVE  TypeOK /\ TypeOK' /\ OneInv(p) /\ CleanInv(p) /\ [Next]_vars
           => CleanInv(p)'
<1> SUFFICES ASSUME TypeOK, TypeOK', OneInv(p), CleanInv(p), [Next]_vars
             PROVE  CleanInv(p)'
  OBVIOUS
<1>0. /\ p \in Workers /\ p \notin Callers /\ Callers = {}
      /\ \A q \in Processors : q = p
      /\ \A w \in Workers : w = p
  BY ConstantsAssumption DEF Workers
<1>a. /\ Clean => DeadAtRest(p)
      /\ faults \in Nat /\ operations \in Nat
  BY DEF CleanInv, TypeOK
<1> USE DEF Goto, table, worker, budget, history
<1>1. ASSUME NEW k \in Keys, Publish(k) PROVE CleanInv(p)'
  <2>1. /\ UNCHANGED <<delivered, repeated, failures, deadOnce>>
        /\ Clean' => Clean
        /\ \A i \in Ids : status[i] \in {"Processed", "DeadLetter"}
                            => status'[i] = status[i]
        /\ \A i : Holds(p, i)' => Holds(p, i)
        /\ pc'[p] = pc[p] /\ cur'[p] = cur[p] /\ next'[p] = next[p]
    BY <1>1 DEF Publish, vars, TypeOK, Clean, Holds
  <2>2. QED
    BY <2>1, CleanFrame
<1>2. ASSUME NEW i \in Ids, RetryOne(i) \/ ArchiveDeadLetters(i)
      PROVE  CleanInv(p)'
  <2>1. /\ UNCHANGED <<repeated, failures>>
        /\ operations' > 0
    BY <1>2, <1>a DEF RetryOne, ArchiveDeadLetters
  <2>2. QED
    BY <2>1, CleanOver
<1>3. CASE Stop(p)
  <2>1. /\ UNCHANGED <<repeated, failures>>
        /\ operations' > 0
    BY <1>3, <1>a DEF Stop
  <2>2. QED
    BY <2>1, CleanOver
<1>4. CASE ListenFails(p) \/ FetchFails(p) \/ Fault(p)
  <2>1. /\ UNCHANGED <<repeated, failures>>
        /\ faults' > 0
    BY <1>4, <1>a DEF ListenFails, FetchFails, Fault, Crash, CheckFails, MarkFails
  <2>2. QED
    BY <2>1, CleanOver
<1>5. ASSUME NEW i \in Ids, Age(i) PROVE CleanInv(p)'
  <2>1. /\ UNCHANGED <<delivered, repeated, failures, deadOnce, status, pc, cur, next>>
        /\ Clean' => Clean
        /\ \A j : Holds(p, j)' => Holds(p, j)
    BY <1>5 DEF Age, Clean, Holds
  <2>2. QED
    BY <2>1, CleanFrame
<1>6. CASE Start(p) \/ Wake(p) \/ Shutdown(p)
  <2>1. /\ UNCHANGED <<delivered, repeated, failures, deadOnce, batch, cur, next>>
        /\ Clean' => Clean
        /\ pc[p] # "dispatch"
        /\ pc'[p] \in {"connect", "fetchRetryable", "stopped"}
    BY <1>0, <1>6, <1>a DEF Start, Wake, Shutdown, Clean, TypeOK
  <2>2. \A i \in Ids : status[i] \in {"Processed", "DeadLetter"}
                         => status'[i] = status[i]
    BY <1>6 DEF Start, Wake, Shutdown, ResetStaleProcessing, TypeOK
  <2>3. \A j : Holds(p, j)' => Holds(p, j)
    BY <2>1 DEF Holds
  <2>4. QED
    BY <2>1, <2>2, <2>3, CleanFrame
<1>7. CASE Connect(p) \/ EndBatch(p)
  <2>1. /\ UNCHANGED <<delivered, repeated, failures, deadOnce, status, batch, cur, next>>
        /\ Clean' => Clean
        /\ pc[p] # "dispatch"
        /\ pc'[p] \in {"wait", "stopped", "shutdown"}
    BY <1>0, <1>7 DEF Connect, EndBatch, AfterBatch, Clean, TypeOK
  <2>2. \A j : Holds(p, j)' => Holds(p, j)
    BY <2>1 DEF Holds
  <2>3. QED
    BY <2>1, <2>2, CleanFrame
<1>8. CASE FetchRetryable(p)
  <2>1. /\ Oldest(RetryBatch, Retryable) \in SUBSET Ids
        /\ \A i \in Oldest(RetryBatch, Retryable) : status[i] = "Failed"
    BY OldestSubset DEF Retryable, InStatus
  <2>2. QED
    BY <1>0, <1>8, <2>1, CleanByFetch DEF FetchRetryable, TypeOK
<1>9. CASE FetchPending(p)
  <2>1. /\ Oldest(FullBatch, InStatus("Pending")) \in SUBSET Ids
        /\ \A i \in Oldest(FullBatch, InStatus("Pending")) :
             status[i] = "Pending"
    BY OldestSubset DEF InStatus
  <2>2. QED
    BY <1>0, <1>9, <2>1, CleanByFetch DEF FetchPending, TypeOK
<1>10. CASE CheckAndMark(p)
  <2>1. PICK e \in batch[p] :
          /\ batch'[p] \subseteq batch[p] /\ cur'[p] = e
          /\ pc'[p] \in {"skip", "dispatch"}
    BY <1>0, <1>10 DEF CheckAndMark, TypeOK
  <2>2. /\ UNCHANGED <<delivered, repeated, failures, deadOnce, status>>
        /\ Clean' => Clean
        /\ pc[p] # "dispatch"
    BY <1>10 DEF CheckAndMark, Clean
  <2>3. \A j : Holds(p, j)' => Holds(p, j)
    BY <2>1 DEF Holds
  <2>4. QED
    BY <2>2, <2>3, CleanFrame
<1>11. CASE Skip(p) \/ AckRecord(p)
  <2>1. /\ UNCHANGED <<delivered, repeated, failures, deadOnce, batch>>
        /\ Clean' => Clean
        /\ Busy(p) /\ pc[p] # "dispatch" /\ pc'[p] = "next"
        /\ cur[p].id \in Ids
        /\ \A j \in Ids \ {cur[p].id} : status'[j] = status[j]
        /\ status'[cur[p].id] \in {status[cur[p].id], "Processed"}
    BY <1>0, <1>11 DEF Skip, AckRecord, MarkProcessed, Finish, Clean, Busy,
                       TypeOK, Fetched
  <2>2. \A j : Holds(p, j)' => Holds(p, j)
    BY <2>1 DEF Holds
  <2>3. Clean' => status[cur[p].id] # "DeadLetter"
    <3>1. cur[p].id \notin deadOnce => status[cur[p].id] # "DeadLetter"
      BY <2>1 DEF OneInv, InHand
    <3>2. Clean => cur[p].id \notin deadOnce
      BY <2>1, <1>a DEF DeadAtRest, Holds, Busy
    <3>3. QED
      BY <2>1, <3>1, <3>2
  <2>4. Clean' => \A i \in Ids : status[i] \in {"Processed", "DeadLetter"}
                                   => status'[i] = status[i]
    BY <2>1, <2>3
  <2>5. QED
    BY <2>1, <2>2, <2>4, CleanFrame
<1>12. CASE HandlerSucceeds(p)
  BY <1>0, <1>12, CleanBySuccess
<1>13. CASE HandlerFails(p) \/ AckEvent(p)
  BY <1>0, <1>13, CleanByEnd
<1>14. CASE Nack(p)
  BY <1>0, <1>14, CleanByNack
<1>15. CASE UNCHANGED vars
  <2>1. /\ UNCHANGED <<delivered, repeated, failures, deadOnce, status, pc, cur, next>>
        /\ Clean' => Clean
        /\ \A j : Holds(p, j)' => Holds(p, j)
    BY <1>15 DEF vars, Clean, Holds
  <2>2. QED
    BY <2>1, CleanFrame
<1>16. QED
  BY <1>0, <1>1, <1>2, <1>3, <1>4, <1>5, <1>6, <1>7, <1>8, <1>9, <1>10,
     <1>11, <1>12, <1>13, <1>14, <1>15
     DEF Next, Task, ProcessSingleEvent

(* With one server, a handler succeeds twice on an event only for a cause: *)
(* a fault, an operator's call, or the failure of a handler after it.      *)
THEOREM RepeatsHaveCauses ==
  ASSUME NEW p \in Processors, Workers = {p}
  PROVE  Spec => []RepeatedForCause
<1>1. Init => OneInv(p) /\ CleanInv(p)
  <2> SUFFICES ASSUME Init PROVE CleanInv(p)
    BY OneStart
  <2>1. /\ \A i \in Ids : delivered[i] = {} /\ repeated[i] = {}
        /\ deadOnce = {}
    BY DEF Init
  <2>2. QED
    BY <2>1 DEF CleanInv, RepeatedForCause, DeadAtRest, ThisDispatch, LastAtTheEnd
<1>2. TypeOK /\ OneInv(p) /\ [Next]_vars => OneInv(p)'
  BY OneStep
<1>3. TypeOK /\ TypeOK' /\ OneInv(p) /\ CleanInv(p) /\ [Next]_vars
        => CleanInv(p)'
  BY CleanStep
<1>4. CleanInv(p) => RepeatedForCause
  BY DEF CleanInv
<1>5. QED
  BY <1>1, <1>2, <1>3, <1>4, TypeInvariance, PTL DEF Spec

(***************************************************************************)
(* One server implements EventDelivery: every step of the tables and the   *)
(* worker is a step of that specification or leaves what it sees alone.    *)
(***************************************************************************)
DeadKnown ==
  /\ \A i \in Ids : status[i] \in {"DeadLetter", "Archived"} => i \in deadOnce
  /\ \A i \in deadOnce : status[i] # "Absent"

Refines == Delivery!Next \/ UNCHANGED Delivery!vars

LEMMA StateIs ==
  ASSUME NEW i \in Ids, TypeOK
  PROVE  /\ status[i] = "Absent" => DeliveryState[i] = "absent"
         /\ status[i] = "Processed" => DeliveryState[i] = "acked"
         /\ status[i] = "DeadLetter" => DeliveryState[i] = "dead"
         /\ status[i] = "Archived" => DeliveryState[i] = "gone"
         /\ status[i] \in {"Pending", "Processing", "Failed"}
              => DeliveryState[i] = "open"
         /\ status[i] \in Status
  BY DEF DeliveryState, TypeOK

LEMMA StateNext ==
  ASSUME NEW i \in Ids, TypeOK'
  PROVE  /\ status'[i] = "Absent" => DeliveryState'[i] = "absent"
         /\ status'[i] = "Processed" => DeliveryState'[i] = "acked"
         /\ status'[i] = "DeadLetter" => DeliveryState'[i] = "dead"
         /\ status'[i] = "Archived" => DeliveryState'[i] = "gone"
         /\ status'[i] \in {"Pending", "Processing", "Failed"}
              => DeliveryState'[i] = "open"
         /\ status'[i] \in Status
  BY DEF DeliveryState, TypeOK

(* Nothing that EventDelivery sees has changed *)
LEMMA Stutter ==
  ASSUME TypeOK, TypeOK', UNCHANGED <<delivered, failures, deadOnce>>,
         \A i \in Ids : \/ status'[i] = status[i]
                        \/ {status[i], status'[i]}
                             \subseteq {"Pending", "Processing", "Failed"}
  PROVE  Refines
<1>1. \A i \in Ids : DeliveryState'[i] = DeliveryState[i]
  BY StateIs, StateNext DEF Status
<1>2. DeliveryState' = DeliveryState
  BY <1>1 DEF DeliveryState
<1>3. QED
  BY <1>2 DEF Refines, Delivery!vars

(* One event changes its state, as EventDelivery's Move says *)
LEMMA MoveIs ==
  ASSUME TypeOK, TypeOK', NEW i \in Ids, NEW from, NEW to,
         UNCHANGED <<delivered, failures>>,
         \A j \in Ids \ {i} : status'[j] = status[j],
         DeliveryState[i] \in from, DeliveryState'[i] = to
  PROVE  Delivery!Move(i, from, to)
<1>1. \A j \in Ids \ {i} : DeliveryState'[j] = DeliveryState[j]
  BY DEF DeliveryState
<1>2. /\ DeliveryState = [j \in Ids |-> DeliveryState[j]]
      /\ DeliveryState' = [j \in Ids |-> DeliveryState'[j]]
  BY DEF DeliveryState
<1>3. DeliveryState' = [DeliveryState EXCEPT ![i] = to]
  BY <1>1, <1>2
<1>4. QED
  BY <1>3 DEF Delivery!Move

Known(p) == OneInv(p) /\ DeliveryInv /\ EarnedInv /\ DeadKnown

(* The event in hand is open, unless it was redriven *)
LEMMA HandOpen ==
  ASSUME NEW p \in Workers, TypeOK, OneInv(p), pc[p] \in {"dispatch", "nack", "skip"}
  PROVE  /\ cur[p].id \in Ids
         /\ cur[p].id \notin deadOnce =>
              status[cur[p].id] = "Processing" /\ DeliveryState[cur[p].id] = "open"
<1>1. cur[p].id \in Ids /\ Busy(p)
  BY DEF TypeOK, Fetched, Busy
<1>2. cur[p].id \notin deadOnce => status[cur[p].id] = "Processing"
  BY <1>1 DEF OneInv, InHand
<1>3. QED
  BY <1>1, <1>2, StateIs

LEMMA RefinesByHandler ==
  ASSUME NEW p \in Workers, TypeOK, TypeOK', Known(p),
         HandlerSucceeds(p) \/ HandlerFails(p)
  PROVE  Refines /\ DeadKnown'
<1>1. PICK i : i = cur[p].id
  OBVIOUS
<1>2. /\ i \in Ids /\ pc[p] = "dispatch"
      /\ i \notin deadOnce => DeliveryState[i] = "open"
  BY <1>1, HandOpen DEF Known, HandlerSucceeds, HandlerFails
<1>3. UNCHANGED <<status, deadOnce>>
  BY DEF HandlerSucceeds, HandlerFails, table
<1>4. Delivery!Active(i)
  BY <1>2 DEF Delivery!Active
<1>5. DeliveryState' = DeliveryState
  BY <1>3 DEF DeliveryState
<1>6. CASE HandlerSucceeds(p)
  <2>1. /\ next[p] \in Handlers
        /\ delivered' = [delivered EXCEPT ![i] = @ \cup {next[p]}]
        /\ UNCHANGED failures
    BY <1>1, <1>6 DEF HandlerSucceeds
  <2>2. \A g \in Handlers : g < next[p] => g \in delivered[i]
    BY <1>1, <1>2, <2>1, ConstantsAssumption
       DEF Known, DeliveryInv, Progress, Handlers
  <2>3. Delivery!Deliver(i, next[p])
    BY <1>3, <1>4, <1>5, <2>1, <2>2 DEF Delivery!Deliver
  <2>4. QED
    BY <1>2, <1>3, <2>1, <2>3 DEF Refines, Delivery!Next, Known, DeadKnown
<1>7. CASE HandlerFails(p)
  <2>1. /\ failures' = [failures EXCEPT ![i] = @ + 1]
        /\ UNCHANGED delivered
    BY <1>1, <1>7 DEF HandlerFails
  <2>2. Delivery!Refuse(i)
    BY <1>3, <1>4, <1>5, <2>1 DEF Delivery!Refuse
  <2>3. QED
    BY <1>2, <1>3, <2>2 DEF Refines, Delivery!Next, Known, DeadKnown
<1>8. QED
  BY <1>6, <1>7

(* MarkProcessed closes an event whose handlers are all through *)
LEMMA RefinesByAck ==
  ASSUME NEW p \in Workers, TypeOK, TypeOK', Known(p),
         AckEvent(p) \/ Skip(p)
  PROVE  Refines /\ DeadKnown'
<1>1. PICK i : i = cur[p].id
  OBVIOUS
<1>2. /\ i \in Ids
      /\ i \notin deadOnce => status[i] = "Processing"
  BY <1>1, HandOpen DEF Known, AckEvent, Skip
<1>3. /\ UNCHANGED <<delivered, failures, deadOnce>>
      /\ \A j \in Ids \ {i} : status'[j] = status[j]
      /\ status'[i] = IF status[i] = "Archived" THEN "Archived" ELSE "Processed"
  BY <1>1, <1>2 DEF AckEvent, Skip, MarkProcessed, history, TypeOK
<1>4. delivered[i] = Handlers
  <2>1. CASE Skip(p)
    BY <1>1, <2>1 DEF Skip, Known, DeliveryInv, Progress
  <2>2. CASE AckEvent(p)
    <3>1. pc[p] = "dispatch" /\ next[p] = NHandlers + 1
      <4>1. next[p] \in 1..(NHandlers + 1) /\ next[p] \notin 1..NHandlers
        BY <2>2 DEF AckEvent, TypeOK, Handlers
      <4>2. QED
        BY <2>2, <4>1, ConstantsAssumption DEF AckEvent
    <3>2. Handlers \subseteq delivered[i]
      <4>1. 1..(next[p] - 1) \subseteq delivered[i]
        BY <1>1, <3>1 DEF Known, DeliveryInv, Progress
      <4>2. next[p] - 1 = NHandlers
        BY <3>1, ConstantsAssumption
      <4>3. QED
        BY <4>1, <4>2 DEF Handlers
    <3>3. QED
      BY <1>2, <3>2 DEF TypeOK
  <2>3. QED
    BY <2>1, <2>2
<1>5. status[i] # "Absent"
  BY <1>2 DEF Known, DeadKnown
<1>6. CASE status[i] = "Archived"
  <2>1. Refines
    BY <1>3, <1>6, Stutter
  <2>2. QED
    BY <1>3, <1>6, <2>1 DEF Known, DeadKnown, TypeOK
<1>7. CASE status[i] # "Archived"
  <2>1. DeliveryState'[i] = "acked" /\ status'[i] = "Processed"
    BY <1>2, <1>3, <1>7, StateNext
  <2>2. DeliveryState[i] \in Delivery!Closable(i)
    BY <1>2, <1>5, <1>7, StateIs DEF Delivery!Closable, Status
  <2>3. Delivery!Move(i, Delivery!Closable(i), "acked")
    BY <1>2, <1>3, <2>1, <2>2, MoveIs
  <2>4. Delivery!Ack(i)
    BY <1>3, <1>4, <2>3 DEF Delivery!Ack
  <2>5. Refines
    BY <1>2, <2>4 DEF Refines, Delivery!Next
  <2>6. QED
    BY <1>2, <1>3, <2>1, <2>5 DEF Known, DeadKnown, TypeOK
<1>8. QED
  BY <1>6, <1>7

LEMMA RefinesByNack ==
  ASSUME NEW p \in Workers, TypeOK, TypeOK', Known(p), Nack(p)
  PROVE  Refines /\ DeadKnown'
<1>1. PICK i : i = cur[p].id
  OBVIOUS
<1>2. /\ i \in Ids /\ pc[p] = "nack"
      /\ i \notin deadOnce => status[i] = "Processing"
  BY <1>1, HandOpen DEF Known, Nack
<1>3. /\ UNCHANGED <<delivered, failures>>
      /\ \A j \in Ids \ {i} : status'[j] = status[j]
  BY <1>1, <1>2 DEF Nack, MarkDeadLetter, MarkFailed, history, TypeOK
<1>4. status[i] # "Absent"
  BY <1>2 DEF Known, DeadKnown
<1>5. CASE Exhausted(cur[p]) /\ MarkDeadLetter(i)
  <2>1. /\ status'[i] = IF status[i] = "Archived" THEN "Archived" ELSE "DeadLetter"
        /\ deadOnce' = deadOnce \cup {i}
    BY <1>2, <1>5 DEF MarkDeadLetter, TypeOK
  <2>2. DeadKnown'
    BY <1>2, <1>3, <2>1 DEF Known, DeadKnown, TypeOK
  <2>3. CASE status[i] = "Archived"
    <3>1. deadOnce' = deadOnce
      BY <1>2, <2>1, <2>3 DEF Known, DeadKnown
    <3>2. QED
      BY <1>3, <2>1, <2>2, <2>3, <3>1, Stutter
  <2>4. CASE status[i] # "Archived"
    <3>1. DeliveryState'[i] = "dead"
      BY <1>2, <2>1, <2>4, StateNext
    <3>2. DeliveryState[i] \in Delivery!Closable(i)
      BY <1>2, <1>4, <2>4, StateIs DEF Delivery!Closable, Status
    <3>3. Delivery!Move(i, Delivery!Closable(i), "dead")
      BY <1>2, <1>3, <3>1, <3>2, MoveIs
    <3>4. failures[i] >= MaxRetries
      <4>1. cur[p].retry + 1 <= failures[i] /\ cur[p].retry \in Nat
        BY <1>1, <1>2 DEF Known, EarnedInv, Remembers, TypeOK, Fetched
      <4>2. cur[p].retry + 1 >= MaxRetries
        BY <1>5 DEF Exhausted
      <4>3. QED
        BY <1>2, <4>1, <4>2, ConstantsAssumption DEF TypeOK
    <3>5. Delivery!GiveUp(i)
      BY <2>1, <3>3, <3>4 DEF Delivery!GiveUp
    <3>6. QED
      BY <1>2, <2>2, <3>5 DEF Refines, Delivery!Next
  <2>5. QED
    BY <2>3, <2>4
<1>6. CASE MarkFailed(i)
  <2>1. /\ status'[i] = IF status[i] = "Archived" THEN "Archived" ELSE "Failed"
        /\ UNCHANGED deadOnce
    BY <1>2, <1>6 DEF MarkFailed, TypeOK
  <2>2. DeadKnown'
    BY <1>2, <1>3, <2>1 DEF Known, DeadKnown, TypeOK
  <2>3. CASE status[i] \in {"Archived", "Pending", "Processing", "Failed"}
    BY <1>3, <2>1, <2>2, <2>3, Stutter
  <2>4. CASE status[i] \in {"Processed", "DeadLetter"}
    <3>1. DeliveryState'[i] = "open" /\ DeliveryState[i] \in {"acked", "dead"}
      BY <1>2, <2>1, <2>4, StateIs, StateNext
    <3>2. Delivery!Move(i, {"acked", "dead"}, "open")
      BY <1>2, <1>3, <3>1, MoveIs
    <3>3. Delivery!Reopen(i)
      BY <1>2, <2>1, <2>4, <3>2 DEF Delivery!Reopen
    <3>4. QED
      BY <1>2, <2>2, <3>3 DEF Refines, Delivery!Next
  <2>5. QED
    BY <1>2, <1>4, <2>3, <2>4, StateIs DEF Status
<1>7. QED
  BY <1>1, <1>5, <1>6 DEF Nack

LEMMA RefineStep ==
  ASSUME NEW p \in Processors, Workers = {p}
  PROVE  TypeOK /\ TypeOK' /\ Known(p) /\ [Next]_vars => Refines /\ DeadKnown'
<1> SUFFICES ASSUME TypeOK, TypeOK', Known(p), [Next]_vars
             PROVE  Refines /\ DeadKnown'
  OBVIOUS
<1>0. /\ p \in Workers /\ p \notin Callers /\ Callers = {}
      /\ \A q \in Processors : q = p
      /\ \A w \in Workers : w = p
  BY ConstantsAssumption DEF Workers
<1>a. /\ DeadKnown
      /\ deadOnce \subseteq Ids
      /\ \A i \in Ids : status[i] \in Status
  BY DEF Known, TypeOK
(* Most steps move open events among the open statuses *)
<1>b. ASSUME UNCHANGED <<delivered, failures, deadOnce>>,
             \A i \in Ids : \/ status'[i] = status[i]
                            \/ {status[i], status'[i]}
                                 \subseteq {"Pending", "Processing", "Failed"}
      PROVE  Refines /\ DeadKnown'
  <2>1. Refines
    BY <1>b, Stutter
  <2>2. DeadKnown'
    BY <1>a, <1>b DEF DeadKnown
  <2>3. QED
    BY <2>1, <2>2
<1>1. ASSUME NEW k \in Keys, Publish(k) PROVE Refines /\ DeadKnown'
  <2>1. CASE UNCHANGED vars
    BY <1>b, <2>1 DEF vars
  <2>2. CASE ~UNCHANGED vars
    <3>1. PICK i \in Ids :
            /\ status[i] = "Absent"
            /\ status' = [status EXCEPT ![i] = "Pending"]
            /\ UNCHANGED <<delivered, failures, deadOnce>>
      BY <1>1, <2>2 DEF Publish, history
    <3>2. /\ status'[i] = "Pending"
          /\ \A j \in Ids \ {i} : status'[j] = status[j]
      BY <3>1 DEF TypeOK
    <3>3. DeliveryState[i] \in {"absent"} /\ DeliveryState'[i] = "open"
      BY <3>1, <3>2, StateIs, StateNext
    <3>4. Delivery!Move(i, {"absent"}, "open")
      BY <3>1, <3>2, <3>3, MoveIs
    <3>5. Delivery!Accept(i)
      BY <3>1, <3>4 DEF Delivery!Accept
    <3>6. DeadKnown'
      BY <1>a, <3>1, <3>2 DEF DeadKnown
    <3>7. QED
      BY <3>5, <3>6 DEF Refines, Delivery!Next
  <2>3. QED
    BY <2>1, <2>2
<1>2. ASSUME NEW i \in Ids, RetryOne(i) PROVE Refines /\ DeadKnown'
  <2>1. /\ i \in deadOnce /\ status[i] \notin {"Archived", "Absent"}
        /\ status'[i] = "Pending"
        /\ \A j \in Ids \ {i} : status'[j] = status[j]
        /\ UNCHANGED <<delivered, failures, deadOnce>>
    BY <1>2, <1>a DEF RetryOne, DeadKnown, history, TypeOK
  <2>2. CASE status[i] \in {"Pending", "Processing", "Failed"}
    BY <1>b, <2>1, <2>2
  <2>3. CASE status[i] \in {"Processed", "DeadLetter"}
    <3>1. DeliveryState[i] \in {"acked", "dead"} /\ DeliveryState'[i] = "open"
      BY <2>1, <2>3, StateIs, StateNext
    <3>2. Delivery!Move(i, {"acked", "dead"}, "open")
      BY <2>1, <3>1, MoveIs
    <3>3. Delivery!Reopen(i)
      BY <2>1, <3>2 DEF Delivery!Reopen
    <3>4. DeadKnown'
      BY <1>a, <2>1 DEF DeadKnown
    <3>5. QED
      BY <3>3, <3>4 DEF Refines, Delivery!Next
  <2>4. QED
    BY <1>a, <2>1, <2>2, <2>3 DEF Status
<1>3. ASSUME NEW i \in Ids, ArchiveDeadLetters(i) PROVE Refines /\ DeadKnown'
  <2> DEFINE S == {j \in Ids : j <= i /\ status[j] = "DeadLetter"}
  <2>1. /\ \A j \in Ids : status'[j] = IF j \in S THEN "Archived" ELSE status[j]
        /\ UNCHANGED <<delivered, failures, deadOnce>>
    BY <1>3 DEF ArchiveDeadLetters, history
  <2>2. \A j \in S : j \in Ids /\ status[j] = "DeadLetter"
    OBVIOUS
  <2>3. S \in SUBSET Ids
    OBVIOUS
  <2> HIDE DEF S
  <2>4. \A j \in S : DeliveryState[j] = "dead"
    BY <2>2, StateIs
  <2>5. \A j \in Ids : DeliveryState'[j] = IF j \in S THEN "gone" ELSE DeliveryState[j]
    BY <2>1, StateNext DEF DeliveryState
  <2>6. DeliveryState' = [j \in Ids |-> IF j \in S THEN "gone" ELSE DeliveryState[j]]
    <3>1. DeliveryState' = [j \in Ids |-> DeliveryState'[j]]
      BY DEF DeliveryState
    <3>2. QED
      BY <2>5, <3>1
  <2>7. Delivery!Forget(S)
    BY <2>1, <2>4, <2>6 DEF Delivery!Forget
  <2>8. DeadKnown'
    BY <1>a, <2>1, <2>2 DEF DeadKnown
  <2>9. QED
    BY <2>3, <2>7, <2>8 DEF Refines, Delivery!Next
<1> USE DEF table, worker, budget, history
<1>4. ASSUME NEW i \in Ids, Age(i) PROVE Refines /\ DeadKnown'
  BY <1>4, <1>b DEF Age
<1>5. CASE Start(p) \/ Wake(p) \/ Shutdown(p)
  BY <1>5, <1>b DEF Start, Wake, Shutdown, ResetStaleProcessing
<1>6. CASE \/ Stop(p) \/ Connect(p) \/ ListenFails(p) \/ FetchFails(p)
           \/ EndBatch(p) \/ CheckAndMark(p) \/ AckRecord(p) \/ Fault(p)
  BY <1>6, <1>b
     DEF Stop, Connect, ListenFails, FetchFails, EndBatch, CheckAndMark,
         AckRecord, Fault, Crash, CheckFails, MarkFails
<1>7. CASE FetchRetryable(p)
  <2>1. \A i \in Oldest(RetryBatch, Retryable) : status[i] = "Failed"
    BY OldestSubset DEF Retryable, InStatus
  <2>2. QED
    BY <1>7, <1>b, <2>1 DEF FetchRetryable, Claim
<1>8. CASE FetchPending(p)
  <2>1. \A i \in Oldest(FullBatch, InStatus("Pending")) : status[i] = "Pending"
    BY OldestSubset DEF InStatus
  <2>2. QED
    BY <1>8, <1>b, <2>1 DEF FetchPending, Claim
<1>9. CASE HandlerSucceeds(p) \/ HandlerFails(p)
  BY <1>0, <1>9, RefinesByHandler
<1>10. CASE AckEvent(p) \/ Skip(p)
  BY <1>0, <1>10, RefinesByAck
<1>11. CASE Nack(p)
  BY <1>0, <1>11, RefinesByNack
<1>12. CASE UNCHANGED vars
  BY <1>12, <1>b DEF vars
<1>13. QED
  BY <1>0, <1>1, <1>2, <1>3, <1>4, <1>5, <1>6, <1>7, <1>8, <1>9, <1>10,
     <1>11, <1>12
     DEF Next, Task, ProcessSingleEvent

(* What one server does to the tables is what EventDelivery promises: an   *)
(* event is handled in order while it is open or after a redrive, closed   *)
(* only when its handlers are through, and given up only for cause.        *)
THEOREM OneServerDelivers ==
  ASSUME NEW p \in Processors, Workers = {p}
  PROVE  Spec => ImplementsDelivery
<1>1. Init => Delivery!Init /\ DeadKnown
  BY DEF Init, Delivery!Init, DeliveryState, DeadKnown
<1>2. Init => OneInv(p) /\ DeliveryInv /\ EarnedInv
  BY OneStart, DeliveryStart, EarnedStart
<1>3. TypeOK /\ OneInv(p) /\ [Next]_vars => OneInv(p)'
  BY OneStep
<1>4. TypeOK /\ TypeOK' /\ Known(p) /\ [Next]_vars => Refines /\ DeadKnown'
  BY RefineStep
<1>5. Known(p) <=> OneInv(p) /\ DeliveryInv /\ EarnedInv /\ DeadKnown
  BY DEF Known
<1>6. Refines <=> [Delivery!Next]_(Delivery!vars)
  BY DEF Refines
<1>7. QED
  BY <1>1, <1>2, <1>3, <1>4, <1>5, <1>6, TypeInvariance, DeliveryStep,
     EarnedStep, PTL DEF Spec, ImplementsDelivery, Delivery!Spec
=============================================================================
