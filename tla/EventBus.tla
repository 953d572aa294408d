------------------------------ MODULE EventBus ------------------------------
(***************************************************************************)
(* The transactional outbox of abt-core: the domain_events table, the      *)
(* idempotency_records table and the EventProcessor instances that consume *)
(* the one under the protection of the other.                              *)
(*                                                                         *)
(* Publishers insert events inside their own transaction; a processor      *)
(* claims events with UPDATE ... FOR UPDATE SKIP LOCKED, and then runs     *)
(* check_and_mark, the handlers, mark_processed / mark_failed /            *)
(* mark_dead_letter as separate autocommitted statements.  Every one of    *)
(* those statements is an action here, so that other processors, crashes,  *)
(* operators and the passing of time can come in between.                  *)
(***************************************************************************)
EXTENDS Integers, FiniteSets

CONSTANTS
  Keys,           \* idempotency keys events are published under
  Processors,     \* EventProcessor background tasks, one per running server
  Callers,        \* tasks that call retry_failed by hand
  NHandlers,      \* handlers registered for the event type
  MaxRetries,     \* EventProcessor.max_retries, at least 1 (new())
  RetryBatch,     \* LIMIT of fetch_retryable in process_batch (50 in the code)
  FullBatch,      \* LIMIT of fetch_pending and of retry_failed (100)
  MaxEvents,      \* bound: rows ever inserted in domain_events
  MaxFaults,      \* bound: crashes, failed statements, failed LISTENs
  MaxOperations   \* bound: stop, retry_one and archive calls

ASSUME ConstantsAssumption ==
  /\ NHandlers \in Nat
  /\ MaxRetries \in Nat \ {0}
  /\ RetryBatch \in Nat \ {0}
  /\ FullBatch \in Nat \ {0}
  /\ MaxEvents \in Nat \ {0}
  /\ MaxFaults \in Nat
  /\ MaxOperations \in Nat
  /\ Processors \cap Callers = {}
  /\ IsFiniteSet(Processors \cup Callers)
  /\ Keys # {}

Ids == 1..MaxEvents
Handlers == 1..NHandlers
Workers == Processors \cup Callers

(* EventStatus; "Absent" rows are not inserted yet, "Archived" are deleted *)
Status == {"Absent", "Pending", "Processing", "Processed", "Failed",
           "DeadLetter", "Archived"}

(* A fetched event as the worker remembers it: the retry_count is the one  *)
(* RETURNING gave it, and a batch may hold an id once per fetch.           *)
Fetched == [id : Ids, retry : Nat, from : {"retryable", "pending"}]

PcStates == {"stopped", "halted", "connect", "wait", "fetchRetryable",
             "fetchPending", "next", "skip", "dispatch", "record", "nack",
             "shutdown"}

VARIABLES
  key,         \* domain_events.idempotency_key, by id
  status,      \* domain_events.status
  retry,       \* domain_events.retry_count
  aged,        \* ids created more than five minutes ago
  idem,        \* idempotency_records.status of "<id>:EventProcessor"
  running,     \* EventProcessor.running
  pc,          \* where each worker is
  batch,       \* what each worker has fetched and not begun
  cur,         \* the event each worker is at
  next,        \* the next handler dispatch will call
  faults,      \* faults so far
  operations,  \* operator calls so far
  delivered,   \* history: handlers that succeeded at least once
  repeated,    \* history: handlers that succeeded more than once
  failures,    \* history: dispatches that returned an error
  deadOnce     \* history: ids an operator has seen in the dead letter list

table   == <<key, status, retry>>
worker  == <<pc, batch, cur, next>>
budget  == <<faults, operations>>
history == <<delivered, repeated, failures>>
vars    == <<key, status, retry, aged, idem, running, pc, batch, cur, next,
             faults, operations, delivered, repeated, failures,
             deadOnce>>

NoEvent == [id |-> 1, retry |-> 0, from |-> "pending"]

Existing == {i \in Ids : status[i] \notin {"Absent", "Archived"}}
InStatus(s) == {i \in Ids : status[i] = s}

(* The n oldest of a set of ids: ORDER BY created_at ASC LIMIT n *)
Oldest(n, S) == {i \in S : Cardinality({j \in S : j < i}) < n}

Init ==
  /\ key = [i \in Ids |-> CHOOSE k \in Keys : TRUE]
  /\ status = [i \in Ids |-> "Absent"]
  /\ retry = [i \in Ids |-> 0]
  /\ aged = {}
  /\ idem = [i \in Ids |-> "None"]
  /\ running = [p \in Processors |-> FALSE]
  /\ pc = [w \in Workers |-> "stopped"]
  /\ batch = [w \in Workers |-> {}]
  /\ cur = [w \in Workers |-> NoEvent]
  /\ next = [w \in Workers |-> 1]
  /\ faults = 0
  /\ operations = 0
  /\ delivered = [i \in Ids |-> {}]
  /\ repeated = [i \in Ids |-> {}]
  /\ failures = [i \in Ids |-> 0]
  /\ deadOnce = {}

(***************************************************************************)
(* Publishers, operators and time.                                         *)
(***************************************************************************)

(* DomainEventBusImpl.publish in a transaction that commits.  A key that   *)
(* is in the table already inserts nothing: the caller gets the old id.    *)
(* NOTIFY only wakes a processor, which polls every 30 s anyway.           *)
Publish(k) ==
  \/ /\ \E i \in Existing : key[i] = k
     /\ UNCHANGED vars
  \/ /\ \A i \in Existing : key[i] # k
     /\ \E i \in Ids :
          /\ status[i] = "Absent"
          /\ \A j \in Ids : j < i => status[j] # "Absent"
          /\ key' = [key EXCEPT ![i] = k]
          /\ status' = [status EXCEPT ![i] = "Pending"]
     /\ UNCHANGED <<retry, aged, idem, running, worker, budget, history, deadOnce>>

(* Five minutes pass since an event was created.                           *)
Age(i) ==
  /\ i \in Existing \ aged
  /\ aged' = aged \cup {i}
  /\ UNCHANGED <<table, idem, running, worker, budget, history,
                 deadOnce>>

(* DeadLetterService.retry_one on an id taken from a, perhaps stale, list  *)
(* of dead letters: reset_to_pending does not look at the status.          *)
RetryOne(i) ==
  /\ operations < MaxOperations
  /\ i \in deadOnce
  /\ status[i] # "Archived"
  /\ operations' = operations + 1
  /\ status' = [status EXCEPT ![i] = "Pending"]
  /\ retry' = [retry EXCEPT ![i] = 0]
  /\ UNCHANGED <<key, aged, idem, running, worker, faults, history,
                 deadOnce>>

(* DeadLetterService.archive of the dead letters created up to event i *)
ArchiveDeadLetters(i) ==
  /\ operations < MaxOperations
  /\ \E j \in InStatus("DeadLetter") : j <= i
  /\ operations' = operations + 1
  /\ status' = [j \in Ids |-> IF j <= i /\ status[j] = "DeadLetter"
                              THEN "Archived" ELSE status[j]]
  /\ UNCHANGED <<key, retry, aged, idem, running, worker, faults, history, deadOnce>>

(***************************************************************************)
(* The processor's task: start, the LISTEN loop, process_batch, stop.      *)
(***************************************************************************)

Goto(w, l) == pc' = [pc EXCEPT ![w] = l]

(* Mutant: the status filter of the UPDATE is missing. *)
ResetStaleAnyStatus(stale) ==
  status' = [i \in Ids |-> IF i \in stale \cap Existing THEN "Pending"
                           ELSE status[i]]

(* reset_stale_processing(min_minutes): with 5 it resets the Processing    *)
(* events CREATED over five minutes ago, with 0 every Processing event.    *)
ResetStaleProcessing(stale) ==
  status' = [i \in Ids |-> IF status[i] = "Processing" /\ i \in stale
                           THEN "Pending" ELSE status[i]]

Start(p) ==
  /\ pc[p] = "stopped"
  /\ running' = [running EXCEPT ![p] = TRUE]
  /\ ResetStaleProcessing(aged)
  /\ Goto(p, "connect")
  /\ UNCHANGED <<key, retry, aged, idem, batch, cur, next, budget, history, deadOnce>>

(* PgListener connect and listen; `while running` is tested right after *)
Connect(p) ==
  /\ pc[p] = "connect"
  /\ Goto(p, IF running[p] THEN "wait" ELSE "stopped")
  /\ UNCHANGED <<table, aged, idem, running, batch, cur, next, budget,
                 history, deadOnce>>

(* `listen` fails: the task returns and nothing starts it again *)
ListenFails(p) ==
  /\ pc[p] = "connect"
  /\ faults < MaxFaults
  /\ faults' = faults + 1
  /\ running' = [running EXCEPT ![p] = FALSE]
  /\ Goto(p, "halted")
  /\ UNCHANGED <<table, aged, idem, batch, cur, next, operations, history, deadOnce>>

Stop(p) ==
  /\ operations < MaxOperations
  /\ running[p]
  /\ operations' = operations + 1
  /\ running' = [running EXCEPT ![p] = FALSE]
  /\ UNCHANGED <<table, aged, idem, worker, faults, history,
                 deadOnce>>

(* A notification, a listener error or the 30 s poll ends the wait; the    *)
(* batch opens with reset_stale_processing(5), whose failure is only       *)
(* logged.                                                                 *)
Wake(p) ==
  /\ pc[p] = "wait"
  /\ \/ ResetStaleProcessing(aged) /\ UNCHANGED faults
     \/ /\ faults < MaxFaults
        /\ faults' = faults + 1
        /\ UNCHANGED status
  /\ Goto(p, "fetchRetryable")
  /\ UNCHANGED <<key, retry, aged, idem, running, batch, cur, next,
                 operations, history, deadOnce>>

(* Mutant: a SELECT ... SKIP LOCKED whose rows are not marked as claimed. *)
SelectOnly(w, S, source) ==
  /\ UNCHANGED status
  /\ batch' = [batch EXCEPT ![w] = @ \cup
                 {[id |-> i, retry |-> retry[i], from |-> source] : i \in S}]

(* UPDATE ... SET status = 2 ... RETURNING: rows and their retry_count *)
Claim(w, S, source) ==
  /\ status' = [i \in Ids |-> IF i \in S THEN "Processing" ELSE status[i]]
  /\ batch' = [batch EXCEPT ![w] = @ \cup
                 {[id |-> i, retry |-> retry[i], from |-> source] : i \in S}]

(* Mutant: the retry limit of the fetch is one lower than the budget. *)
RetryableOffByOne == {i \in InStatus("Failed") : retry[i] + 1 < MaxRetries}

Retryable == {i \in InStatus("Failed") : retry[i] <= MaxRetries}

FetchRetryable(p) ==
  /\ pc[p] = "fetchRetryable"
  /\ Claim(p, Oldest(RetryBatch, Retryable), "retryable")
  /\ Goto(p, "fetchPending")
  /\ UNCHANGED <<key, retry, aged, idem, running, cur, next, budget,
                 history, deadOnce>>

FetchPending(p) ==
  /\ pc[p] = "fetchPending"
  /\ Claim(p, Oldest(FullBatch, InStatus("Pending")), "pending")
  /\ Goto(p, "next")
  /\ UNCHANGED <<key, retry, aged, idem, running, cur, next, budget,
                 history, deadOnce>>

AfterBatch(w) ==
  IF w \in Callers THEN "stopped"
  ELSE IF running[w] THEN "wait" ELSE "shutdown"

(* A fetch returns an error: process_batch gives up, and what the first    *)
(* fetch claimed stays Processing with nobody working on it.               *)
FetchFails(p) ==
  /\ pc[p] \in {"fetchRetryable", "fetchPending"}
  /\ faults < MaxFaults
  /\ faults' = faults + 1
  /\ batch' = [batch EXCEPT ![p] = {}]
  /\ Goto(p, AfterBatch(p))
  /\ UNCHANGED <<table, aged, idem, running, cur, next, operations, history, deadOnce>>

EndBatch(w) ==
  /\ pc[w] = "next"
  /\ batch[w] = {}
  /\ Goto(w, AfterBatch(w))
  /\ UNCHANGED <<table, aged, idem, running, batch, cur, next, budget,
                 history, deadOnce>>

(* After the loop: reset_stale_processing(0), or a warning if it fails *)
Shutdown(p) ==
  /\ pc[p] = "shutdown"
  /\ \/ ResetStaleProcessing(Ids) /\ UNCHANGED faults
     \/ /\ faults < MaxFaults
        /\ faults' = faults + 1
        /\ UNCHANGED status
  /\ Goto(p, "stopped")
  /\ UNCHANGED <<key, retry, aged, idem, running, batch, cur, next,
                 operations, history, deadOnce>>

(* The server process dies, or is redeployed after its task halted *)
Crash(w) ==
  /\ pc[w] # "stopped"
  /\ faults < MaxFaults
  /\ faults' = faults + 1
  /\ running' = [p \in Processors |-> running[p] /\ p # w]
  /\ batch' = [batch EXCEPT ![w] = {}]
  /\ cur' = [cur EXCEPT ![w] = NoEvent]
  /\ next' = [next EXCEPT ![w] = 1]
  /\ Goto(w, "stopped")
  /\ UNCHANGED <<table, aged, idem, operations, history, deadOnce>>

(* retry_failed, called by hand next to the background task *)
RetryFailed(c) ==
  /\ pc[c] = "stopped"
  /\ Claim(c, Oldest(FullBatch, Retryable), "retryable")
  /\ Goto(c, "next")
  /\ UNCHANGED <<key, retry, aged, idem, running, cur, next, budget,
                 history, deadOnce>>

(***************************************************************************)
(* process_single_event.                                                   *)
(***************************************************************************)

(* Mutant: the idempotency record is closed when processing begins. *)
CheckAndClose(w) ==
  /\ pc[w] = "next"
  /\ \E e \in batch[w] :
       /\ batch' = [batch EXCEPT ![w] = @ \ {e}]
       /\ cur' = [cur EXCEPT ![w] = e]
       /\ idem' = [idem EXCEPT ![e.id] = "Processed"]
       /\ Goto(w, IF idem[e.id] = "Processed" THEN "skip" ELSE "dispatch")
  /\ next' = [next EXCEPT ![w] = 1]
  /\ UNCHANGED <<table, aged, running, budget, history, deadOnce>>

(* The next event of the batch, in the order RETURNING happened to give,   *)
(* and IdempotencyRepo.check_and_mark: a record left in Processing lets    *)
(* the event through, only a Processed one stops it.                       *)
CheckAndMark(w) ==
  /\ pc[w] = "next"
  /\ \E e \in batch[w] :
       /\ batch' = [batch EXCEPT ![w] = @ \ {e}]
       /\ cur' = [cur EXCEPT ![w] = e]
       /\ idem' = [idem EXCEPT ![e.id] =
                     IF @ = "Processed" THEN @ ELSE "Processing"]
       /\ Goto(w, IF idem[e.id] = "Processed" THEN "skip" ELSE "dispatch")
  /\ next' = [next EXCEPT ![w] = 1]
  /\ UNCHANGED <<table, aged, running, budget, history, deadOnce>>

(* The statement fails: the event is dropped, still Processing *)
CheckFails(w) ==
  /\ pc[w] = "next"
  /\ faults < MaxFaults
  /\ faults' = faults + 1
  /\ \E e \in batch[w] : batch' = [batch EXCEPT ![w] = @ \ {e}]
  /\ UNCHANGED <<table, aged, idem, running, pc, cur, next, operations,
                 history, deadOnce>>

(* Back to the loop over the batch, forgetting the event *)
Finish(w) ==
  /\ Goto(w, "next")
  /\ cur' = [cur EXCEPT ![w] = NoEvent]
  /\ next' = [next EXCEPT ![w] = 1]

(* UPDATE ... WHERE id = .. AND status != 3: a deleted row is not touched *)
MarkProcessed(i) ==
  status' = [status EXCEPT ![i] = IF @ = "Archived" THEN @ ELSE "Processed"]

Skip(w) ==
  /\ pc[w] = "skip"
  /\ MarkProcessed(cur[w].id)
  /\ Finish(w)
  /\ UNCHANGED <<key, retry, aged, idem, running, batch, budget, history, deadOnce>>

(* Mutant: dispatch walks one past the end of the handler list. *)
HandlerPastEnd(w) ==
  LET i == cur[w].id
      h == next[w]
  IN /\ pc[w] = "dispatch"
     /\ h <= NHandlers + 1
     /\ delivered' = [delivered EXCEPT ![i] = @ \cup {h}]
     /\ repeated' = [repeated EXCEPT ![i] =
                       @ \cup (delivered[i] \cap {h})]
     /\ next' = [next EXCEPT ![w] = h + 1]
     /\ UNCHANGED <<table, aged, idem, running, pc, batch, cur, budget,
                    failures, deadOnce>>

(* registry.dispatch calls the handlers in order, each with its own        *)
(* connection; the first error ends the dispatch.                          *)
HandlerSucceeds(w) ==
  LET i == cur[w].id
      h == next[w]
  IN /\ pc[w] = "dispatch"
     /\ h \in Handlers
     /\ delivered' = [delivered EXCEPT ![i] = @ \cup {h}]
     /\ repeated' = [repeated EXCEPT ![i] =
                       @ \cup (delivered[i] \cap {h})]
     /\ next' = [next EXCEPT ![w] = h + 1]
     /\ UNCHANGED <<table, aged, idem, running, pc, batch, cur, budget,
                    failures, deadOnce>>

(* Mutant: dispatch logs a handler's error and goes on to the next one. *)
HandlerErrorIgnored(w) ==
  /\ pc[w] = "dispatch"
  /\ next[w] \in Handlers
  /\ next' = [next EXCEPT ![w] = @ + 1]
  /\ UNCHANGED <<table, aged, idem, running, pc, batch, cur, budget,
                 history, deadOnce>>

HandlerFails(w) ==
  /\ pc[w] = "dispatch"
  /\ next[w] \in Handlers
  /\ failures' = [failures EXCEPT ![cur[w].id] = @ + 1]
  /\ Goto(w, "nack")
  /\ UNCHANGED <<table, aged, idem, running, batch, cur, next, budget,
                 delivered, repeated, deadOnce>>

(* Mutant: a dispatch that has succeeded is taken for one that failed. *)
AckAsFailed(w) ==
  /\ pc[w] = "dispatch"
  /\ next[w] \notin Handlers
  /\ Goto(w, "nack")
  /\ UNCHANGED <<table, aged, idem, running, batch, cur, next, budget,
                 history, deadOnce>>

(* Every handler returned Ok: the event is marked first ...                *)
AckEvent(w) ==
  /\ pc[w] = "dispatch"
  /\ next[w] \notin Handlers
  /\ MarkProcessed(cur[w].id)
  /\ Goto(w, "record")
  /\ UNCHANGED <<key, retry, aged, idem, running, batch, cur, next, budget,
                 history, deadOnce>>

(* ... and the idempotency record in a second statement *)
AckRecord(w) ==
  /\ pc[w] = "record"
  /\ idem' = [idem EXCEPT ![cur[w].id] = "Processed"]
  /\ Finish(w)
  /\ UNCHANGED <<table, aged, running, batch, budget, history,
                 deadOnce>>

(* Mutants: give up one failure early; give up only past the limit. *)
ExhaustedEarly(e) == e.retry + 2 >= MaxRetries
ExhaustedLate(e) == e.retry > MaxRetries

(* The decision uses the retry_count read when the event was fetched *)
Exhausted(e) == e.retry + 1 >= MaxRetries

MarkFailed(i) ==
  /\ status' = [status EXCEPT ![i] = IF @ = "Archived" THEN @ ELSE "Failed"]
  /\ retry' = [retry EXCEPT ![i] = IF status[i] = "Archived" THEN @ ELSE @ + 1]
  /\ UNCHANGED deadOnce

MarkDeadLetter(i) ==
  /\ status' = [status EXCEPT ![i] = IF @ = "Archived" THEN @ ELSE "DeadLetter"]
  /\ deadOnce' = deadOnce \cup {i}
  /\ UNCHANGED retry

Nack(w) ==
  LET e == cur[w]
  IN /\ pc[w] = "nack"
     /\ \/ Exhausted(e) /\ MarkDeadLetter(e.id)
        \/ ~Exhausted(e) /\ MarkFailed(e.id)
     /\ Finish(w)
     /\ UNCHANGED <<key, aged, idem, running, batch, budget, history>>

(* One of the closing statements fails: what it would have written is lost *)
MarkFails(w) ==
  /\ \/ pc[w] \in {"skip", "record", "nack"}
     \/ pc[w] = "dispatch" /\ next[w] \notin Handlers
  /\ faults < MaxFaults
  /\ faults' = faults + 1
  /\ Finish(w)
  /\ UNCHANGED <<table, aged, idem, running, batch, operations, history, deadOnce>>

ProcessSingleEvent(w) ==
  \/ CheckAndMark(w)
  \/ Skip(w)
  \/ HandlerSucceeds(w)
  \/ HandlerFails(w)
  \/ AckEvent(w)
  \/ AckRecord(w)
  \/ Nack(w)

Task(p) ==
  \/ Connect(p)
  \/ Wake(p)
  \/ FetchRetryable(p)
  \/ FetchPending(p)
  \/ Shutdown(p)

Fault(w) == Crash(w) \/ CheckFails(w) \/ MarkFails(w)

Next ==
  \/ \E k \in Keys : Publish(k)
  \/ \E i \in Ids :
       Age(i) \/ RetryOne(i) \/ ArchiveDeadLetters(i)
  \/ \E p \in Processors :
       Start(p) \/ Stop(p) \/ Task(p) \/ ListenFails(p) \/ FetchFails(p)
  \/ \E c \in Callers : RetryFailed(c)
  \/ \E w \in Workers : ProcessSingleEvent(w) \/ EndBatch(w) \/ Fault(w)

Spec == Init /\ [][Next]_vars

(* A started process keeps executing its statements, is started again      *)
(* after it ended (but not after its task halted), its handlers return,    *)
(* with Ok or with an error, and time passes.  Publishers, operators and   *)
(* faults get no fairness.                                                 *)
Fairness ==
  /\ \A p \in Processors :
       /\ WF_vars(Start(p))
       /\ WF_vars(Task(p))
       /\ WF_vars(ProcessSingleEvent(p))
       /\ WF_vars(EndBatch(p))
  /\ \A i \in Ids : WF_vars(Age(i))

FairSpec == Spec /\ Fairness

(***************************************************************************)
(* Properties.                                                             *)
(***************************************************************************)

TypeOK ==
  /\ key \in [Ids -> Keys]
  /\ status \in [Ids -> Status]
  /\ retry \in [Ids -> Nat]
  /\ aged \subseteq Ids
  /\ idem \in [Ids -> {"None", "Processing", "Processed"}]
  /\ running \in [Processors -> BOOLEAN]
  /\ pc \in [Workers -> PcStates]
  /\ batch \in [Workers -> SUBSET Fetched]
  /\ cur \in [Workers -> Fetched]
  /\ next \in [Workers -> 1..(NHandlers + 1)]
  /\ faults \in Nat
  /\ operations \in Nat
  /\ delivered \in [Ids -> SUBSET Handlers]
  /\ repeated \in [Ids -> SUBSET Handlers]
  /\ failures \in [Ids -> Nat]
  /\ deadOnce \subseteq Ids

(* An event is only ever marked Processed, and its idempotency record only *)
(* ever closed, after every registered handler has succeeded on it: what   *)
(* process_single_event promises by marking after dispatch, whatever other *)
(* instances, crashes and operators do in between.                         *)
NothingAckedUndelivered ==
  \A i \in Ids :
    status[i] = "Processed" \/ idem[i] = "Processed" => delivered[i] = Handlers

(* Handlers of one event succeed in registration order: a later handler    *)
(* never ran on an event whose earlier handlers have not (dispatch's `?`). *)
DeliveredInOrder ==
  \A i \in Ids : \A h \in delivered[i] : 1..h \subseteq delivered[i]

(* An event reaches the dead letter list only after max_retries dispatches *)
(* of it have failed, even though the decision is taken on a retry_count   *)
(* that may be stale.                                                      *)
DeadLetterEarned ==
  \A i \in InStatus("DeadLetter") : failures[i] >= MaxRetries

(* With one processor, a Failed row stays within reach of fetch_retryable  *)
(* (retry_count <= max_retries), also when the processor counts failures   *)
(* from two copies of it: no event is left that is neither retried nor in  *)
(* the dead letter list.  Several processors can count past the limit.     *)
NoEventStranded ==
  \A i \in InStatus("Failed") : retry[i] <= MaxRetries

Holds(w, i) ==
  \/ \E e \in batch[w] : e.id = i
  \/ pc[w] \in {"skip", "dispatch", "record", "nack"} /\ cur[w].id = i

(* FOR UPDATE SKIP LOCKED gives an event to one worker at a time, as long  *)
(* as the event is younger than five minutes, nobody redrove it and no     *)
(* instance shut down: outside those three cases two workers never hold    *)
(* the same event.                                                         *)
ClaimedByOne ==
  \A i \in Ids \ (aged \cup deadOnce) :
    operations = 0 =>
      \A v, w \in Workers : Holds(v, i) /\ Holds(w, i) => v = w

(* With one processor, an acknowledged event stays acknowledged until an   *)
(* operator redrives it: no late mark_failed, mark_dead_letter or stale    *)
(* reset touches it.                                                       *)
ProcessedIsFinal ==
  [][\A i \in Ids \ deadOnce :
       status[i] = "Processed" => status'[i] = "Processed"]_vars

(* With one processor, a handler succeeds twice on an event only for a      *)
(* cause: a fault or an operator's call, or the failure of a handler after  *)
(* it.  So the last handler of an event never runs again because of the     *)
(* others, and retries alone never repeat an event that has succeeded.      *)
RepeatedForCause ==
  \A i \in Ids : \A h \in repeated[i] :
    \/ faults + operations > 0
    \/ h < NHandlers /\ failures[i] > 0

(* Every accepted event ends Processed, in the dead letter list or         *)
(* archived, unless every processor's task has halted for good, or several *)
(* processors have counted its failures past max_retries.                  *)
EventuallySettled ==
  \A i \in Ids :
    status[i] = "Pending" ~>
      \/ status[i] \in {"Processed", "DeadLetter", "Archived"}
      \/ \A p \in Processors : pc[p] = "halted"
      \/ retry[i] > MaxRetries

(* What EventDelivery sees of an event *)
DeliveryState ==
  [i \in Ids |->
     CASE status[i] = "Absent" -> "absent"
       [] status[i] = "Processed" -> "acked"
       [] status[i] = "DeadLetter" -> "dead"
       [] status[i] = "Archived" -> "gone"
       [] OTHER -> "open"]

(* What one processor does to the tables is what EventDelivery promises:   *)
(* handlers run on open events, or on redriven ones, in order, and an      *)
(* event is closed when they are through, or was given up for cause.       *)
Delivery == INSTANCE EventDelivery WITH
  state <- DeliveryState,
  givenUp <- deadOnce

ImplementsDelivery == Delivery!Spec
=============================================================================
