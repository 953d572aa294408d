---------------------------- MODULE EventDelivery ----------------------------
(***************************************************************************)
(* What the event bus promises for one event at a time, with no table, no  *)
(* worker and no crash.  An accepted event is handled by its handlers in   *)
(* order, while it is open; it is acknowledged only when all of them have  *)
(* succeeded, and then for good; it is given up only after MaxRetries      *)
(* failures.  An event that was given up once may be reopened, and is then *)
(* handled at least once more, perhaps by several attempts at once: its    *)
(* handlers may still run after it was closed, and close it again.         *)
(***************************************************************************)
EXTENDS Integers

CONSTANTS Ids, Handlers, MaxRetries

VARIABLES
  state,      \* "absent", "open", "acked", "dead" or "gone"
  delivered,  \* handlers that have succeeded
  failures,   \* failed attempts
  givenUp     \* events that were dead once

vars == <<state, delivered, failures, givenUp>>

Init ==
  /\ state = [i \in Ids |-> "absent"]
  /\ delivered = [i \in Ids |-> {}]
  /\ failures = [i \in Ids |-> 0]
  /\ givenUp = {}

Active(i) == state[i] = "open" \/ i \in givenUp

(* From where an event may be closed *)
Closable(i) == IF i \in givenUp THEN {"open", "acked", "dead"} ELSE {"open"}

Move(i, from, to) ==
  /\ state[i] \in from
  /\ state' = [state EXCEPT ![i] = to]
  /\ UNCHANGED <<delivered, failures>>

Accept(i) == Move(i, {"absent"}, "open") /\ UNCHANGED givenUp

Deliver(i, h) ==
  /\ Active(i)
  /\ \A g \in Handlers : g < h => g \in delivered[i]
  /\ delivered' = [delivered EXCEPT ![i] = @ \cup {h}]
  /\ UNCHANGED <<state, failures, givenUp>>

Refuse(i) ==
  /\ Active(i)
  /\ failures' = [failures EXCEPT ![i] = @ + 1]
  /\ UNCHANGED <<state, delivered, givenUp>>

Ack(i) ==
  /\ delivered[i] = Handlers
  /\ Move(i, Closable(i), "acked")
  /\ UNCHANGED givenUp

GiveUp(i) ==
  /\ failures[i] >= MaxRetries
  /\ Move(i, Closable(i), "dead")
  /\ givenUp' = givenUp \cup {i}

Reopen(i) ==
  /\ i \in givenUp
  /\ Move(i, {"acked", "dead"}, "open")
  /\ UNCHANGED givenUp

Forget(S) ==
  /\ \A i \in S : state[i] = "dead"
  /\ state' = [i \in Ids |-> IF i \in S THEN "gone" ELSE state[i]]
  /\ UNCHANGED <<delivered, failures, givenUp>>

Next ==
  \/ \E i \in Ids :
       \/ Accept(i) \/ Refuse(i) \/ Ack(i) \/ GiveUp(i) \/ Reopen(i)
       \/ \E h \in Handlers : Deliver(i, h)
  \/ \E S \in SUBSET Ids : Forget(S)

Spec == Init /\ [][Next]_vars
=============================================================================
