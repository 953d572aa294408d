----------------------------- MODULE DemandPool -----------------------------
(***************************************************************************)
(* What the demand pool promises to planners and buyers: a demand waits in *)
(* the pool or is held by one open document; a document takes demands once *)
(* and, when it is closed, gives back all it holds.                        *)
(***************************************************************************)
CONSTANTS Demands, Docs

VARIABLES waiting, held, closed

vars == <<waiting, held, closed>>

Taken == UNION {held[x] : x \in Docs}

Init ==
  /\ waiting = {}
  /\ held = [x \in Docs |-> {}]
  /\ closed = {}

(* New shortages enter the pool *)
Arrive ==
  \E new \in SUBSET (Demands \ (waiting \cup Taken)) :
    /\ waiting' = waiting \cup new
    /\ UNCHANGED <<held, closed>>

(* One planner's choice, shared out over documents that hold nothing yet    *)
Hand ==
  \E given \in [Docs -> SUBSET waiting] :
    /\ \A x, y \in Docs : given[x] \cap given[y] # {} => x = y
    /\ \A x \in Docs : given[x] # {} => held[x] = {} /\ x \notin closed
    /\ waiting' = waiting \ UNION {given[x] : x \in Docs}
    /\ held' = [x \in Docs |-> held[x] \cup given[x]]
    /\ UNCHANGED closed

Close(x) ==
  /\ x \notin closed
  /\ closed' = closed \cup {x}
  /\ waiting' = waiting \cup held[x]
  /\ held' = [held EXCEPT ![x] = {}]

Next == Arrive \/ Hand \/ \E x \in Docs : Close(x)

Spec == Init /\ [][Next]_vars
=============================================================================
