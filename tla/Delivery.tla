------------------------------ MODULE Delivery ------------------------------
(***************************************************************************)
(* What the event bus promises, with everything that implements it left   *)
(* out (no relays, batches, locks, partitions, offsets or consumers):      *)
(* only what a committed transaction enqueued is published, at least once  *)
(* before its row leaves the backlog and under an id of its own each time; *)
(* a published event stays; and what was published takes effect at most   *)
(* once per id.                                                            *)
(*                                                                         *)
(* EventBus implements this module under the mapping at its end.           *)
(***************************************************************************)
EXTENDS Naturals

CONSTANTS
    Rows,         \* ids of outbox rows
    Ids           \* what distinguishes the events published for one row

VARIABLES
    backlog,      \* backlog[r]: state of the outbox row
    topic,        \* events published so far
    applied,      \* events that took effect
    effects,      \* effects[r]: how often an event of row r took effect
    setAside      \* events given to the DLQ or given up

deliveryVars == <<backlog, topic, applied, effects, setAside>>

Event == [row : Rows, copy : Ids]

Init ==
    /\ backlog = [r \in Rows |-> "none"]
    /\ topic = {} /\ applied = {} /\ setAside = {}
    /\ effects = [r \in Rows |-> 0]

Enqueue(r) ==
    /\ backlog[r] = "none"
    /\ backlog' = [backlog EXCEPT ![r] = "pending"]
    /\ UNCHANGED <<topic, applied, effects, setAside>>

\* Once or more often, and under a new id each time.
Send(e) ==
    /\ backlog[e.row] = "pending"
    /\ e \notin topic
    /\ topic' = topic \cup {e}
    /\ UNCHANGED <<backlog, applied, effects, setAside>>

\* A batch of rows is done: all of them have been sent.
Retire(rows) ==
    /\ \A r \in rows : backlog[r] = "pending" /\ \E e \in topic : e.row = r
    /\ backlog' = [r \in Rows |-> IF r \in rows THEN "published" ELSE backlog[r]]
    /\ UNCHANGED <<topic, applied, effects, setAside>>

Apply(e) ==
    /\ e \in topic /\ e \notin applied
    /\ applied' = applied \cup {e}
    /\ effects' = [effects EXCEPT ![e.row] = @ + 1]
    /\ UNCHANGED <<backlog, topic, setAside>>

GiveUp(e) ==
    /\ e \in topic
    /\ setAside' = setAside \cup {e}
    /\ UNCHANGED <<backlog, topic, applied, effects>>

Next ==
    \/ \E r \in Rows : Enqueue(r)
    \/ \E rows \in SUBSET Rows : Retire(rows)
    \/ \E e \in Event : Send(e) \/ Apply(e) \/ GiveUp(e)

Spec == Init /\ [][Next]_deliveryVars
=============================================================================
