----------------------------- MODULE OrderSaga -----------------------------
(***************************************************************************)
(* The order saga: the create-order handler, the payments consumer of the *)
(* order service with its database transactions, and the reservation the  *)
(* inventory service keeps for each order.                                 *)
(*                                                                         *)
(* Postgres runs at READ COMMITTED: a transaction's writes (txOrder,      *)
(* txSaga and the processed_events insert) stay invisible until it        *)
(* commits, a row it wrote or locked stays locked until it ends, and what *)
(* it read without a lock (snap) may be stale when it is used.             *)
(***************************************************************************)
EXTENDS Naturals, FiniteSets

CONSTANTS
    Orders,      \* order ids
    Workers,     \* payments-consumer goroutines of all order-service replicas
    EventIds,    \* ids the payment service's publisher may draw
    Emitted,     \* types of payment events the payment service emits
    Nobody,      \* holder of a free row lock
    NoEvent,     \* the event of an idle worker
    MaxRetries,  \* KAFKA_MAX_RETRIES: retries after a handler's first attempt
    MaxCrashes   \* bound: worker crashes in one behaviour

ASSUME NobodyAssumption == Nobody \notin Workers
ASSUME RetriesAssumption == MaxRetries \in Nat
ASSUME CrashesAssumption == MaxCrashes \in Nat

VARIABLES
    order,       \* orders.status of the committed row, "absent" without a row
    version,     \* orders.version of the committed row, 0 without a row
    saga,        \* order_sagas.state of the committed row, "none" without one
    outbox,      \* outbox[o][t]: committed outbox rows of type t for o
    processed,   \* committed processed_events rows (event ids)
    creator,     \* progress of the POST /orders request that creates o
    stock,       \* the inventory service's reservation for o
    late,        \* inventory requests the client gave up on, not served yet
    published,   \* payment events on payments.events
    acked,       \* events whose offset was committed
    dlq,         \* events handed off to the dead-letter topic
    skipped,     \* events left behind uncommitted
    pc,          \* pc[w]: the next statement of worker w's handler
    ev,          \* ev[w]: the event w handles
    attempt,     \* attempt[w]: retries used for ev[w]
    snap,        \* snap[w]: status and version w read with GetByID
    txOrder,     \* txOrder[w]: orders.status written by w's open transaction
    txSaga,      \* txSaga[w]: order_sagas.state written by it
    orderLock,   \* orderLock[o]: worker holding the row lock on orders[o]
    sagaLock,    \* sagaLock[o]: worker holding the row lock on order_sagas[o]
    crashes

dbVars     == <<order, version, saga, outbox, processed>>
brokerVars == <<published, acked, dlq, skipped>>
txVars     == <<snap, txOrder, txSaga, orderLock, sagaLock>>
workerVars == <<pc, ev, attempt>>
vars == <<dbVars, creator, stock, late, brokerVars, workerVars, txVars, crashes>>

----------------------------------------------------------------------------
\* Data

OrderStatus == {"absent", "pending", "pending_payment", "payment_failed",
                "confirmed", "cancelled"}

SagaState == {"none", "started", "stock_reserved", "awaiting_payment", "paid",
              "completed", "compensating", "compensated", "failed"}

OrderEventType == {"order.created", "order.ready_for_payment",
                   "order.confirmed", "order.cancelled"}

\* payment.initiated stands for every type the consumer does not act on, no_order
\* for a payment.processed or payment.failed whose order_id is missing or does not
\* parse: the consumer cannot tell which order the event is about.
Unhandled == {"payment.initiated", "no_order"}
PaymentEventType == {"payment.processed", "payment.failed"} \cup Unhandled

ASSUME EmittedAssumption == Emitted \subseteq PaymentEventType

Event == [id : EventIds, type : Emitted, order : Orders]

InventoryRequest == [op : {"reserve", "release"}, order : Orders]

\* Mutant: an edge that lets a compensating saga be paid.
graphPaysCompensating ==
    {<<"stock_reserved", "awaiting_payment">>, <<"started", "stock_reserved">>,
     <<"awaiting_payment", "paid">>, <<"awaiting_payment", "compensating">>,
     <<"compensating", "paid">>, <<"paid", "completed">>, <<"compensating", "compensated">>}

\* The moves of the saga's state graph.
graph == {<<"started", "stock_reserved">>,
          <<"started", "failed">>,
          <<"stock_reserved", "awaiting_payment">>,
          <<"stock_reserved", "compensating">>,
          <<"awaiting_payment", "paid">>,
          <<"awaiting_payment", "compensating">>,
          <<"paid", "completed">>,
          <<"paid", "compensating">>,
          <<"compensating", "compensated">>}

\* Mutant: the saga row is overwritten without looking at it.
CanTransitionAlways(from, to) == TRUE

CanTransition(from, to) == from = to \/ <<from, to>> \in graph

isTerminal(status) == status \in {"confirmed", "payment_failed", "cancelled"}

\* The saga row as w's transaction sees it: its own write, or the committed one.
SagaSeenBy(w, o) == IF txSaga[w] # "none" THEN txSaga[w] ELSE saga[o]

\* MarkProcessed inserted ev[w].id in a transaction that is still open.
InTx(w) == pc[w] \in {"read", "paid", "compensating", "release",
                      "update", "finish", "commit"}

----------------------------------------------------------------------------
\* What the inventory service does with a request for one order.

Reserved(s) == IF s = "none" THEN "reserved" ELSE s
Released(s) == IF s = "reserved" THEN "released" ELSE s
Committed(s) == IF s = "reserved" THEN "committed" ELSE s

\* A request whose client timed out reaches the inventory service after all.
ServeLate(r) ==
    /\ r \in late
    /\ late' = late \ {r}
    /\ stock' = [stock EXCEPT ![r.order] =
                    IF r.op = "reserve" THEN Reserved(@) ELSE Released(@)]
    /\ UNCHANGED <<dbVars, creator, brokerVars, workerVars, txVars, crashes>>

\* The inventory service's own consumer, told of the outcome by the outbox.
InventoryOnConfirmed(o) ==
    /\ outbox[o]["order.confirmed"] > 0
    /\ stock' = [stock EXCEPT ![o] = Committed(@)]
    /\ UNCHANGED <<dbVars, creator, late, brokerVars, workerVars, txVars, crashes>>

InventoryOnCancelled(o) ==
    /\ outbox[o]["order.cancelled"] > 0
    /\ stock' = [stock EXCEPT ![o] = Released(@)]
    /\ UNCHANGED <<dbVars, creator, late, brokerVars, workerVars, txVars, crashes>>

----------------------------------------------------------------------------
\* POST /api/v1/orders: reserve over HTTP, save, then ask for payment.

creatorRest == <<brokerVars, workerVars, txVars, crashes>>

\* Reserve answered 2xx.
ReserveOK(o) ==
    /\ creator[o] = "new"
    /\ creator' = [creator EXCEPT ![o] = "reserved"]
    /\ stock' = [stock EXCEPT ![o] = Reserved(@)]
    /\ UNCHANGED <<dbVars, late, creatorRest>>

\* Invalid input, a shortage, or an open breaker: nothing was reserved.
ReserveRejected(o) ==
    /\ creator[o] = "new"
    /\ creator' = [creator EXCEPT ![o] = "rejected"]
    /\ UNCHANGED <<dbVars, stock, late, creatorRest>>

\* Timeout, lost answer, or a crash while waiting: the outcome is unknown, the
\* handler returns an error and never releases.
ReserveLost(o) ==
    /\ creator[o] = "new"
    /\ creator' = [creator EXCEPT ![o] = "rejected"]
    /\ late' = late \cup {[op |-> "reserve", order |-> o]}
    /\ UNCHANGED <<dbVars, stock, creatorRest>>

\* The transaction of OrderRepository.Save: the orders row and order.created.
SaveTx(o) ==
    /\ order' = [order EXCEPT ![o] = "pending"]
    /\ version' = [version EXCEPT ![o] = 1]
    /\ outbox' = [outbox EXCEPT ![o]["order.created"] = @ + 1]

Save(o) ==
    /\ creator[o] = "reserved"
    /\ SaveTx(o)
    /\ creator' = [creator EXCEPT ![o] = "saved"]
    /\ UNCHANGED <<saga, processed, stock, late, creatorRest>>

\* Save returns an error; the commit may have landed all the same.
SaveFails(o) ==
    /\ creator[o] = "reserved"
    /\ creator' = [creator EXCEPT ![o] = "aborting"]
    /\ SaveTx(o) \/ UNCHANGED <<order, version, outbox>>
    /\ UNCHANGED <<saga, processed, stock, late, creatorRest>>

\* The handler gives the reservation back and answers the Save error, whether
\* or not Release worked (a cancelled request context makes it fail unsent).
AbortRelease(o) ==
    /\ creator[o] = "aborting"
    /\ creator' = [creator EXCEPT ![o] = "aborted"]
    /\ \/ stock' = [stock EXCEPT ![o] = Released(@)] /\ UNCHANGED late
       \/ /\ late' = late \cup {[op |-> "release", order |-> o]}
          /\ UNCHANGED stock
       \/ UNCHANGED <<stock, late>>
    /\ UNCHANGED <<dbVars, creatorRest>>

\* MarkPendingPayment: start the saga, advance it past stock_reserved, move the
\* order to pending_payment, enqueue order.ready_for_payment, await payment.
\* One transaction that waits for no other one: a worker locks the rows of o only
\* after it read what this transaction commits.
MarkPendingPaymentTx(o) ==
    /\ saga[o] = "none"
    /\ CanTransition("started", "stock_reserved")
    /\ order[o] = "pending"
    /\ CanTransition("stock_reserved", "awaiting_payment")
    /\ saga' = [saga EXCEPT ![o] = "awaiting_payment"]
    /\ order' = [order EXCEPT ![o] = "pending_payment"]
    /\ version' = [version EXCEPT ![o] = @ + 1]
    /\ outbox' = [outbox EXCEPT ![o]["order.ready_for_payment"] = @ + 1]

MarkPendingPayment(o) ==
    /\ creator[o] = "saved"
    /\ MarkPendingPaymentTx(o)
    /\ creator' = [creator EXCEPT ![o] = "accepted"]
    /\ UNCHANGED <<processed, stock, late, creatorRest>>

\* The handler answers an error and leaves the order as it is; again the commit
\* may have landed.
MarkPendingPaymentFails(o) ==
    /\ creator[o] = "saved"
    /\ creator' = [creator EXCEPT ![o] = "failed"]
    /\ MarkPendingPaymentTx(o) \/ UNCHANGED <<order, version, saga, outbox>>
    /\ UNCHANGED <<processed, stock, late, creatorRest>>

\* The replica dies between two steps of the request.
CreatorCrash(o) ==
    /\ creator[o] \in {"reserved", "saved", "aborting"}
    /\ creator' = [creator EXCEPT ![o] = "crashed"]
    /\ UNCHANGED <<dbVars, stock, late, creatorRest>>

----------------------------------------------------------------------------
\* The payment service publishes any result, any number of times (its relay
\* republishes a row under a fresh event id), and at any time: POST /payments takes
\* an order id from the caller, so a result may be there before the order is.
PublishPaymentEvent(e) ==
    /\ \A f \in published : f.id # e.id
    /\ published' = published \cup {e}
    /\ UNCHANGED <<dbVars, creator, stock, late, acked, dlq, skipped,
                   workerVars, txVars, crashes>>

----------------------------------------------------------------------------
\* PaymentsConsumer.handle, one worker w at a time through its statements.

workerRest == <<creator, published>>

Goto(w, l) == pc' = [pc EXCEPT ![w] = l]

\* Mutant: a rollback forgets the saga row's lock.
EndTxKeepsSagaLock(w) ==
    /\ snap' = [snap EXCEPT ![w] = [status |-> "absent", version |-> 0]]
    /\ txOrder' = [txOrder EXCEPT ![w] = "absent"]
    /\ txSaga' = [txSaga EXCEPT ![w] = "none"]
    /\ orderLock' = [o \in Orders |-> IF orderLock[o] = w THEN Nobody ELSE orderLock[o]]
    /\ UNCHANGED sagaLock

\* Rollback or commit ends w's transaction: its locks are free again.
EndTx(w) ==
    /\ snap' = [snap EXCEPT ![w] = [status |-> "absent", version |-> 0]]
    /\ txOrder' = [txOrder EXCEPT ![w] = "absent"]
    /\ txSaga' = [txSaga EXCEPT ![w] = "none"]
    /\ orderLock' = [o \in Orders |->
                        IF orderLock[o] = w THEN Nobody ELSE orderLock[o]]
    /\ sagaLock' = [o \in Orders |->
                        IF sagaLock[o] = w THEN Nobody ELSE sagaLock[o]]

\* The subscriber fetches a message. A message is handled by two workers when a
\* rebalance hands it to a second one before the first committed its offset.
Fetch(w, e) ==
    /\ pc[w] = "idle"
    /\ e \in published \ (acked \cup skipped)
    /\ Goto(w, "begin")
    /\ ev' = [ev EXCEPT ![w] = e]
    /\ attempt' = [attempt EXCEPT ![w] = 0]
    /\ UNCHANGED <<dbVars, workerRest, stock, late, acked, dlq, skipped, txVars, crashes>>

\* handle ignores the event's type, or drops an event that names no order: nil
\* either way, so the offset is committed.
Ignore(w) ==
    /\ pc[w] = "begin"
    /\ ev[w].type \in Unhandled
    /\ Goto(w, "ack")
    /\ UNCHANGED <<dbVars, workerRest, stock, late, acked, dlq, skipped,
                   ev, attempt, txVars, crashes>>

\* Mutant: the event id is committed before the event takes effect.
MarkProcessedFirst(w) ==
    /\ pc[w] = "begin"
    /\ ev[w].type \notin Unhandled
    /\ processed' = processed \cup {ev[w].id}
    /\ Goto(w, IF ev[w].id \in processed THEN "ack" ELSE "read")
    /\ UNCHANGED <<order, version, saga, outbox, workerRest, stock, late, acked, dlq,
                   skipped, ev, attempt, txVars, crashes>>

\* INSERT ... ON CONFLICT DO NOTHING waits for a transaction that holds the same
\* id uncommitted, then either inserts it or reports a redelivery.
MarkProcessed(w) ==
    /\ pc[w] = "begin"
    /\ ev[w].type \notin Unhandled
    /\ \A v \in Workers : InTx(v) => ev[v].id # ev[w].id
    /\ Goto(w, IF ev[w].id \in processed THEN "ack" ELSE "read")
    /\ UNCHANGED <<dbVars, workerRest, stock, late, acked, dlq, skipped,
                   ev, attempt, txVars, crashes>>

\* Mutant: one retry too many.
FailedOnceMore(w) ==
    /\ IF attempt[w] <= MaxRetries
       THEN Goto(w, "begin") /\ attempt' = [attempt EXCEPT ![w] = @ + 1]
       ELSE Goto(w, "giveup") /\ UNCHANGED attempt
    /\ EndTx(w)
    /\ UNCHANGED ev

\* handle returned an error and rolled back: retry it, or give the event up.
Failed(w) ==
    /\ IF attempt[w] < MaxRetries
       THEN Goto(w, "begin") /\ attempt' = [attempt EXCEPT ![w] = @ + 1]
       ELSE Goto(w, "giveup") /\ UNCHANGED attempt
    /\ EndTx(w)
    /\ UNCHANGED ev

\* GetByID runs outside the transaction and takes no lock; it finds the order, or
\* fails because there is none.
ReadOrder(w) ==
    LET o == ev[w].order IN
    /\ pc[w] = "read"
    /\ \/ /\ order[o] # "absent"
          /\ snap' = [snap EXCEPT ![w] = [status |-> order[o], version |-> version[o]]]
          /\ Goto(w, IF isTerminal(order[o]) THEN "commit"
                     ELSE IF ev[w].type = "payment.processed" THEN "paid" ELSE "compensating")
          /\ UNCHANGED <<ev, attempt, txOrder, txSaga, orderLock, sagaLock>>
       \/ order[o] = "absent" /\ Failed(w)
    /\ UNCHANGED <<dbVars, workerRest, stock, late, acked, dlq, skipped, crashes>>

\* ConfirmPayment moves the saga to paid, taking the lock on the saga row.
TransitionPaid(w) ==
    LET o == ev[w].order IN
    /\ pc[w] = "paid"
    /\ sagaLock[o] = Nobody
    /\ \/ /\ CanTransition(saga[o], "paid")
          /\ Goto(w, "update")
          /\ sagaLock' = [sagaLock EXCEPT ![o] = w]
          /\ txSaga' = [txSaga EXCEPT ![w] = "paid"]
          /\ UNCHANGED <<ev, attempt, snap, txOrder, orderLock>>
       \/ ~CanTransition(saga[o], "paid") /\ Failed(w)
    /\ UNCHANGED <<dbVars, workerRest, stock, late, acked, dlq, skipped, crashes>>

\* FailPayment's durable checkpoint, committed in a transaction of its own.
markCompensating(w) ==
    LET o == ev[w].order IN
    /\ pc[w] = "compensating"
    /\ sagaLock[o] = Nobody
    /\ \/ /\ CanTransition(saga[o], "compensating")
          /\ saga' = [saga EXCEPT ![o] = "compensating"]
          /\ Goto(w, "release")
          /\ UNCHANGED <<ev, attempt, txVars>>
       \/ /\ ~CanTransition(saga[o], "compensating")
          /\ Failed(w)
          /\ UNCHANGED saga
    /\ UNCHANGED <<order, version, outbox, processed, workerRest, stock, late,
                   acked, dlq, skipped, crashes>>

\* The HTTP release, answered 204.
ReleaseOK(w) ==
    /\ pc[w] = "release"
    /\ stock' = [stock EXCEPT ![ev[w].order] = Released(@)]
    /\ Goto(w, "update")
    /\ UNCHANGED <<dbVars, workerRest, late, acked, dlq, skipped,
                   ev, attempt, txVars, crashes>>

\* Mutant: a failed release does not stop the compensation.
ReleaseFailsIgnored(w) ==
    /\ pc[w] = "release"
    /\ Goto(w, "update")
    /\ UNCHANGED <<dbVars, workerRest, stock, late, acked, dlq, skipped,
                   ev, attempt, txVars, crashes>>

\* The release failed on every attempt of the client, or its breaker is open.
\* An attempt that was sent may still be served. SetLastError writes the saga
\* row on a connection of its own, so it waits for the row lock; the text it
\* leaves there is read by operators only.
ReleaseFails(w) ==
    LET o == ev[w].order IN
    /\ pc[w] = "release"
    /\ sagaLock[o] = Nobody
    /\ late' = late \cup {[op |-> "release", order |-> o]} \/ UNCHANGED late
    /\ Failed(w)
    /\ UNCHANGED <<dbVars, workerRest, stock, acked, dlq, skipped, crashes>>

\* Mutant: the UPDATE does not compare the version.
applyTransitionBlind(w) ==
    LET o == ev[w].order IN
    /\ pc[w] = "update"
    /\ orderLock[o] = Nobody
    /\ orderLock' = [orderLock EXCEPT ![o] = w]
    /\ txOrder' = [txOrder EXCEPT ![w] =
                      IF ev[w].type = "payment.processed" THEN "confirmed" ELSE "payment_failed"]
    /\ Goto(w, "finish")
    /\ UNCHANGED <<ev, attempt, snap, txSaga, sagaLock, dbVars, workerRest, stock, late,
                   acked, dlq, skipped, crashes>>

\* applyTransition: the domain method on the order as it was read, UpdateStatus
\* guarded by the version that was read, and the outbox row.
applyTransition(w) ==
    LET o  == ev[w].order
        to == IF ev[w].type = "payment.processed" THEN "confirmed" ELSE "payment_failed"
    IN
    /\ pc[w] = "update"
    /\ orderLock[o] = Nobody
    /\ \/ /\ snap[w].status = "pending_payment"
          /\ version[o] = snap[w].version
          /\ orderLock' = [orderLock EXCEPT ![o] = w]
          /\ txOrder' = [txOrder EXCEPT ![w] = to]
          /\ Goto(w, "finish")
          /\ UNCHANGED <<ev, attempt, snap, txSaga, sagaLock>>
       \/ /\ snap[w].status # "pending_payment" \/ version[o] # snap[w].version
          /\ Failed(w)
    /\ UNCHANGED <<dbVars, workerRest, stock, late, acked, dlq, skipped, crashes>>

\* The saga's last transition, to completed or compensated, in the same
\* transaction. FailPayment takes the saga lock only here, after the order lock.
FinishSaga(w) ==
    LET o  == ev[w].order
        to == IF ev[w].type = "payment.processed" THEN "completed" ELSE "compensated"
    IN
    /\ pc[w] = "finish"
    /\ sagaLock[o] \in {Nobody, w}
    /\ \/ /\ CanTransition(SagaSeenBy(w, o), to)
          /\ sagaLock' = [sagaLock EXCEPT ![o] = w]
          /\ txSaga' = [txSaga EXCEPT ![w] = to]
          /\ Goto(w, "commit")
          /\ UNCHANGED <<ev, attempt, snap, txOrder, orderLock>>
       \/ ~CanTransition(SagaSeenBy(w, o), to) /\ Failed(w)
    /\ UNCHANGED <<dbVars, workerRest, stock, late, acked, dlq, skipped, crashes>>

\* The outbox row applyTransition enqueued with the new status.
OutcomeEvent(status) ==
    IF status = "confirmed" THEN "order.confirmed" ELSE "order.cancelled"

\* Everything w's transaction wrote becomes visible at once.
CommitTx(w) ==
    LET o == ev[w].order IN
    /\ processed' = processed \cup {ev[w].id}
    /\ IF txOrder[w] = "absent"
       THEN UNCHANGED <<order, version, outbox>>
       ELSE /\ order' = [order EXCEPT ![o] = txOrder[w]]
            /\ version' = [version EXCEPT ![o] = @ + 1]
            /\ outbox' = [outbox EXCEPT ![o][OutcomeEvent(txOrder[w])] = @ + 1]
    /\ saga' = [saga EXCEPT ![o] = IF txSaga[w] = "none" THEN @ ELSE txSaga[w]]

Commit(w) ==
    /\ pc[w] = "commit"
    /\ CommitTx(w)
    /\ EndTx(w)
    /\ Goto(w, "ack")
    /\ UNCHANGED <<workerRest, stock, late, acked, dlq, skipped, ev, attempt, crashes>>

\* The commit landed but its answer was lost: the handler sees an error.
CommitUnknown(w) ==
    /\ pc[w] = "commit"
    /\ CommitTx(w)
    /\ Failed(w)
    /\ UNCHANGED <<workerRest, stock, late, acked, dlq, skipped, crashes>>

\* Any other statement of the handler fails: connection, timeout, deadlock victim.
DbError(w) ==
    /\ pc[w] = "begin" \/ InTx(w)
    /\ Failed(w)
    /\ UNCHANGED <<dbVars, workerRest, stock, late, acked, dlq, skipped, crashes>>

\* Mutant: the offset is committed although the DLQ refused the event.
SendToDLQUnchecked(w) ==
    /\ pc[w] = "giveup"
    /\ dlq' = dlq \cup {ev[w]} \/ UNCHANGED dlq
    /\ Goto(w, "ack")
    /\ UNCHANGED <<skipped, ev, attempt, dbVars, workerRest, stock, late, acked, txVars, crashes>>

\* handleFailure: only an event the DLQ accepted has its offset committed; the
\* loop goes on to the next message either way.
SendToDLQ(w) ==
    /\ pc[w] = "giveup"
    /\ \/ /\ dlq' = dlq \cup {ev[w]}
          /\ Goto(w, "ack")
          /\ UNCHANGED <<skipped, ev, attempt>>
       \/ /\ skipped' = skipped \cup {ev[w]}
          /\ Goto(w, "idle")
          /\ ev' = [ev EXCEPT ![w] = NoEvent]
          /\ attempt' = [attempt EXCEPT ![w] = 0]
          /\ UNCHANGED dlq
    /\ UNCHANGED <<dbVars, workerRest, stock, late, acked, txVars, crashes>>

\* The offset is committed; a failed offset commit is only logged.
Ack(w) ==
    /\ pc[w] = "ack"
    /\ acked' = acked \cup {ev[w]}
    /\ Goto(w, "idle")
    /\ ev' = [ev EXCEPT ![w] = NoEvent]
    /\ attempt' = [attempt EXCEPT ![w] = 0]
    /\ UNCHANGED <<dbVars, workerRest, stock, late, dlq, skipped, txVars, crashes>>

\* The replica dies, or a rebalance takes its partition: Postgres rolls its
\* transaction back, and a release it had sent may still be served. The broker
\* delivers again what was not committed, except what a later offset of the
\* partition has passed and, in a partition without a committed offset, whatever
\* is there by now (StartOffset: kafka.LastOffset); see EventBus.
\* A failed offset commit is this step too, taken from "ack".
WorkerCrash(w) ==
    /\ crashes < MaxCrashes
    /\ crashes' = crashes + 1
    /\ \/ /\ pc[w] = "release"
          /\ late' = late \cup {[op |-> "release", order |-> ev[w].order]}
       \/ UNCHANGED late
    /\ Goto(w, "idle")
    /\ ev' = [ev EXCEPT ![w] = NoEvent]
    /\ attempt' = [attempt EXCEPT ![w] = 0]
    /\ EndTx(w)
    /\ skipped' \in SUBSET (published \ acked)
    /\ UNCHANGED <<dbVars, workerRest, stock, acked, dlq>>

----------------------------------------------------------------------------
\* Specification

Init ==
    /\ order = [o \in Orders |-> "absent"]
    /\ version = [o \in Orders |-> 0]
    /\ saga = [o \in Orders |-> "none"]
    /\ outbox = [o \in Orders |-> [t \in OrderEventType |-> 0]]
    /\ processed = {}
    /\ creator = [o \in Orders |-> "new"]
    /\ stock = [o \in Orders |-> "none"]
    /\ late = {}
    /\ published = {} /\ acked = {} /\ dlq = {} /\ skipped = {}
    /\ pc = [w \in Workers |-> "idle"]
    /\ ev = [w \in Workers |-> NoEvent]
    /\ attempt = [w \in Workers |-> 0]
    /\ snap = [w \in Workers |-> [status |-> "absent", version |-> 0]]
    /\ txOrder = [w \in Workers |-> "absent"]
    /\ txSaga = [w \in Workers |-> "none"]
    /\ orderLock = [o \in Orders |-> Nobody]
    /\ sagaLock = [o \in Orders |-> Nobody]
    /\ crashes = 0

Create(o) ==
    \/ ReserveOK(o) \/ ReserveRejected(o) \/ ReserveLost(o)
    \/ Save(o) \/ SaveFails(o) \/ AbortRelease(o)
    \/ MarkPendingPayment(o) \/ MarkPendingPaymentFails(o)
    \/ CreatorCrash(o)

\* The statements of handle and of the subscriber loop around it.
Handle(w) ==
    \/ Ignore(w) \/ MarkProcessed(w) \/ ReadOrder(w)
    \/ TransitionPaid(w) \/ markCompensating(w)
    \/ ReleaseOK(w) \/ ReleaseFails(w)
    \/ applyTransition(w) \/ FinishSaga(w) \/ Commit(w)
    \/ SendToDLQ(w) \/ Ack(w)

Inventory(o) == InventoryOnConfirmed(o) \/ InventoryOnCancelled(o)

Next ==
    \/ \E o \in Orders : Create(o) \/ Inventory(o)
    \/ \E r \in InventoryRequest : ServeLate(r)
    \/ \E e \in Event : PublishPaymentEvent(e) \/ \E w \in Workers : Fetch(w, e)
    \/ \E w \in Workers :
          Handle(w) \/ CommitUnknown(w) \/ DbError(w) \/ WorkerCrash(w)

Spec == Init /\ [][Next]_vars

\* A running consumer keeps executing its handler, and the broker keeps handing
\* out uncommitted messages, in whatever order. Nothing is assumed of customers, of
\* the payment service, of late requests, or that any call succeeds.
Fairness ==
    /\ \A w \in Workers : WF_vars(Handle(w))
    /\ WF_vars(\E e \in published, w \in Workers : Fetch(w, e))

FairSpec == Spec /\ Fairness

----------------------------------------------------------------------------
\* Properties

WorkerLocations == {"idle", "begin", "read", "paid", "compensating", "release",
                    "update", "finish", "commit", "giveup", "ack"}

DbType ==
    /\ order \in [Orders -> OrderStatus]
    /\ version \in [Orders -> Nat]
    /\ saga \in [Orders -> SagaState]
    /\ outbox \in [Orders -> [OrderEventType -> Nat]]
    /\ processed \subseteq EventIds

RequestType ==
    /\ creator \in [Orders -> {"new", "reserved", "saved", "aborting", "rejected",
                               "aborted", "accepted", "failed", "crashed"}]
    /\ stock \in [Orders -> {"none", "reserved", "released", "committed"}]
    /\ late \subseteq InventoryRequest

BrokerType ==
    /\ published \subseteq Event
    /\ acked \subseteq published /\ dlq \subseteq published /\ skipped \subseteq published

WorkerType ==
    /\ pc \in [Workers -> WorkerLocations]
    /\ ev \in [Workers -> Event \cup {NoEvent}]
    /\ \A w \in Workers : pc[w] # "idle" => ev[w] \in published
    /\ attempt \in [Workers -> 0..MaxRetries]
    /\ crashes \in 0..MaxCrashes

TxType ==
    /\ snap \in [Workers -> [status : OrderStatus, version : Nat]]
    /\ txOrder \in [Workers -> OrderStatus]
    /\ txSaga \in [Workers -> SagaState]
    /\ orderLock \in [Orders -> Workers \cup {Nobody}]
    /\ sagaLock \in [Orders -> Workers \cup {Nobody}]

TypeOK == DbType /\ RequestType /\ BrokerType /\ WorkerType /\ TxType

\* The stock of a confirmed order is never given back, not by a payment.failed handled
\* next to payment.processed nor by a release the client gave up on; and a compensated
\* saga has given its stock back, whatever was retried or crashed after its checkpoint.
StockFollowsDecision ==
    \A o \in Orders :
        /\ order[o] = "confirmed" => stock[o] \in {"reserved", "committed"}
        /\ saga[o] = "compensated" => stock[o] = "released"

\* The committed saga row and the committed order row never contradict each other,
\* although a failing payment writes them in two transactions, and the outcome is
\* announced exactly when the order is decided, once, and never both ways, for any
\* redelivery, republication or lost commit answer.
OneOutcome ==
    \A o \in Orders :
        /\ order[o] = "confirmed" <=> saga[o] = "completed"
        /\ order[o] = "payment_failed" <=> saga[o] = "compensated"
        /\ order[o] = "pending_payment" <=> saga[o] \in {"awaiting_payment", "compensating"}
        /\ outbox[o]["order.confirmed"] = (IF order[o] = "confirmed" THEN 1 ELSE 0)
        /\ outbox[o]["order.cancelled"] = (IF order[o] = "payment_failed" THEN 1 ELSE 0)

\* ConfirmPayment locks saga then order, FailPayment order then saga; still no
\* two workers ever wait for each other's row.
NoLockCycle ==
    ~ \E v, w \in Workers, o \in Orders :
        /\ v # w
        /\ sagaLock[o] = v /\ pc[v] = "update" /\ ev[v].order = o
        /\ orderLock[o] = w /\ pc[w] = "finish" /\ ev[w].order = o

\* An offset is committed only for an event that took effect or sits in the DLQ, or
\* that no order hangs on: it is of a type the consumer ignores, or the consumer
\* cannot tell its order and drops it, which is the one way a result of a payment
\* gets lost behind a committed offset.
AckedIsHandled ==
    \A e \in acked : e.id \in processed \/ e \in dlq \/ e.type \in Unhandled

\* A decided order and its saga never change again, and a saga that started to
\* compensate never turns back to a payment.
DecisionsAreFinal ==
    [][\A o \in Orders :
         /\ order[o] \in {"confirmed", "payment_failed"} =>
               order'[o] = order[o] /\ saga'[o] = saga[o]
         /\ saga[o] = "compensating" => saga'[o] \in {"compensating", "compensated"}]_vars

\* Every payment event is eventually dealt with: its offset is committed or it
\* was left behind because the DLQ refused it. No worker waits forever, so whatever
\* is in hand the consumers come to a point where nothing published waits for them.
EveryEventSettles ==
    []<>(\A e \in published : e.id \in {f.id : f \in acked \cup skipped})

\* An order whose payment result was published with its order id is eventually
\* decided, unless an event of it was given up.
ResultDecidesOrder ==
    \A o \in Orders :
        (\E e \in published : e.order = o /\ e.type \notin Unhandled)
            ~> \/ order[o] \in {"confirmed", "payment_failed"}
               \/ \E e \in dlq \cup skipped : e.order = o

\* The saga implements the order contract: see OrderContract.
Contract ==
    INSTANCE OrderContract WITH
        status <- order,
        reservation <- stock,
        announced <- [o \in Orders |-> [t \in {"order.confirmed", "order.cancelled"} |-> outbox[o][t]]]

ImplementsContract == Contract!Spec

\* Of the inventory the saga sees what Reservation promises, which is what Inventory
\* implements.
InventorySeen == INSTANCE Reservation

KeepsToReservation == InventorySeen!Spec
=============================================================================
