-------------------------- MODULE OrderSagaProofs --------------------------
(***************************************************************************)
(* The safety properties of OrderSaga for every set of orders, workers    *)
(* and event ids and every retry and crash bound.                          *)
(*                                                                         *)
(* The properties speak of committed rows; what keeps them true is what   *)
(* the open transactions know about those rows: a worker past the saga    *)
(* transition to paid holds the saga lock on a row still awaiting         *)
(* payment, a worker past the compensating checkpoint acts on a saga that *)
(* can only go on to compensated, and a version read as 2 is the version  *)
(* of a pending_payment order. IInv adds these facts. From it follow, too, *)
(* that OrderSaga implements OrderContract, and that it takes from the     *)
(* inventory service no more than Reservation promises.                    *)
(***************************************************************************)
EXTENDS OrderSaga, TLAPS

\* The rows of one order belong together.
RowsOf(o) ==
    /\ order[o] # "cancelled"
    /\ order[o] \in {"absent", "pending"} =>
          /\ saga[o] = "none"
          /\ outbox[o]["order.ready_for_payment"] = 0
          /\ outbox[o]["order.confirmed"] = 0
          /\ outbox[o]["order.cancelled"] = 0
    /\ order[o] = "pending" => version[o] = 1
    /\ order[o] = "absent" => version[o] = 0
    /\ order[o] = "pending_payment" =>
          /\ saga[o] \in {"awaiting_payment", "compensating"}
          /\ version[o] = 2
          /\ outbox[o]["order.confirmed"] = 0
          /\ outbox[o]["order.cancelled"] = 0
    /\ order[o] = "confirmed" =>
          /\ saga[o] = "completed"
          /\ version[o] = 3
          /\ outbox[o]["order.confirmed"] = 1
          /\ outbox[o]["order.cancelled"] = 0
    /\ order[o] = "payment_failed" =>
          /\ saga[o] = "compensated"
          /\ version[o] = 3
          /\ outbox[o]["order.confirmed"] = 0
          /\ outbox[o]["order.cancelled"] = 1

\* How far the creating request got bounds what can exist for the order.
CreatorOf(o) ==
    /\ creator[o] = "new" => order[o] = "absent" /\ stock[o] = "none"
    /\ creator[o] = "reserved" => order[o] = "absent" /\ stock[o] = "reserved"
    /\ creator[o] = "saved" => order[o] = "pending" /\ stock[o] = "reserved"
    /\ creator[o] = "rejected" => order[o] = "absent"
    /\ creator[o] \in {"aborting", "aborted", "crashed"} =>
          order[o] \in {"absent", "pending"}

\* The reservation follows the saga.
StockOf(o) ==
    /\ saga[o] = "awaiting_payment" => stock[o] = "reserved"
    /\ saga[o] = "compensating" => stock[o] \in {"reserved", "released"}
    /\ saga[o] = "completed" => stock[o] \in {"reserved", "committed"}
    /\ saga[o] = "compensated" => stock[o] = "released"
    /\ stock[o] = "committed" => order[o] = "confirmed"

OrdersInv == \A o \in Orders : RowsOf(o) /\ CreatorOf(o) /\ StockOf(o)

\* A request nobody waits for was sent by a handler that gave up.
LateInv ==
    \A r \in late :
        /\ r.op = "reserve" => creator[r.order] = "rejected"
        /\ r.op = "release" =>
              \/ creator[r.order] = "aborted"
              \/ saga[r.order] \in {"compensating", "compensated"}

\* What worker w knows about its order between two of its statements.
WorkerInv(w) ==
    LET o == ev[w].order
        confirming == ev[w].type = "payment.processed"
    IN
    /\ InTx(w) => ev[w].type \in {"payment.processed", "payment.failed"}
    /\ pc[w] = "paid" => confirming
    /\ pc[w] \in {"compensating", "release"} => ~confirming
    /\ pc[w] \in {"paid", "compensating", "release", "update"} =>
          \/ snap[w] = [status |-> "pending", version |-> 1]
          \/ snap[w] = [status |-> "pending_payment", version |-> 2]
    /\ pc[w] \notin {"update", "finish", "commit"} => txSaga[w] = "none"
    /\ pc[w] \notin {"finish", "commit"} => txOrder[w] = "absent"
    /\ pc[w] = "release" => saga[o] \in {"compensating", "compensated"}
    /\ pc[w] = "update" =>
          IF confirming
          THEN txSaga[w] = "paid" /\ sagaLock[o] = w /\ saga[o] = "awaiting_payment"
          ELSE /\ txSaga[w] = "none"
               /\ saga[o] \in {"compensating", "compensated"}
               /\ stock[o] = "released"
    /\ pc[w] = "finish" =>
          /\ orderLock[o] = w /\ order[o] = "pending_payment"
          /\ IF confirming
             THEN /\ txOrder[w] = "confirmed" /\ txSaga[w] = "paid"
                  /\ sagaLock[o] = w /\ saga[o] = "awaiting_payment"
             ELSE /\ txOrder[w] = "payment_failed" /\ txSaga[w] = "none"
                  /\ saga[o] = "compensating" /\ stock[o] = "released"
    /\ pc[w] = "commit" =>
          \/ txOrder[w] = "absent" /\ txSaga[w] = "none"
          \/ /\ orderLock[o] = w /\ sagaLock[o] = w /\ order[o] = "pending_payment"
             /\ IF confirming
                THEN /\ txOrder[w] = "confirmed" /\ txSaga[w] = "completed"
                     /\ saga[o] = "awaiting_payment"
                ELSE /\ txOrder[w] = "payment_failed" /\ txSaga[w] = "compensated"
                     /\ saga[o] = "compensating" /\ stock[o] = "released"
    /\ pc[w] = "ack" =>
          ev[w].id \in processed \/ ev[w] \in dlq \/ ev[w].type \in Unhandled

\* Only a transaction that needs it holds a row lock.
LockInv ==
    \A o \in Orders, w \in Workers :
        /\ orderLock[o] = w => pc[w] \in {"finish", "commit"} /\ ev[w].order = o
        /\ sagaLock[o] = w => pc[w] \in {"update", "finish", "commit"} /\ ev[w].order = o
        /\ sagaLock[o] = w /\ pc[w] = "update" => ev[w].type = "payment.processed"

IInv ==
    /\ TypeOK
    /\ OrdersInv
    /\ LateInv
    /\ \A w \in Workers : WorkerInv(w)
    /\ LockInv
    /\ AckedIsHandled

----------------------------------------------------------------------------
\* Abbreviations for tuples of variables are always expanded.
USE DEF dbVars, brokerVars, txVars, workerVars, creatorRest, workerRest, vars

\* A transaction that ends leaves well-typed bookkeeping.
LEMMA EndTxType ==
    ASSUME TypeOK, NEW w \in Workers, EndTx(w)
    PROVE  TxType'
BY DEF EndTx, TypeOK, TxType, OrderStatus, SagaState

\* So does a handler that fails, whichever way the retry loop then goes.
LEMMA FailedType ==
    ASSUME TypeOK, NEW w \in Workers, Failed(w), pc[w] # "idle",
           UNCHANGED <<published, crashes>>
    PROVE  WorkerType' /\ TxType'
<1>1. TxType' BY EndTxType DEF Failed
<1>2. CASE attempt[w] < MaxRetries
  <2>1. attempt[w] + 1 \in 0..MaxRetries
    BY <1>2, RetriesAssumption DEF TypeOK, WorkerType
  <2>2. WorkerType'
    BY <1>2, <2>1 DEF Failed, Goto, TypeOK, WorkerType, WorkerLocations
  <2> QED BY <1>1, <2>2
<1>3. CASE ~(attempt[w] < MaxRetries)
  BY <1>1, <1>3 DEF Failed, Goto, TypeOK, WorkerType, WorkerLocations
<1> QED BY <1>2, <1>3

\* One more outbox row.
LEMMA OutboxType ==
    ASSUME DbType, NEW o \in Orders, NEW t \in OrderEventType,
           outbox' = [outbox EXCEPT ![o][t] = @ + 1]
    PROVE  /\ outbox' \in [Orders -> [OrderEventType -> Nat]]
           /\ \A p \in Orders \ {o} : outbox'[p] = outbox[p]
           /\ \A u \in OrderEventType :
                 outbox'[o][u] = IF u = t THEN outbox[o][u] + 1 ELSE outbox[o][u]
<1>1. outbox[o] \in [OrderEventType -> Nat] BY DEF DbType
<1>2. [outbox[o] EXCEPT ![t] = @ + 1] \in [OrderEventType -> Nat]
  BY <1>1
<1>3. outbox' = [outbox EXCEPT ![o] = [outbox[o] EXCEPT ![t] = @ + 1]]
  OBVIOUS
<1> QED BY <1>1, <1>2, <1>3 DEF DbType

\* The transactions of the create-order handler.
LEMMA CreateTxType ==
    ASSUME TypeOK, NEW o \in Orders,
           \/ SaveTx(o) /\ UNCHANGED <<saga, processed>>
           \/ MarkPendingPaymentTx(o) /\ UNCHANGED processed
    PROVE  DbType'
<1>1. CASE SaveTx(o) /\ UNCHANGED <<saga, processed>>
  <2>1. outbox' \in [Orders -> [OrderEventType -> Nat]]
    BY <1>1, OutboxType, "order.created" \in OrderEventType DEF SaveTx, TypeOK, OrderEventType
  <2> QED BY <1>1, <2>1 DEF SaveTx, TypeOK, DbType, OrderStatus
<1>2. CASE MarkPendingPaymentTx(o) /\ UNCHANGED processed
  <2>1. outbox' \in [Orders -> [OrderEventType -> Nat]]
    BY <1>2, OutboxType, "order.ready_for_payment" \in OrderEventType
    DEF MarkPendingPaymentTx, TypeOK, OrderEventType
  <2> QED BY <1>2, <2>1 DEF MarkPendingPaymentTx, TypeOK, DbType, OrderStatus, SagaState
<1> QED BY <1>1, <1>2

\* The transaction of a worker.
LEMMA CommitTxType ==
    ASSUME TypeOK, NEW w \in Workers, pc[w] # "idle", CommitTx(w)
    PROVE  DbType'
<1>1. ev[w] \in Event /\ ev[w].order \in Orders /\ ev[w].id \in EventIds
  BY DEF TypeOK, WorkerType, BrokerType, Event
<1>2. outbox' \in [Orders -> [OrderEventType -> Nat]]
  <2>1. CASE txOrder[w] = "absent"
    BY <2>1 DEF CommitTx, TypeOK, DbType
  <2>2. CASE txOrder[w] # "absent"
    <3>1. OutcomeEvent(txOrder[w]) \in OrderEventType
      BY DEF OutcomeEvent, OrderEventType
    <3>2. outbox' = [outbox EXCEPT ![ev[w].order][OutcomeEvent(txOrder[w])] = @ + 1]
      BY <2>2 DEF CommitTx
    <3> QED BY <1>1, <3>1, <3>2, OutboxType DEF TypeOK
  <2> QED BY <2>1, <2>2
<1>3. order' \in [Orders -> OrderStatus] /\ version' \in [Orders -> Nat]
  <2>1. CASE txOrder[w] = "absent"
    BY <2>1 DEF CommitTx, TypeOK, DbType
  <2>2. CASE txOrder[w] # "absent"
    <3>1. /\ order' = [order EXCEPT ![ev[w].order] = txOrder[w]]
          /\ version' = [version EXCEPT ![ev[w].order] = @ + 1]
      BY <2>2 DEF CommitTx
    <3> QED BY <1>1, <3>1 DEF TypeOK, DbType, TxType
  <2> QED BY <2>1, <2>2
<1>4. saga' \in [Orders -> SagaState] /\ processed' \subseteq EventIds
  BY <1>1 DEF CommitTx, TypeOK, DbType, TxType
<1> QED BY <1>2, <1>3, <1>4 DEF DbType

\* TypeOK is inductive: every step of the order service, of its clients and of
\* its surroundings leaves rows, requests, messages and locks well typed.
THEOREM TypeCorrect == Spec => []TypeOK
<1>1. Init => TypeOK
  <2> SUFFICES ASSUME Init PROVE TypeOK OBVIOUS
  <2>1. DbType BY DEF Init, DbType, OrderStatus, SagaState
  <2>2. RequestType /\ BrokerType BY DEF Init, RequestType, BrokerType
  <2>3. WorkerType
    BY RetriesAssumption, CrashesAssumption DEF Init, WorkerType, WorkerLocations
  <2>4. TxType BY DEF Init, TxType, OrderStatus, SagaState
  <2> QED BY <2>1, <2>2, <2>3, <2>4 DEF TypeOK
<1>2. TypeOK /\ [Next]_vars => TypeOK'
  <2> SUFFICES ASSUME TypeOK, [Next]_vars PROVE TypeOK'
    OBVIOUS
  <2> USE DEF TypeOK, DbType, RequestType, BrokerType, WorkerType, TxType
  <2>1. ASSUME NEW o \in Orders, ReserveOK(o) PROVE TypeOK'
    BY <2>1 DEF ReserveOK, Reserved
  <2>2. ASSUME NEW o \in Orders, ReserveRejected(o) PROVE TypeOK'
    BY <2>2 DEF ReserveRejected
  <2>3. ASSUME NEW o \in Orders, ReserveLost(o) PROVE TypeOK'
    BY <2>3 DEF ReserveLost, InventoryRequest
  <2>4. ASSUME NEW o \in Orders, Save(o) \/ SaveFails(o) PROVE TypeOK'
    <3>1. DbType'
      BY <2>4, CreateTxType DEF Save, SaveFails
    <3> QED BY <2>4, <3>1 DEF Save, SaveFails
  <2>5. ASSUME NEW o \in Orders, AbortRelease(o) PROVE TypeOK'
    <3>1. late' \subseteq InventoryRequest
      BY <2>5 DEF AbortRelease, InventoryRequest
    <3>2. stock' \in [Orders -> {"none", "reserved", "released", "committed"}]
      BY <2>5 DEF AbortRelease, Released
    <3> QED BY <2>5, <3>1, <3>2 DEF AbortRelease
  <2>6. ASSUME NEW o \in Orders, MarkPendingPayment(o) \/ MarkPendingPaymentFails(o)
        PROVE  TypeOK'
    <3>1. DbType'
      BY <2>6, CreateTxType DEF MarkPendingPayment, MarkPendingPaymentFails
    <3> QED BY <2>6, <3>1 DEF MarkPendingPayment, MarkPendingPaymentFails
  <2>7. ASSUME NEW o \in Orders, CreatorCrash(o) PROVE TypeOK'
    BY <2>7 DEF CreatorCrash
  <2>8. ASSUME NEW o \in Orders, Inventory(o) PROVE TypeOK'
    BY <2>8 DEF Inventory, InventoryOnConfirmed, InventoryOnCancelled, Committed, Released
  <2>9. ASSUME NEW r \in InventoryRequest, ServeLate(r) PROVE TypeOK'
    BY <2>9 DEF ServeLate, Reserved, Released, InventoryRequest
  <2>10. ASSUME NEW e \in Event, PublishPaymentEvent(e) PROVE TypeOK'
    BY <2>10 DEF PublishPaymentEvent
  <2>11. ASSUME NEW e \in Event, NEW w \in Workers, Fetch(w, e) PROVE TypeOK'
    BY <2>11, RetriesAssumption DEF Fetch, Goto, WorkerLocations
  <2>12. ASSUME NEW w \in Workers, Ignore(w) \/ MarkProcessed(w) PROVE TypeOK'
    BY <2>12 DEF Ignore, MarkProcessed, Goto, WorkerLocations
  <2>13. ASSUME NEW w \in Workers, ReadOrder(w) PROVE TypeOK'
    <3>1. ev[w].order \in Orders BY <2>13 DEF ReadOrder, Event
    <3>2. CASE Failed(w)
      <4>1. WorkerType' /\ TxType' BY <2>13, <3>2, FailedType DEF ReadOrder
      <4> QED BY <2>13, <4>1 DEF ReadOrder
    <3>3. CASE order[ev[w].order] # "absent"
      <4>1. /\ snap' = [snap EXCEPT ![w] = [status |-> order[ev[w].order],
                                            version |-> version[ev[w].order]]]
            /\ \E l \in {"commit", "paid", "compensating"} : pc' = [pc EXCEPT ![w] = l]
            /\ UNCHANGED <<dbVars, workerRest, stock, late, acked, dlq, skipped,
                           ev, attempt, txOrder, txSaga, orderLock, sagaLock, crashes>>
        BY <2>13, <3>3 DEF ReadOrder, Goto
      <4>2. WorkerType'
        <5>1. pc' \in [Workers -> WorkerLocations] BY <4>1 DEF WorkerLocations
        <5>2. \A v \in Workers : pc'[v] # "idle" => pc[v] # "idle"
          BY <2>13, <4>1 DEF ReadOrder
        <5> QED BY <4>1, <5>1, <5>2
      <4>3. snap'[w] \in [status : OrderStatus, version : Nat]
        BY <3>1, <4>1
      <4>4. TxType' BY <4>1, <4>3
      <4> QED BY <4>1, <4>2, <4>4
    <3> QED BY <2>13, <3>2, <3>3 DEF ReadOrder
  <2>14. ASSUME NEW w \in Workers, TransitionPaid(w) PROVE TypeOK'
    <3>1. ev[w].order \in Orders BY <2>14 DEF TransitionPaid, Event
    <3>2. CASE CanTransition(saga[ev[w].order], "paid")
      <4>1. WorkerType' BY <2>14, <3>2 DEF TransitionPaid, Goto, WorkerLocations
      <4>2. /\ sagaLock' = [sagaLock EXCEPT ![ev[w].order] = w]
            /\ txSaga' = [txSaga EXCEPT ![w] = "paid"]
            /\ UNCHANGED <<snap, txOrder, orderLock, dbVars>>
        BY <2>14, <3>2 DEF TransitionPaid
      <4>3. TxType' /\ DbType' BY <3>1, <4>2 DEF SagaState
      <4> QED BY <2>14, <4>1, <4>3 DEF TransitionPaid
    <3>3. CASE ~(CanTransition(saga[ev[w].order], "paid"))
      <4>1. Failed(w) BY <2>14, <3>3 DEF TransitionPaid
      <4> QED BY <2>14, <3>3, <4>1, FailedType DEF TransitionPaid
    <3> QED BY <3>2, <3>3
  <2>15. ASSUME NEW w \in Workers, markCompensating(w) PROVE TypeOK'
    <3>1. ev[w].order \in Orders BY <2>15 DEF markCompensating, Event
    <3>2. CASE CanTransition(saga[ev[w].order], "compensating")
      <4>1. WorkerType' BY <2>15, <3>2 DEF markCompensating, Goto, WorkerLocations
      <4>2. /\ saga' = [saga EXCEPT ![ev[w].order] = "compensating"]
            /\ UNCHANGED <<order, version, outbox, processed, txVars>>
        BY <2>15, <3>2 DEF markCompensating
      <4>3. TxType' /\ DbType' BY <3>1, <4>2 DEF SagaState
      <4> QED BY <2>15, <4>1, <4>3 DEF markCompensating
    <3>3. CASE ~(CanTransition(saga[ev[w].order], "compensating"))
      <4>1. Failed(w) BY <2>15, <3>3 DEF markCompensating
      <4> QED BY <2>15, <3>3, <4>1, FailedType DEF markCompensating
    <3> QED BY <3>2, <3>3
  <2>16. ASSUME NEW w \in Workers, ReleaseOK(w) PROVE TypeOK'
    BY <2>16 DEF ReleaseOK, Released, Goto, WorkerLocations
  <2>17. ASSUME NEW w \in Workers, ReleaseFails(w) PROVE TypeOK'
    <3>1. ev[w].order \in Orders BY <2>17 DEF ReleaseFails, Event
    <3>2. WorkerType' /\ TxType' BY <2>17, FailedType DEF ReleaseFails
    <3> QED BY <2>17, <3>1, <3>2 DEF ReleaseFails, InventoryRequest
  <2>18. ASSUME NEW w \in Workers, applyTransition(w) PROVE TypeOK'
    <3>1. ev[w].order \in Orders BY <2>18 DEF applyTransition, Event
    <3>2. CASE snap[w].status = "pending_payment" /\ version[ev[w].order] = snap[w].version
      <4>1. WorkerType' BY <2>18, <3>2 DEF applyTransition, Goto, WorkerLocations
      <4>2. TxType' /\ DbType' BY <2>18, <3>1, <3>2, ZenonT(60) DEF applyTransition, OrderStatus
      <4> QED BY <2>18, <4>1, <4>2 DEF applyTransition
    <3>3. CASE ~(snap[w].status = "pending_payment" /\ version[ev[w].order] = snap[w].version)
      <4>1. Failed(w) BY <2>18, <3>3 DEF applyTransition
      <4> QED BY <2>18, <3>3, <4>1, FailedType DEF applyTransition
    <3> QED BY <3>2, <3>3
  <2>19. ASSUME NEW w \in Workers, FinishSaga(w) PROVE TypeOK'
    <3>1. ev[w].order \in Orders BY <2>19 DEF FinishSaga, Event
    <3>2. CASE CanTransition(SagaSeenBy(w, ev[w].order),
                          IF ev[w].type = "payment.processed" THEN "completed" ELSE "compensated")
      <4>1. WorkerType' BY <2>19, <3>2, SMTT(60) DEF FinishSaga, Goto, WorkerLocations
      <4>2. /\ sagaLock' = [sagaLock EXCEPT ![ev[w].order] = w]
            /\ txSaga' = [txSaga EXCEPT ![w] =
                  IF ev[w].type = "payment.processed" THEN "completed" ELSE "compensated"]
            /\ UNCHANGED <<snap, txOrder, orderLock, dbVars>>
        BY <2>19, <3>2 DEF FinishSaga
      <4>3. TxType' /\ DbType' BY <3>1, <4>2 DEF SagaState
      <4> QED BY <2>19, <4>1, <4>3 DEF FinishSaga
    <3>3. CASE ~(CanTransition(SagaSeenBy(w, ev[w].order),
                          IF ev[w].type = "payment.processed" THEN "completed" ELSE "compensated"))
      <4>1. Failed(w) BY <2>19, <3>3 DEF FinishSaga
      <4> QED BY <2>19, <3>3, <4>1, FailedType DEF FinishSaga
    <3> QED BY <3>2, <3>3
  <2>20. ASSUME NEW w \in Workers, Commit(w) PROVE TypeOK'
    <3>1. DbType' BY <2>20, CommitTxType DEF Commit
    <3>2. TxType' BY <2>20, EndTxType DEF Commit
    <3>3. WorkerType' BY <2>20 DEF Commit, Goto, WorkerLocations
    <3> QED BY <2>20, <3>1, <3>2, <3>3 DEF Commit
  <2>21. ASSUME NEW w \in Workers, CommitUnknown(w) PROVE TypeOK'
    <3>1. DbType' BY <2>21, CommitTxType DEF CommitUnknown
    <3>2. WorkerType' /\ TxType' BY <2>21, FailedType DEF CommitUnknown
    <3> QED BY <2>21, <3>1, <3>2 DEF CommitUnknown
  <2>22. ASSUME NEW w \in Workers, DbError(w) PROVE TypeOK'
    <3>1. WorkerType' /\ TxType' BY <2>22, FailedType DEF DbError, InTx
    <3> QED BY <2>22, <3>1 DEF DbError
  <2>23. ASSUME NEW w \in Workers, SendToDLQ(w) \/ Ack(w) PROVE TypeOK'
    <3>1. WorkerType'
      <4>1. 0 \in 0..MaxRetries BY RetriesAssumption
      <4>2. CASE Ack(w) BY <4>1, <4>2 DEF Ack, Goto, WorkerLocations
      <4>3. CASE SendToDLQ(w) BY <4>1, <4>3, ZenonT(60) DEF SendToDLQ, Goto, WorkerLocations
      <4> QED BY <2>23, <4>2, <4>3
    <3>2. BrokerType' BY <2>23 DEF SendToDLQ, Ack
    <3> QED BY <2>23, <3>1, <3>2 DEF SendToDLQ, Ack
  <2>24. ASSUME NEW w \in Workers, WorkerCrash(w) PROVE TypeOK'
    <3>1. TxType' BY <2>24, EndTxType DEF WorkerCrash
    <3>2. pc[w] = "release" => ev[w].order \in Orders BY DEF Event
    <3>3. WorkerType'
      BY <2>24, RetriesAssumption, CrashesAssumption DEF WorkerCrash, Goto, WorkerLocations
    <3>4. RequestType' /\ BrokerType' /\ DbType'
      BY <2>24, <3>2 DEF WorkerCrash, InventoryRequest
    <3> QED BY <3>1, <3>3, <3>4
  <2>25. CASE UNCHANGED vars
    BY <2>25
  <2> QED
    BY <2>1, <2>2, <2>3, <2>4, <2>5, <2>6, <2>7, <2>8, <2>9, <2>10, <2>11, <2>12,
       <2>13, <2>14, <2>15, <2>16, <2>17, <2>18, <2>19, <2>20, <2>21, <2>22,
       <2>23, <2>24, <2>25
    DEF Next, Create, Handle
<1> QED BY <1>1, <1>2, PTL DEF Spec

----------------------------------------------------------------------------
\* Worker w takes no part in the step, and the step leaves alone what w's open
\* transaction relies on: the rows it locked, a compensation that began, stock
\* that was given back.
Undisturbed(w) ==
    LET o == ev[w].order IN
    /\ pc'[w] = pc[w] /\ ev'[w] = ev[w] /\ snap'[w] = snap[w]
    /\ txOrder'[w] = txOrder[w] /\ txSaga'[w] = txSaga[w]
    /\ pc[w] # "idle" =>
          /\ sagaLock[o] = w => sagaLock'[o] = w /\ saga'[o] = saga[o]
          /\ orderLock[o] = w => orderLock'[o] = w /\ order'[o] = order[o]
          /\ saga[o] \in {"compensating", "compensated"} =>
                saga'[o] \in {"compensating", "compensated"}
          /\ stock[o] = "released" => stock'[o] = "released"
    /\ processed \subseteq processed' /\ dlq \subseteq dlq'

\* What such a worker knows stays true.
LEMMA UndisturbedInv ==
    ASSUME TypeOK, NEW w \in Workers, WorkerInv(w), Undisturbed(w), OrdersInv'
    PROVE  WorkerInv(w)'
<1> DEFINE o == ev[w].order
<1>1. CASE pc[w] = "idle"
  BY <1>1 DEF WorkerInv, Undisturbed, InTx
<1>2. CASE pc[w] \in {"begin", "read", "paid", "compensating", "giveup", "ack"}
  BY <1>2 DEF WorkerInv, Undisturbed, InTx
<1>3. CASE pc[w] \in {"release", "update"}
  BY <1>3 DEF WorkerInv, Undisturbed, InTx
<1>4. CASE pc[w] \in {"finish", "commit"}
  <2>1. o \in Orders
    BY <1>4 DEF TypeOK, WorkerType, BrokerType, Event
  <2>2. order'[o] = "pending_payment" => saga'[o] \in {"awaiting_payment", "compensating"}
    BY <2>1 DEF OrdersInv, RowsOf
  <2> QED BY <1>4, <2>2 DEF WorkerInv, Undisturbed, InTx
<1> QED BY <1>1, <1>2, <1>3, <1>4 DEF TypeOK, WorkerType, WorkerLocations

\* Rows, requests and reservations that do not change stay consistent.
LEMMA QuietRows ==
    ASSUME IInv, UNCHANGED <<order, version, saga, outbox, creator, stock>>
    PROVE  OrdersInv' /\ (UNCHANGED late => LateInv')
BY DEF IInv, OrdersInv, RowsOf, CreatorOf, StockOf, LateInv

\* A transaction that ends frees exactly its own locks.
LEMMA EndTxLocks ==
    ASSUME TypeOK, NEW u \in Workers, EndTx(u)
    PROVE  /\ txSaga'[u] = "none" /\ txOrder'[u] = "absent"
           /\ \A o \in Orders : orderLock'[o] # u /\ sagaLock'[o] # u
           /\ \A w \in Workers \ {u} :
                 /\ snap'[w] = snap[w] /\ txOrder'[w] = txOrder[w] /\ txSaga'[w] = txSaga[w]
                 /\ \A o \in Orders : /\ orderLock'[o] = w <=> orderLock[o] = w
                                      /\ sagaLock'[o] = w <=> sagaLock[o] = w
BY NobodyAssumption DEF EndTx, TypeOK, TxType

\* The worker whose transaction ended and whose handler starts over, stops or
\* goes idle knows nothing and holds nothing.
LEMMA EndTxInv ==
    ASSUME IInv, NEW u \in Workers, EndTx(u),
           pc'[u] \in {"idle", "begin", "giveup"},
           \A w \in Workers \ {u} : pc'[w] = pc[w] /\ ev'[w] = ev[w]
    PROVE  WorkerInv(u)' /\ LockInv'
<1>1. WorkerInv(u)'
  BY EndTxLocks DEF IInv, WorkerInv, InTx
<1>2. LockInv'
  BY EndTxLocks DEF IInv, LockInv
<1> QED BY <1>1, <1>2

\* A step that ends u's transaction and writes no row leaves the others alone.
LEMMA EndTxOthers ==
    ASSUME IInv, NEW u \in Workers, EndTx(u),
           \A w \in Workers \ {u} : pc'[w] = pc[w] /\ ev'[w] = ev[w],
           UNCHANGED <<order, saga, stock, processed>>, dlq \subseteq dlq', OrdersInv'
    PROVE  \A w \in Workers \ {u} : WorkerInv(w)'
<1> SUFFICES ASSUME NEW w \in Workers \ {u} PROVE WorkerInv(w)'
  OBVIOUS
<1>1. pc[w] # "idle" => ev[w].order \in Orders
  BY DEF IInv, TypeOK, WorkerType, BrokerType, Event
<1>2. Undisturbed(w)
  BY <1>1, EndTxLocks DEF IInv, Undisturbed
<1> QED BY <1>2, UndisturbedInv DEF IInv

\* A failed attempt rolls back and only moves its own worker.
LEMMA FailedPc ==
    ASSUME TypeOK, NEW u \in Workers, Failed(u)
    PROVE  /\ EndTx(u) /\ pc'[u] \in {"begin", "giveup"}
           /\ \A w \in Workers \ {u} : pc'[w] = pc[w] /\ ev'[w] = ev[w]
BY DEF Failed, Goto, TypeOK, WorkerType

----------------------------------------------------------------------------
\* A worker that handles an event of an order that is still being created got no
\* further than reading it, so a step that only touches such an order disturbs nobody.
LEMMA CreateOthers ==
    ASSUME IInv, NEW o \in Orders, order[o] \in {"absent", "pending"},
           UNCHANGED <<workerVars, txVars, processed, dlq>>,
           \A p \in Orders \ {o} :
              order'[p] = order[p] /\ saga'[p] = saga[p] /\ stock'[p] = stock[p],
           stock[o] = "released" => stock'[o] = "released",
           OrdersInv'
    PROVE  (\A w \in Workers : WorkerInv(w)') /\ LockInv'
<1>1. ASSUME NEW w \in Workers PROVE WorkerInv(w)'
  <2>1. pc[w] # "idle" => ev[w].order \in Orders
    BY DEF IInv, TypeOK, WorkerType, BrokerType, Event
  <2>2. saga[o] = "none" BY DEF IInv, OrdersInv, RowsOf
  <2>3. CASE pc[w] = "commit" /\ txOrder[w] = "absent" /\ txSaga[w] = "none"
    BY <2>3 DEF IInv, WorkerInv, InTx
  <2>4. CASE ~(pc[w] = "commit" /\ txOrder[w] = "absent" /\ txSaga[w] = "none")
    <3>1. pc[w] \in {"update", "finish", "commit"} =>
             saga[ev[w].order] \in {"awaiting_payment", "compensating", "compensated"}
      BY <2>4 DEF IInv, WorkerInv
    <3>2. orderLock[o] # w /\ sagaLock[o] # w
      BY <2>2, <3>1 DEF IInv, LockInv
    <3>3. Undisturbed(w)
      BY <2>1, <2>2, <3>2 DEF Undisturbed
    <3> QED BY <3>3, UndisturbedInv DEF IInv
  <2> QED BY <2>3, <2>4
<1>2. LockInv'
  BY DEF IInv, LockInv
<1> QED BY <1>1, <1>2

\* The steps of the request before and after its two transactions.
LEMMA RequestInv ==
    ASSUME IInv, TypeOK', NEW o \in Orders,
           \/ ReserveOK(o) \/ ReserveRejected(o) \/ ReserveLost(o)
           \/ AbortRelease(o) \/ CreatorCrash(o)
    PROVE  IInv'
<1> USE DEF ReserveOK, ReserveRejected, ReserveLost, AbortRelease, CreatorCrash
<1>1. order[o] \in {"absent", "pending"} /\ UNCHANGED <<dbVars, workerVars, txVars, brokerVars>>
  BY DEF IInv, OrdersInv, CreatorOf
<1>2. \A p \in Orders \ {o} : creator'[p] = creator[p] /\ stock'[p] = stock[p]
  BY DEF IInv, TypeOK, RequestType
<1>3. ASSUME NEW p \in Orders PROVE (RowsOf(p) /\ CreatorOf(p) /\ StockOf(p))'
  <2>1. CASE p # o
    BY <1>1, <1>2, <2>1 DEF IInv, OrdersInv, RowsOf, CreatorOf, StockOf
  <2>2. CASE p = o
    <3>1. RowsOf(o)' BY <1>1 DEF IInv, OrdersInv, RowsOf
    <3>2. saga[o] = "none" BY <1>1 DEF IInv, OrdersInv, RowsOf
    <3>3. CreatorOf(o)'
      BY <1>1 DEF IInv, OrdersInv, CreatorOf, TypeOK, RequestType, Reserved
    <3>4. stock'[o] # "committed"
      BY <1>1 DEF IInv, OrdersInv, StockOf, TypeOK, RequestType, Reserved, Released
    <3>5. StockOf(o)' BY <1>1, <3>2, <3>4 DEF StockOf
    <3> QED BY <2>2, <3>1, <3>3, <3>5
  <2> QED BY <2>1, <2>2
<1>4. OrdersInv' BY <1>3 DEF OrdersInv
<1>5. LateInv'
  <2> SUFFICES ASSUME NEW r \in late'
               PROVE  /\ r.op = "reserve" => creator'[r.order] = "rejected"
                      /\ r.op = "release" =>
                            \/ creator'[r.order] = "aborted"
                            \/ saga'[r.order] \in {"compensating", "compensated"}
    BY DEF LateInv
  <2>1. CASE r \in late
    <3>1. r.order \in Orders BY <2>1 DEF IInv, TypeOK, RequestType, InventoryRequest
    <3>2. CASE r.order # o BY <1>1, <1>2, <2>1, <3>1, <3>2 DEF IInv, LateInv
    <3>3. CASE r.order = o
      <4>1. saga[o] = "none" BY <1>1 DEF IInv, OrdersInv, RowsOf
      <4> QED BY <1>1, <2>1, <3>3, <4>1 DEF IInv, LateInv, TypeOK, RequestType, InventoryRequest
    <3> QED BY <3>2, <3>3
  <2>2. CASE r \notin late
    BY <1>1, <2>2 DEF IInv, TypeOK, RequestType
  <2> QED BY <2>1, <2>2
<1>6. AckedIsHandled'
  BY <1>1 DEF IInv, AckedIsHandled
<1>7. (\A w \in Workers : WorkerInv(w)') /\ LockInv'
  <2>1. stock[o] = "released" => stock'[o] = "released"
    BY DEF IInv, TypeOK, RequestType, Reserved, Released
  <2> QED BY <1>1, <1>2, <1>4, <2>1, CreateOthers
<1> QED BY <1>4, <1>5, <1>6, <1>7 DEF IInv

\* Save and MarkPendingPayment, whether their answer arrives or not.
LEMMA CreateInv ==
    ASSUME IInv, TypeOK', NEW o \in Orders,
           \/ Save(o) \/ SaveFails(o)
           \/ MarkPendingPayment(o) \/ MarkPendingPaymentFails(o)
    PROVE  IInv'
<1> USE DEF Save, SaveFails, MarkPendingPayment, MarkPendingPaymentFails
<1>1. /\ creator[o] \in {"reserved", "saved"} /\ order[o] \in {"absent", "pending"}
      /\ stock[o] = "reserved" /\ saga[o] = "none"
      /\ UNCHANGED <<stock, late, processed, workerVars, txVars, brokerVars>>
  BY DEF IInv, OrdersInv, CreatorOf, RowsOf
<1>2. \A p \in Orders \ {o} :
         /\ order'[p] = order[p] /\ version'[p] = version[p] /\ saga'[p] = saga[p]
         /\ creator'[p] = creator[p] /\ outbox'[p] = outbox[p]
  <2>1. \A p \in Orders \ {o} :
         /\ order'[p] = order[p] /\ version'[p] = version[p] /\ saga'[p] = saga[p]
         /\ creator'[p] = creator[p]
    BY DEF SaveTx, MarkPendingPaymentTx, IInv, TypeOK, DbType, RequestType
  <2>2. \A p \in Orders \ {o} : outbox'[p] = outbox[p]
    BY DEF SaveTx, MarkPendingPaymentTx, IInv, TypeOK, DbType
  <2> QED BY <2>1, <2>2
<1>3. (RowsOf(o) /\ CreatorOf(o) /\ StockOf(o))'
  <2>1. CASE creator[o] = "reserved" /\ SaveTx(o)
    <3>1. /\ order'[o] = "pending" /\ version'[o] = 1 /\ saga'[o] = "none"
          /\ creator'[o] \in {"saved", "aborting"} /\ stock'[o] = "reserved"
      BY <1>1, <2>1 DEF SaveTx, IInv, TypeOK, DbType, RequestType
    <3>2. \A t \in OrderEventType \ {"order.created"} : outbox'[o][t] = outbox[o][t]
      BY <2>1, OutboxType, "order.created" \in OrderEventType DEF SaveTx, IInv, TypeOK, OrderEventType
    <3>3. /\ outbox'[o]["order.ready_for_payment"] = 0
          /\ outbox'[o]["order.confirmed"] = 0 /\ outbox'[o]["order.cancelled"] = 0
      BY <1>1, <3>2 DEF IInv, OrdersInv, RowsOf, OrderEventType
    <3> QED BY <3>1, <3>3 DEF RowsOf, CreatorOf, StockOf
  <2>2. CASE creator[o] = "saved" /\ MarkPendingPaymentTx(o)
    <3>1. order[o] = "pending" /\ version[o] = 1
      BY <2>2 DEF MarkPendingPaymentTx, IInv, OrdersInv, RowsOf
    <3>2. /\ order'[o] = "pending_payment" /\ version'[o] = 2
          /\ saga'[o] = "awaiting_payment"
          /\ creator'[o] \in {"accepted", "failed"} /\ stock'[o] = "reserved"
      BY <1>1, <2>2, <3>1 DEF MarkPendingPaymentTx, IInv, TypeOK, DbType, RequestType
    <3>3. \A t \in OrderEventType \ {"order.ready_for_payment"} : outbox'[o][t] = outbox[o][t]
      BY <2>2, OutboxType, "order.ready_for_payment" \in OrderEventType
      DEF MarkPendingPaymentTx, IInv, TypeOK, OrderEventType
    <3>4. outbox'[o]["order.confirmed"] = 0 /\ outbox'[o]["order.cancelled"] = 0
      BY <1>1, <3>3 DEF IInv, OrdersInv, RowsOf, OrderEventType
    <3> QED BY <3>2, <3>4 DEF RowsOf, CreatorOf, StockOf
  <2>3. CASE UNCHANGED <<order, version, saga, outbox>>
    <3>1. ~Save(o) /\ ~MarkPendingPayment(o)
      BY <2>3 DEF SaveTx, MarkPendingPaymentTx, IInv, OrdersInv, CreatorOf, TypeOK, DbType
    <3>2. creator'[o] \in {"aborting", "failed"}
      BY <3>1 DEF IInv, TypeOK, RequestType
    <3> QED BY <1>1, <2>3, <3>2 DEF IInv, OrdersInv, RowsOf, CreatorOf, StockOf
  <2> QED BY <2>1, <2>2, <2>3
<1>4. OrdersInv'
  <2>1. ASSUME NEW p \in Orders, p # o PROVE (RowsOf(p) /\ CreatorOf(p) /\ StockOf(p))'
    BY <1>1, <1>2, <2>1 DEF IInv, OrdersInv, RowsOf, CreatorOf, StockOf
  <2> QED BY <1>3, <2>1 DEF OrdersInv
<1>5. LateInv'
  <2>1. \A r \in late : r.order \in Orders \ {o}
    BY <1>1 DEF IInv, LateInv, TypeOK, RequestType, InventoryRequest
  <2> QED BY <1>1, <1>2, <2>1 DEF IInv, LateInv
<1>7. AckedIsHandled' BY <1>1 DEF IInv, AckedIsHandled
<1>8. (\A w \in Workers : WorkerInv(w)') /\ LockInv'
  BY <1>1, <1>2, <1>4, CreateOthers
<1> QED BY <1>4, <1>5, <1>7, <1>8 DEF IInv

----------------------------------------------------------------------------
\* The inventory service acts on a late request or on an announced outcome.
LEMMA InventoryInv ==
    ASSUME IInv, TypeOK',
           \/ \E r \in InventoryRequest : ServeLate(r)
           \/ \E o \in Orders : Inventory(o)
    PROVE  IInv'
<1> USE DEF Inventory, InventoryOnConfirmed, InventoryOnCancelled, ServeLate
<1>1. UNCHANGED <<dbVars, creator, brokerVars, workerVars, txVars>> /\ late' \subseteq late
  OBVIOUS
<1>2. ASSUME NEW p \in Orders PROVE StockOf(p)' /\ CreatorOf(p)' /\ (stock[p] = "released" => stock'[p] = "released")
  <2>1. CASE \E r \in InventoryRequest : ServeLate(r)
    <3> PICK r \in InventoryRequest : ServeLate(r) BY <2>1
    <3>1. CASE r.order # p
      BY <1>1, <3>1 DEF IInv, OrdersInv, StockOf, CreatorOf, TypeOK, RequestType, InventoryRequest
    <3>2. CASE r.order = p /\ r.op = "reserve"
      <4>1. order[p] = "absent" /\ creator[p] = "rejected" /\ saga[p] = "none"
        BY <3>2 DEF IInv, LateInv, OrdersInv, CreatorOf, RowsOf
      <4> QED BY <1>1, <3>2, <4>1 DEF IInv, OrdersInv, StockOf, CreatorOf, TypeOK, RequestType, Reserved
    <3>3. CASE r.order = p /\ r.op = "release"
      <4>1. \/ creator[p] = "aborted" /\ order[p] \in {"absent", "pending"} /\ saga[p] = "none"
            \/ saga[p] \in {"compensating", "compensated"}
        BY <3>3 DEF IInv, LateInv, OrdersInv, CreatorOf, RowsOf
      <4>2. saga[p] \in {"compensating", "compensated"} =>
               creator[p] \notin {"new", "reserved", "saved"}
        BY DEF IInv, OrdersInv, CreatorOf, RowsOf
      <4> QED BY <1>1, <3>3, <4>1, <4>2 DEF IInv, OrdersInv, StockOf, CreatorOf, TypeOK, RequestType, Released
    <3> QED BY <3>1, <3>2, <3>3 DEF InventoryRequest
  <2>2. CASE \E o \in Orders : Inventory(o)
    <3> PICK o \in Orders : Inventory(o) BY <2>2
    <3>1. CASE o # p
      BY <1>1, <3>1 DEF IInv, OrdersInv, StockOf, CreatorOf, TypeOK, RequestType
    <3>2. CASE o = p /\ InventoryOnConfirmed(o)
      <4>1. order[p] = "confirmed" /\ saga[p] = "completed"
        BY <3>2 DEF IInv, OrdersInv, RowsOf, TypeOK, DbType, OrderStatus
      <4> QED BY <1>1, <3>2, <4>1 DEF IInv, OrdersInv, StockOf, CreatorOf, TypeOK, RequestType, Committed
    <3>3. CASE o = p /\ InventoryOnCancelled(o)
      <4>1. order[p] = "payment_failed" /\ saga[p] = "compensated" /\ stock[p] = "released"
        BY <3>3 DEF IInv, OrdersInv, RowsOf, StockOf, TypeOK, DbType, OrderStatus
      <4> QED BY <1>1, <3>3, <4>1 DEF IInv, OrdersInv, StockOf, CreatorOf, TypeOK, RequestType, Released
    <3> QED BY <3>1, <3>2, <3>3
  <2> QED BY <2>1, <2>2
<1>3. OrdersInv' BY <1>1, <1>2 DEF IInv, OrdersInv, RowsOf
<1>4. LateInv' /\ AckedIsHandled' /\ LockInv'
  BY <1>1 DEF IInv, LateInv, AckedIsHandled, LockInv
<1>5. ASSUME NEW w \in Workers PROVE WorkerInv(w)'
  <2>1. pc[w] # "idle" => ev[w].order \in Orders
    BY DEF IInv, TypeOK, WorkerType, BrokerType, Event
  <2>2. Undisturbed(w) BY <1>1, <1>2, <2>1 DEF Undisturbed
  <2> QED BY <1>3, <2>2, UndisturbedInv DEF IInv
<1> QED BY <1>3, <1>4, <1>5 DEF IInv

\* The payment service publishes a result, whatever became of the order.
LEMMA PublishInv ==
    ASSUME IInv, TypeOK', NEW e \in Event, PublishPaymentEvent(e)
    PROVE  IInv'
<1> USE DEF PublishPaymentEvent
<1>1. OrdersInv' /\ LateInv' BY QuietRows
<1>2. AckedIsHandled' /\ LockInv' BY DEF IInv, AckedIsHandled, LockInv
<1>3. \A w \in Workers : WorkerInv(w)'
  BY <1>1, UndisturbedInv DEF IInv, Undisturbed
<1> QED BY <1>1, <1>2, <1>3 DEF IInv

----------------------------------------------------------------------------
\* A step of worker u that writes no row, no reservation and no request, and
\* frees or takes at most free locks, leaves the other workers alone.
PrivateStep(u) ==
    /\ UNCHANGED <<dbVars, creator, stock, late, published>>
    /\ dlq \subseteq dlq'
    /\ \A w \in Workers \ {u} :
          /\ pc'[w] = pc[w] /\ ev'[w] = ev[w] /\ snap'[w] = snap[w]
          /\ txOrder'[w] = txOrder[w] /\ txSaga'[w] = txSaga[w]
          /\ \A o \in Orders : /\ orderLock'[o] = w <=> orderLock[o] = w
                               /\ sagaLock'[o] = w <=> sagaLock[o] = w

\* Such a step preserves the invariant once the stepping worker's own facts hold.
LEMMA PrivateInv ==
    ASSUME IInv, TypeOK', NEW u \in Workers, PrivateStep(u),
           WorkerInv(u)', AckedIsHandled',
           \A o \in Orders :
              /\ orderLock'[o] = u => pc'[u] \in {"finish", "commit"} /\ ev'[u].order = o
              /\ sagaLock'[o] = u => pc'[u] \in {"update", "finish", "commit"} /\ ev'[u].order = o
              /\ sagaLock'[o] = u /\ pc'[u] = "update" => ev'[u].type = "payment.processed"
    PROVE  IInv'
<1>1. OrdersInv' /\ LateInv' BY QuietRows DEF PrivateStep
<1>2. LockInv'
  BY DEF IInv, LockInv, PrivateStep
<1>3. ASSUME NEW w \in Workers \ {u} PROVE WorkerInv(w)'
  <2>1. pc[w] # "idle" => ev[w].order \in Orders
    BY DEF IInv, TypeOK, WorkerType, BrokerType, Event
  <2>2. Undisturbed(w) BY <2>1 DEF PrivateStep, Undisturbed
  <2> QED BY <1>1, <2>2, UndisturbedInv DEF IInv
<1> QED BY <1>1, <1>2, <1>3 DEF IInv

\* A step that rolls u's transaction back preserves the invariant, as long as the
\* inventory request it may leave behind is a legitimate one.
LEMMA RollbackInv ==
    ASSUME IInv, TypeOK', NEW u \in Workers, EndTx(u),
           pc'[u] \in {"idle", "begin", "giveup"},
           \A w \in Workers \ {u} : pc'[w] = pc[w] /\ ev'[w] = ev[w],
           UNCHANGED <<dbVars, creator, stock, published, acked, dlq>>,
           LateInv'
    PROVE  IInv'
<1>1. OrdersInv' BY QuietRows
<1>2. \A w \in Workers \ {u} : WorkerInv(w)' BY <1>1, EndTxOthers
<1>3. WorkerInv(u)' /\ LockInv' BY EndTxInv
<1>4. AckedIsHandled' BY DEF IInv, AckedIsHandled
<1> QED BY <1>1, <1>2, <1>3, <1>4 DEF IInv

\* In particular a handler attempt that fails without leaving a request behind.
LEMMA FailedInv ==
    ASSUME IInv, TypeOK', NEW u \in Workers, Failed(u),
           UNCHANGED <<dbVars, creator, stock, late, published, acked, dlq>>
    PROVE  IInv'
<1>1. LateInv' BY QuietRows
<1>2. TypeOK BY DEF IInv
<1> QED BY <1>1, <1>2, FailedPc, RollbackInv

\* A worker that is not idle handles a published event of a known order.
LEMMA EventOf ==
    ASSUME IInv, NEW u \in Workers, pc[u] # "idle"
    PROVE  ev[u] \in published /\ ev[u].order \in Orders /\ ev[u].type \in PaymentEventType
BY EmittedAssumption DEF IInv, TypeOK, WorkerType, BrokerType, Event

\* The steps around the transaction: fetching, ignoring, detecting a redelivery,
\* reading the order, handing over to the DLQ and committing the offset.
LEMMA LoopInv ==
    ASSUME IInv, TypeOK', NEW u \in Workers,
           \/ \E e \in Event : Fetch(u, e)
           \/ Ignore(u) \/ MarkProcessed(u) \/ SendToDLQ(u) \/ Ack(u)
           \/ (ReadOrder(u) /\ order[ev[u].order] # "absent")
    PROVE  IInv'
<1>1. PrivateStep(u)
  BY DEF PrivateStep, Fetch, Ignore, MarkProcessed, ReadOrder, SendToDLQ, Ack, Goto,
         IInv, TypeOK, WorkerType, TxType
<1>2. \A o \in Orders : orderLock'[o] # u /\ sagaLock'[o] # u
  BY DEF Fetch, Ignore, MarkProcessed, ReadOrder, SendToDLQ, Ack, IInv, LockInv
<1>3. txSaga[u] = "none" /\ txOrder[u] = "absent" /\ UNCHANGED <<txSaga, txOrder>>
  BY DEF Fetch, Ignore, MarkProcessed, ReadOrder, SendToDLQ, Ack, IInv, WorkerInv
<1>4. WorkerInv(u)'
  <2>1. CASE \E e \in Event : Fetch(u, e)
    <3>1. pc'[u] = "begin" BY <2>1 DEF Fetch, Goto, IInv, TypeOK, WorkerType
    <3> QED BY <1>3, <3>1 DEF WorkerInv, InTx
  <2>2. CASE Ignore(u)
    <3>1. pc'[u] = "ack" /\ ev'[u].type \in Unhandled
      BY <2>2 DEF Ignore, Goto, IInv, TypeOK, WorkerType
    <3> QED BY <1>3, <3>1 DEF WorkerInv, InTx
  <2>3. CASE MarkProcessed(u)
    <3>1. /\ ev'[u] = ev[u] /\ processed' = processed
          /\ ev[u].type \in {"payment.processed", "payment.failed"}
          /\ pc'[u] = IF ev[u].id \in processed THEN "ack" ELSE "read"
      BY <2>3, EventOf DEF MarkProcessed, Goto, IInv, TypeOK, WorkerType, PaymentEventType, Unhandled
    <3> QED BY <1>3, <3>1 DEF WorkerInv, InTx
  <2>4. CASE ReadOrder(u) /\ order[ev[u].order] # "absent"
    <3>1. /\ ev[u] \in published /\ ev[u].order \in Orders
          /\ ev[u].type \in {"payment.processed", "payment.failed"}
      BY <2>4, EventOf DEF ReadOrder, IInv, WorkerInv, InTx
    <3>2. ~isTerminal(order[ev[u].order]) =>
             \/ order[ev[u].order] = "pending" /\ version[ev[u].order] = 1
             \/ order[ev[u].order] = "pending_payment" /\ version[ev[u].order] = 2
      BY <2>4, <3>1 DEF isTerminal, IInv, OrdersInv, RowsOf, TypeOK, DbType, OrderStatus
    <3>3. /\ ev'[u] = ev[u]
          /\ snap'[u] = [status |-> order[ev[u].order], version |-> version[ev[u].order]]
          /\ pc'[u] = IF isTerminal(order[ev[u].order]) THEN "commit"
                       ELSE IF ev[u].type = "payment.processed" THEN "paid" ELSE "compensating"
      BY <2>4 DEF ReadOrder, Goto, IInv, TypeOK, WorkerType, TxType
    <3>4. CASE isTerminal(order[ev[u].order])
      <4>1. pc'[u] = "commit" BY <3>3, <3>4 DEF isTerminal
      <4> QED BY <1>3, <3>1, <3>3, <4>1 DEF WorkerInv, InTx
    <3>5. CASE ~isTerminal(order[ev[u].order])
      <4>1. \/ snap'[u] = [status |-> "pending", version |-> 1]
            \/ snap'[u] = [status |-> "pending_payment", version |-> 2]
        BY <3>2, <3>3, <3>5
      <4>2. pc'[u] = IF ev[u].type = "payment.processed" THEN "paid" ELSE "compensating"
        BY <3>3, <3>5 DEF isTerminal
      <4> QED BY <1>3, <3>1, <3>3, <4>1, <4>2 DEF WorkerInv, InTx
    <3> QED BY <3>4, <3>5
  <2>5. CASE SendToDLQ(u)
    <3>1. \/ pc'[u] = "idle"
          \/ pc'[u] = "ack" /\ ev'[u] \in dlq'
      BY <2>5 DEF SendToDLQ, Goto, IInv, TypeOK, WorkerType
    <3> QED BY <1>3, <3>1 DEF WorkerInv, InTx
  <2>6. CASE Ack(u)
    <3>1. pc'[u] = "idle" BY <2>6 DEF Ack, Goto, IInv, TypeOK, WorkerType
    <3> QED BY <1>3, <3>1 DEF WorkerInv, InTx
  <2> QED BY <2>1, <2>2, <2>3, <2>4, <2>5, <2>6
<1>5. AckedIsHandled'
  BY DEF Fetch, Ignore, MarkProcessed, ReadOrder, SendToDLQ, Ack, IInv, WorkerInv, AckedIsHandled
<1> QED BY <1>1, <1>2, <1>4, <1>5, PrivateInv

\* The statements inside the transaction that lock a row and write it privately, and
\* the read that finds no order.
LEMMA TxStepInv ==
    ASSUME IInv, TypeOK', NEW u \in Workers,
           \/ TransitionPaid(u) \/ applyTransition(u) \/ FinishSaga(u) \/ DbError(u)
           \/ (ReadOrder(u) /\ order[ev[u].order] = "absent")
    PROVE  IInv'
<1> DEFINE o == ev[u].order
           confirming == ev[u].type = "payment.processed"
<1>1. ev[u] \in published /\ o \in Orders
  BY EventOf DEF TransitionPaid, applyTransition, FinishSaga, DbError, ReadOrder, InTx
<1>2. UNCHANGED <<dbVars, creator, stock, late, published, acked, dlq>>
  BY DEF TransitionPaid, applyTransition, FinishSaga, DbError, ReadOrder
<1>3. CASE Failed(u)
  BY <1>2, <1>3, FailedInv
<1>4. CASE ~Failed(u)
  <2>1. AckedIsHandled' BY <1>2 DEF IInv, AckedIsHandled
  <2>2. CASE TransitionPaid(u)
    <3>1. /\ pc[u] = "paid" /\ sagaLock[o] = Nobody
          /\ CanTransition(saga[o], "paid")
          /\ pc' = [pc EXCEPT ![u] = "update"]
          /\ sagaLock' = [sagaLock EXCEPT ![o] = u]
          /\ txSaga' = [txSaga EXCEPT ![u] = "paid"]
          /\ UNCHANGED <<ev, snap, txOrder, orderLock>>
      BY <1>4, <2>2 DEF TransitionPaid, Goto
    <3>2. PrivateStep(u)
      BY <1>1, <1>2, <3>1, NobodyAssumption DEF PrivateStep, IInv, TypeOK, WorkerType, TxType
    <3>3. saga[o] = "awaiting_payment"
      BY <1>1, <3>1 DEF CanTransition, graph, IInv, OrdersInv, RowsOf, TypeOK, DbType, OrderStatus
    <3>4. WorkerInv(u)'
      BY <1>1, <1>2, <3>1, <3>3 DEF IInv, WorkerInv, InTx, TypeOK, WorkerType, TxType
    <3>5. \A p \in Orders : /\ orderLock'[p] # u
                            /\ sagaLock'[p] = u => pc'[u] = "update" /\ ev'[u].order = p
                            /\ ev'[u].type = "payment.processed"
      BY <1>1, <3>1 DEF IInv, LockInv, WorkerInv, TypeOK, WorkerType, TxType
    <3> QED BY <2>1, <3>2, <3>4, <3>5, PrivateInv
  <2>3. CASE applyTransition(u)
    <3>1. /\ pc[u] = "update" /\ orderLock[o] = Nobody
          /\ snap[u].status = "pending_payment" /\ version[o] = snap[u].version
          /\ orderLock' = [orderLock EXCEPT ![o] = u]
          /\ txOrder' = [txOrder EXCEPT ![u] =
                            IF confirming THEN "confirmed" ELSE "payment_failed"]
          /\ pc' = [pc EXCEPT ![u] = "finish"]
          /\ UNCHANGED <<ev, snap, txSaga, sagaLock>>
      BY <1>4, <2>3 DEF applyTransition, Goto
    <3>2. PrivateStep(u)
      BY <1>1, <1>2, <3>1, NobodyAssumption DEF PrivateStep, IInv, TypeOK, WorkerType, TxType
    <3>3. order[o] = "pending_payment"
      <4>1. version[o] = 2 BY <3>1 DEF IInv, WorkerInv
      <4>2. RowsOf(o) /\ order[o] \in OrderStatus
        BY <1>1 DEF IInv, OrdersInv, TypeOK, DbType
      <4> QED BY <4>1, <4>2 DEF RowsOf, OrderStatus
    <3>4. WorkerInv(u)'
      <4>1. saga[o] \in {"awaiting_payment", "compensating"}
        BY <1>1, <3>3 DEF IInv, OrdersInv, RowsOf
      <4> QED BY <1>1, <1>2, <3>1, <3>3, <4>1 DEF IInv, WorkerInv, InTx, TypeOK, WorkerType, TxType
    <3>5. \A p \in Orders :
             /\ orderLock'[p] = u => pc'[u] = "finish" /\ ev'[u].order = p
             /\ sagaLock'[p] = u => pc'[u] = "finish" /\ ev'[u].order = p
      BY <1>1, <3>1 DEF IInv, LockInv, TypeOK, WorkerType, TxType
    <3> QED BY <2>1, <3>2, <3>4, <3>5, PrivateInv
  <2>4. CASE FinishSaga(u)
    <3>1. /\ pc[u] = "finish" /\ sagaLock[o] \in {Nobody, u}
          /\ sagaLock' = [sagaLock EXCEPT ![o] = u]
          /\ txSaga' = [txSaga EXCEPT ![u] =
                            IF confirming THEN "completed" ELSE "compensated"]
          /\ pc' = [pc EXCEPT ![u] = "commit"]
          /\ UNCHANGED <<ev, snap, txOrder, orderLock>>
      BY <1>4, <2>4 DEF FinishSaga, Goto
    <3>2. PrivateStep(u)
      BY <1>1, <1>2, <3>1, NobodyAssumption DEF PrivateStep, IInv, TypeOK, WorkerType, TxType
    <3>4. WorkerInv(u)'
      BY <1>1, <1>2, <3>1 DEF IInv, WorkerInv, InTx, TypeOK, WorkerType, TxType
    <3>5. \A p \in Orders :
             /\ orderLock'[p] = u => pc'[u] = "commit" /\ ev'[u].order = p
             /\ sagaLock'[p] = u => pc'[u] = "commit" /\ ev'[u].order = p
      BY <1>1, <3>1 DEF IInv, LockInv, TypeOK, WorkerType, TxType
    <3> QED BY <2>1, <3>2, <3>4, <3>5, PrivateInv
  <2> QED BY <1>4, <2>2, <2>3, <2>4 DEF DbError, ReadOrder
<1> QED BY <1>3, <1>4

\* The release that failed or was cut off by a crash leaves at most a request that
\* releases stock of an order whose compensation has begun.
LEMMA GiveUpReleaseInv ==
    ASSUME IInv, TypeOK', NEW u \in Workers, ReleaseFails(u) \/ WorkerCrash(u)
    PROVE  IInv'
<1>1. /\ EndTx(u) /\ pc'[u] \in {"idle", "begin", "giveup"}
      /\ \A w \in Workers \ {u} : pc'[w] = pc[w] /\ ev'[w] = ev[w]
  <2>1. TypeOK BY DEF IInv
  <2>2. CASE ReleaseFails(u) BY <2>1, <2>2, FailedPc DEF ReleaseFails
  <2>3. CASE WorkerCrash(u)
    BY <2>1, <2>3 DEF WorkerCrash, Goto, TypeOK, WorkerType
  <2> QED BY <2>2, <2>3
<1>2. UNCHANGED <<dbVars, creator, stock, published, acked, dlq>>
  BY DEF ReleaseFails, WorkerCrash
<1>3. LateInv'
  <2>1. CASE UNCHANGED late BY <1>2, <2>1, QuietRows
  <2>2. CASE late' = late \cup {[op |-> "release", order |-> ev[u].order]} /\ pc[u] = "release"
    BY <1>2, <2>2 DEF IInv, LateInv, WorkerInv
  <2> QED BY <2>1, <2>2 DEF ReleaseFails, WorkerCrash
<1> QED BY <1>1, <1>2, <1>3, RollbackInv

\* The compensating checkpoint: no lock protects the row afterwards, but from
\* here on it can only move to compensated.
LEMMA CheckpointInv ==
    ASSUME IInv, TypeOK', NEW u \in Workers, markCompensating(u)
    PROVE  IInv'
<1> DEFINE o == ev[u].order
<1>1. o \in Orders BY EventOf DEF markCompensating
<1>2. CASE Failed(u) /\ UNCHANGED saga
  BY <1>2, FailedInv DEF markCompensating
<1>3. CASE ~(Failed(u) /\ UNCHANGED saga)
  <2>1. /\ pc[u] = "compensating" /\ sagaLock[o] = Nobody
        /\ CanTransition(saga[o], "compensating")
        /\ saga' = [saga EXCEPT ![o] = "compensating"]
        /\ pc' = [pc EXCEPT ![u] = "release"]
        /\ UNCHANGED <<order, version, outbox, processed, creator, stock, late, published,
                       acked, dlq, ev, txVars>>
    BY <1>3 DEF markCompensating, Goto
  <2>2. /\ order[o] = "pending_payment" /\ saga[o] \in {"awaiting_payment", "compensating"}
        /\ saga'[o] = "compensating" /\ \A p \in Orders \ {o} : saga'[p] = saga[p]
    BY <1>1, <2>1, EventOf
    DEF CanTransition, graph, IInv, OrdersInv, RowsOf, TypeOK, DbType, OrderStatus
  <2>3. ASSUME NEW p \in Orders PROVE RowsOf(p)' /\ CreatorOf(p)' /\ StockOf(p)'
    BY <1>1, <2>1, <2>2 DEF IInv, OrdersInv, RowsOf, CreatorOf, StockOf
  <2>4. OrdersInv' BY <2>3 DEF OrdersInv
  <2>5. LateInv'
    BY <1>1, <2>1, <2>2 DEF IInv, LateInv, TypeOK, RequestType, InventoryRequest
  <2>6. AckedIsHandled'
    BY <2>1 DEF IInv, AckedIsHandled
  <2>7. LockInv'
    BY <2>1 DEF IInv, LockInv, TypeOK, WorkerType
  <2>8. ASSUME NEW w \in Workers, w # u PROVE WorkerInv(w)'
    <3>1. pc[w] # "idle" => ev[w].order \in Orders BY EventOf
    <3>2. Undisturbed(w)
      BY <1>1, <2>1, <2>2, <2>8, <3>1, NobodyAssumption DEF Undisturbed, IInv, TypeOK, WorkerType
    <3> QED BY <2>4, <3>2, UndisturbedInv DEF IInv
  <2>9. WorkerInv(u)'
    <3>1. pc'[u] = "release" /\ saga'[o] = "compensating"
      BY <2>1, <2>2 DEF IInv, TypeOK, WorkerType
    <3> QED BY <2>1, <3>1 DEF IInv, WorkerInv, InTx
  <2> QED BY <2>4, <2>5, <2>6, <2>7, <2>8, <2>9 DEF IInv
<1> QED BY <1>2, <1>3

\* The release itself: the saga is past the checkpoint, so no confirmation of the
\* same order is under way.
LEMMA ReleaseInv ==
    ASSUME IInv, TypeOK', NEW u \in Workers, ReleaseOK(u)
    PROVE  IInv'
<1> DEFINE o == ev[u].order
<1>1. /\ o \in Orders /\ ev[u] \in published /\ pc[u] = "release"
      /\ saga[o] \in {"compensating", "compensated"}
  BY EventOf DEF ReleaseOK, IInv, WorkerInv
<1>2. /\ pc' = [pc EXCEPT ![u] = "update"]
      /\ UNCHANGED <<dbVars, creator, late, published, acked, dlq, ev, txVars>>
  BY DEF ReleaseOK, Goto
<1>3. stock[o] \in {"reserved", "released"}
  BY <1>1 DEF IInv, OrdersInv, StockOf
<1>4. stock'[o] = "released" /\ \A p \in Orders \ {o} : stock'[p] = stock[p]
  BY <1>1, <1>3 DEF ReleaseOK, Released, IInv, TypeOK, RequestType
<1>5. ASSUME NEW p \in Orders PROVE RowsOf(p)' /\ CreatorOf(p)' /\ StockOf(p)'
  <2>1. CreatorOf(o)'
    BY <1>1, <1>2 DEF IInv, OrdersInv, RowsOf, CreatorOf
  <2>2. StockOf(o)' BY <1>1, <1>2, <1>4 DEF StockOf
  <2> QED BY <1>2, <1>4, <2>1, <2>2 DEF IInv, OrdersInv, RowsOf, CreatorOf, StockOf
<1>6. OrdersInv' BY <1>5 DEF OrdersInv
<1>7. LateInv' /\ AckedIsHandled'
  BY <1>2 DEF IInv, LateInv, AckedIsHandled
<1>8. LockInv'
  BY <1>1, <1>2 DEF IInv, LockInv, TypeOK, WorkerType
<1>9. ASSUME NEW w \in Workers, w # u PROVE WorkerInv(w)'
  <2>1. pc[w] # "idle" => ev[w].order \in Orders BY EventOf
  <2>2. Undisturbed(w)
    BY <1>2, <1>4, <1>9, <2>1 DEF Undisturbed, IInv, TypeOK, WorkerType
  <2> QED BY <1>6, <2>2, UndisturbedInv DEF IInv
<1>10. WorkerInv(u)'
  <2>1. pc'[u] = "update" BY <1>2 DEF IInv, TypeOK, WorkerType
  <2> QED BY <1>1, <1>2, <1>4, <2>1 DEF IInv, WorkerInv, InTx
<1> QED BY <1>6, <1>7, <1>8, <1>9, <1>10 DEF IInv

\* What a commit writes: nothing but the processed id, or the decision of one
\* order together with its saga state and its announcement.
LEMMA CommitRows ==
    ASSUME IInv, NEW u \in Workers, pc[u] = "commit", CommitTx(u),
           UNCHANGED <<ev, creator, stock, late, published, acked, dlq>>
    PROVE  /\ OrdersInv' /\ LateInv' /\ AckedIsHandled'
           /\ \/ UNCHANGED <<order, saga>>
              \/ /\ orderLock[ev[u].order] = u /\ sagaLock[ev[u].order] = u
                 /\ \A p \in Orders \ {ev[u].order} :
                       order'[p] = order[p] /\ saga'[p] = saga[p]
                 /\ saga[ev[u].order] \in {"compensating", "compensated"} =>
                       saga'[ev[u].order] = "compensated"
<1> DEFINE o == ev[u].order
<1>1. o \in Orders /\ ev[u] \in published /\ ev[u].type \in {"payment.processed", "payment.failed"}
  BY EventOf DEF IInv, WorkerInv, InTx
<1>2. AckedIsHandled' BY DEF CommitTx, IInv, AckedIsHandled
<1>3. CASE txOrder[u] = "absent" /\ txSaga[u] = "none"
  <2>1. saga' = saga BY <1>3 DEF CommitTx, IInv, TypeOK, DbType
  <2>2. UNCHANGED <<order, version, saga, outbox>> BY <1>3, <2>1 DEF CommitTx
  <2> QED BY <1>2, <2>2, QuietRows
<1>4. CASE ~(txOrder[u] = "absent" /\ txSaga[u] = "none")
  <2>1. /\ orderLock[o] = u /\ sagaLock[o] = u /\ order[o] = "pending_payment"
        /\ \/ /\ txOrder[u] = "confirmed" /\ txSaga[u] = "completed"
              /\ saga[o] = "awaiting_payment"
           \/ /\ txOrder[u] = "payment_failed" /\ txSaga[u] = "compensated"
              /\ saga[o] = "compensating" /\ stock[o] = "released"
    BY <1>4 DEF IInv, WorkerInv
  <2>2. /\ order' = [order EXCEPT ![o] = txOrder[u]]
        /\ version' = [version EXCEPT ![o] = @ + 1]
        /\ outbox' = [outbox EXCEPT ![o][OutcomeEvent(txOrder[u])] = @ + 1]
        /\ saga' = [saga EXCEPT ![o] = txSaga[u]]
    BY <2>1 DEF CommitTx
  <2>3. \A p \in Orders \ {o} :
           /\ order'[p] = order[p] /\ version'[p] = version[p]
           /\ saga'[p] = saga[p] /\ outbox'[p] = outbox[p]
    BY <2>2 DEF IInv, TypeOK, DbType
  <2>4. /\ order'[o] = txOrder[u] /\ saga'[o] = txSaga[u] /\ version'[o] = 3
    BY <1>1, <2>1, <2>2 DEF IInv, OrdersInv, RowsOf, TypeOK, DbType
  <2>5. \A t \in OrderEventType :
           outbox'[o][t] = IF t = OutcomeEvent(txOrder[u]) THEN outbox[o][t] + 1 ELSE outbox[o][t]
    <3>1. OutcomeEvent(txOrder[u]) \in OrderEventType BY DEF OutcomeEvent, OrderEventType
    <3>2. DbType BY DEF IInv, TypeOK
    <3>3. outbox' = [outbox EXCEPT ![o][OutcomeEvent(txOrder[u])] = @ + 1] BY <2>2
    <3> HIDE DEF o
    <3> QED BY <1>1, <3>1, <3>2, <3>3, OutboxType
  <2>6. outbox[o]["order.confirmed"] = 0 /\ outbox[o]["order.cancelled"] = 0
    BY <1>1, <2>1 DEF IInv, OrdersInv, RowsOf
  <2>7. RowsOf(o)'
    <3>1. CASE txOrder[u] = "confirmed"
      <4>1. outbox'[o]["order.confirmed"] = 1 /\ outbox'[o]["order.cancelled"] = 0
        BY <2>5, <2>6, <3>1 DEF OutcomeEvent, OrderEventType
      <4> QED BY <2>1, <2>4, <3>1, <4>1 DEF RowsOf
    <3>2. CASE txOrder[u] = "payment_failed"
      <4>1. outbox'[o]["order.confirmed"] = 0 /\ outbox'[o]["order.cancelled"] = 1
        BY <2>5, <2>6, <3>2 DEF OutcomeEvent, OrderEventType
      <4> QED BY <2>1, <2>4, <3>2, <4>1 DEF RowsOf
    <3> QED BY <2>1, <3>1, <3>2
  <2>8. CreatorOf(o)' /\ StockOf(o)'
    BY <1>1, <2>1, <2>4 DEF IInv, OrdersInv, CreatorOf, StockOf
  <2>9. ASSUME NEW p \in Orders \ {o} PROVE RowsOf(p)' /\ CreatorOf(p)' /\ StockOf(p)'
    BY <2>3 DEF IInv, OrdersInv, RowsOf, CreatorOf, StockOf
  <2>10. OrdersInv' BY <2>7, <2>8, <2>9 DEF OrdersInv
  <2>11. LateInv'
    BY <1>1, <2>1, <2>3, <2>4 DEF IInv, LateInv, TypeOK, RequestType, InventoryRequest
  <2> QED BY <1>2, <2>1, <2>3, <2>4, <2>10, <2>11
<1> QED BY <1>3, <1>4

\* The commit: both rows were locked, so nobody else relied on them.
LEMMA CommitInv ==
    ASSUME IInv, TypeOK', NEW u \in Workers, Commit(u) \/ CommitUnknown(u)
    PROVE  IInv'
<1>1. TypeOK BY DEF IInv
<1>2. /\ pc[u] = "commit" /\ CommitTx(u) /\ EndTx(u)
      /\ UNCHANGED <<creator, stock, late, published, acked, dlq>>
      /\ \A w \in Workers \ {u} : pc'[w] = pc[w] /\ ev'[w] = ev[w]
      /\ ev' = ev
      /\ pc'[u] \in {"begin", "giveup", "ack"}
  BY <1>1, FailedPc DEF Commit, CommitUnknown, Failed, Goto, TypeOK, WorkerType
<1>3. ev[u].order \in Orders BY <1>2, EventOf
<1> DEFINE o == ev[u].order
<1>4. /\ txSaga'[u] = "none" /\ txOrder'[u] = "absent"
      /\ \A p \in Orders : orderLock'[p] # u /\ sagaLock'[p] # u
      /\ \A w \in Workers \ {u} :
            /\ snap'[w] = snap[w] /\ txOrder'[w] = txOrder[w] /\ txSaga'[w] = txSaga[w]
            /\ \A p \in Orders : /\ orderLock'[p] = w <=> orderLock[p] = w
                                 /\ sagaLock'[p] = w <=> sagaLock[p] = w
  <2>1. EndTx(u) BY <1>2
  <2> QED BY <1>1, <2>1, EndTxLocks
<1>5. /\ OrdersInv' /\ LateInv' /\ AckedIsHandled'
      /\ \/ UNCHANGED <<order, saga>>
         \/ /\ orderLock[o] = u /\ sagaLock[o] = u
            /\ \A p \in Orders \ {o} : order'[p] = order[p] /\ saga'[p] = saga[p]
            /\ saga[o] \in {"compensating", "compensated"} => saga'[o] = "compensated"
  BY <1>2, CommitRows
<1>6. ASSUME NEW w \in Workers \ {u} PROVE WorkerInv(w)'
  <2>1. pc[w] # "idle" => ev[w].order \in Orders BY EventOf
  <2>2. processed \subseteq processed' BY <1>2 DEF CommitTx
  <2>3. ASSUME pc[w] # "idle"
        PROVE  LET p == ev[w].order IN
           /\ sagaLock[p] = w => sagaLock'[p] = w /\ saga'[p] = saga[p]
           /\ orderLock[p] = w => orderLock'[p] = w /\ order'[p] = order[p]
           /\ saga[p] \in {"compensating", "compensated"} =>
                 saga'[p] \in {"compensating", "compensated"}
    BY <1>3, <1>4, <1>5, <2>1, <2>3
  <2>4. Undisturbed(w) BY <1>2, <1>4, <2>2, <2>3 DEF Undisturbed
  <2> QED BY <1>1, <1>5, <2>4, UndisturbedInv DEF IInv
<1>7. WorkerInv(u)'
  <2>1. ev[u].id \in processed' BY <1>2 DEF CommitTx
  <2> QED BY <1>2, <1>4, <2>1 DEF WorkerInv, InTx
<1>8. LockInv'
  BY <1>2, <1>4 DEF IInv, LockInv
<1> QED BY <1>5, <1>6, <1>7, <1>8 DEF IInv

----------------------------------------------------------------------------
\* IInv holds in every reachable state: whatever crashes, is retried, redelivered,
\* republished or answered late, the rows of an order, its reservation and what the
\* workers believe about them fit together.
THEOREM Invariance == Spec => []IInv
<1>1. Init => IInv
  <2> SUFFICES ASSUME Init PROVE IInv OBVIOUS
  <2>1. TypeOK
    <3>1. DbType BY DEF Init, DbType, OrderStatus, SagaState
    <3>2. RequestType /\ BrokerType BY DEF Init, RequestType, BrokerType
    <3>3. WorkerType
      BY RetriesAssumption, CrashesAssumption DEF Init, WorkerType, WorkerLocations
    <3>4. TxType BY DEF Init, TxType, OrderStatus, SagaState
    <3> QED BY <3>1, <3>2, <3>3, <3>4 DEF TypeOK
  <2>2. OrdersInv BY DEF Init, OrdersInv, RowsOf, CreatorOf, StockOf, OrderEventType
  <2>3. LateInv /\ AckedIsHandled
    BY DEF Init, LateInv, AckedIsHandled
  <2>4. \A w \in Workers : WorkerInv(w) BY DEF Init, WorkerInv, InTx
  <2>5. LockInv BY NobodyAssumption DEF Init, LockInv
  <2> QED BY <2>1, <2>2, <2>3, <2>4, <2>5 DEF IInv
<1>2. IInv /\ TypeOK' /\ [Next]_vars => IInv'
  <2> SUFFICES ASSUME IInv, TypeOK', [Next]_vars PROVE IInv'
    OBVIOUS
  <2>1. ASSUME NEW o \in Orders, Create(o) PROVE IInv'
    BY <2>1, RequestInv, CreateInv DEF Create
  <2>2. CASE \/ \E r \in InventoryRequest : ServeLate(r)
             \/ \E o \in Orders : Inventory(o)
    BY <2>2, InventoryInv
  <2>3. ASSUME NEW e \in Event, PublishPaymentEvent(e) PROVE IInv'
    BY <2>3, PublishInv
  <2>4. ASSUME NEW e \in Event, NEW w \in Workers, Fetch(w, e) PROVE IInv'
    BY <2>4, LoopInv
  <2>5. ASSUME NEW w \in Workers, Handle(w) PROVE IInv'
    <3>1. CASE ReadOrder(w)
      <4>1. CASE order[ev[w].order] = "absent" BY <3>1, <4>1, TxStepInv
      <4>2. CASE order[ev[w].order] # "absent" BY <3>1, <4>2, LoopInv
      <4> QED BY <4>1, <4>2
    <3>2. CASE Ignore(w) \/ MarkProcessed(w) \/ SendToDLQ(w) \/ Ack(w)
      BY <3>2, LoopInv
    <3>3. CASE TransitionPaid(w) \/ applyTransition(w) \/ FinishSaga(w)
      BY <3>3, TxStepInv
    <3>4. CASE markCompensating(w) \/ ReleaseOK(w) \/ ReleaseFails(w) \/ Commit(w)
      BY <3>4, CheckpointInv, ReleaseInv, GiveUpReleaseInv, CommitInv
    <3> QED BY <2>5, <3>1, <3>2, <3>3, <3>4 DEF Handle
  <2>6. ASSUME NEW w \in Workers, CommitUnknown(w) \/ DbError(w) \/ WorkerCrash(w) PROVE IInv'
    BY <2>6, CommitInv, TxStepInv, GiveUpReleaseInv
  <2>7. CASE UNCHANGED vars
    BY <2>7, SMTT(40) DEF IInv, OrdersInv, RowsOf, CreatorOf, StockOf, LateInv,
                WorkerInv, InTx, LockInv, AckedIsHandled
  <2> QED BY <2>1, <2>2, <2>3, <2>4, <2>5, <2>6, <2>7 DEF Next
<1> QED BY <1>1, <1>2, TypeCorrect, PTL DEF Spec

\* Every safety property the runs check is a consequence of IInv.
LEMMA Consequences ==
    ASSUME IInv
    PROVE  StockFollowsDecision /\ OneOutcome /\ NoLockCycle
<1>1. StockFollowsDecision
  BY DEF IInv, OrdersInv, RowsOf, StockOf, StockFollowsDecision
<1>2. ASSUME NEW o \in Orders
      PROVE  /\ order[o] = "confirmed" <=> saga[o] = "completed"
             /\ order[o] = "payment_failed" <=> saga[o] = "compensated"
             /\ order[o] = "pending_payment" <=> saga[o] \in {"awaiting_payment", "compensating"}
  BY DEF IInv, OrdersInv, RowsOf, TypeOK, DbType, OrderStatus
<1>3. ASSUME NEW o \in Orders
      PROVE  /\ outbox[o]["order.confirmed"] = (IF order[o] = "confirmed" THEN 1 ELSE 0)
             /\ outbox[o]["order.cancelled"] = (IF order[o] = "payment_failed" THEN 1 ELSE 0)
  BY DEF IInv, OrdersInv, RowsOf, TypeOK, DbType, OrderStatus
<1>4. OneOutcome BY <1>2, <1>3 DEF OneOutcome
<1>5. NoLockCycle
  <2> SUFFICES ASSUME NEW v \in Workers, NEW w \in Workers, NEW o \in Orders, v # w,
                      sagaLock[o] = v, pc[v] = "update", ev[v].order = o,
                      orderLock[o] = w, pc[w] = "finish", ev[w].order = o
               PROVE  FALSE
    BY DEF NoLockCycle
  <2>1. saga[o] = "awaiting_payment"
    BY DEF IInv, WorkerInv, LockInv
  <2>2. ev[w].type # "payment.processed" => saga[o] = "compensating"
    BY DEF IInv, WorkerInv
  <2>3. ev[w].type = "payment.processed" => sagaLock[o] = w
    BY DEF IInv, WorkerInv
  <2> QED BY <2>1, <2>2, <2>3
<1> QED BY <1>1, <1>4, <1>5

\* Stock goes where the decision sends it: kept when confirmed, given back when
\* compensated.
THEOREM StockDecided == Spec => []StockFollowsDecision
BY Invariance, Consequences, PTL

\* Saga row, order row and announced outcome agree in every committed state.
THEOREM OutcomeAgrees == Spec => []OneOutcome
BY Invariance, Consequences, PTL

\* The two lock orders of ConfirmPayment and FailPayment never deadlock.
THEOREM DeadlockFree == Spec => []NoLockCycle
BY Invariance, Consequences, PTL

\* An offset is committed only for an event that took effect, is in the DLQ, or is one
\* that handle returns from at once: of an ignored type, or without a usable order_id.
THEOREM OffsetsFollowHandling == Spec => []AckedIsHandled
<1>1. IInv => AckedIsHandled BY DEF IInv
<1> QED BY <1>1, Invariance, PTL

----------------------------------------------------------------------------
\* The outcome events of one order, as the contract counts them.
Announcements == [o \in Orders |-> [t \in {"order.confirmed", "order.cancelled"} |-> outbox[o][t]]]

\* Every step is, for the contract, one of its steps or none at all.
LEMMA StepSimulation ==
    ASSUME IInv, [Next]_vars
    PROVE  [Contract!Next]_(Contract!contractVars)
<1> USE DEF Contract!contractVars
<1>1. UNCHANGED <<order, stock, outbox>> => UNCHANGED Contract!contractVars
  OBVIOUS
<1>2. ASSUME NEW o \in Orders, Create(o) PROVE [Contract!Next]_(Contract!contractVars)
  <2>1. CASE ReserveOK(o)
    <3>1. Contract!Hold(o)
      BY <2>1 DEF ReserveOK, Reserved, Contract!Hold, IInv, OrdersInv, CreatorOf
    <3> QED BY <3>1 DEF Contract!Next
  <2>2. CASE ReserveRejected(o) \/ ReserveLost(o) \/ CreatorCrash(o)
    BY <1>1, <2>2 DEF ReserveRejected, ReserveLost, CreatorCrash
  <2>3. CASE (Save(o) \/ SaveFails(o)) /\ SaveTx(o)
    <3>1. \A p \in Orders, t \in {"order.confirmed", "order.cancelled"} : outbox'[p][t] = outbox[p][t]
      <4>1. DbType /\ "order.created" \in OrderEventType BY DEF IInv, TypeOK, OrderEventType
      <4>2. outbox' = [outbox EXCEPT ![o]["order.created"] = @ + 1] BY <2>3 DEF SaveTx
      <4> QED BY <4>1, <4>2, OutboxType DEF OrderEventType
    <3>2. Contract!Place(o)
      BY <2>3, <3>1 DEF Save, SaveFails, SaveTx, Contract!Place, IInv, OrdersInv, CreatorOf
    <3> QED BY <3>2 DEF Contract!Next
  <2>4. CASE (MarkPendingPayment(o) \/ MarkPendingPaymentFails(o)) /\ MarkPendingPaymentTx(o)
    <3>1. \A p \in Orders, t \in {"order.confirmed", "order.cancelled"} : outbox'[p][t] = outbox[p][t]
      <4>1. DbType /\ "order.ready_for_payment" \in OrderEventType BY DEF IInv, TypeOK, OrderEventType
      <4>2. outbox' = [outbox EXCEPT ![o]["order.ready_for_payment"] = @ + 1]
        BY <2>4 DEF MarkPendingPaymentTx
      <4> QED BY <4>1, <4>2, OutboxType DEF OrderEventType
    <3>2. Contract!AskForPayment(o)
      BY <2>4, <3>1 DEF MarkPendingPayment, MarkPendingPaymentFails, MarkPendingPaymentTx,
                        Contract!AskForPayment, IInv, OrdersInv, CreatorOf
    <3> QED BY <3>2 DEF Contract!Next
  <2>5. CASE (SaveFails(o) \/ MarkPendingPaymentFails(o)) /\ UNCHANGED <<order, outbox>>
    BY <1>1, <2>5 DEF SaveFails, MarkPendingPaymentFails
  <2>6. CASE AbortRelease(o)
    <3>1. order[o] # "confirmed" BY <2>6 DEF AbortRelease, IInv, OrdersInv, CreatorOf
    <3>2. CASE UNCHANGED stock BY <1>1, <2>6, <3>2 DEF AbortRelease
    <3>3. CASE stock' = [stock EXCEPT ![o] = Released(@)] /\ stock[o] = "reserved"
      <4>1. Contract!GiveBack(o) BY <2>6, <3>1, <3>3 DEF AbortRelease, Released, Contract!GiveBack
      <4> QED BY <4>1 DEF Contract!Next
    <3>4. CASE stock' = [stock EXCEPT ![o] = Released(@)] /\ stock[o] # "reserved"
      <4>1. UNCHANGED stock BY <3>4 DEF Released, IInv, TypeOK, RequestType
      <4> QED BY <1>1, <2>6, <4>1 DEF AbortRelease
    <3> QED BY <2>6, <3>2, <3>3, <3>4 DEF AbortRelease
  <2> QED BY <1>2, <2>1, <2>2, <2>3, <2>4, <2>5, <2>6
          DEF Create, Save, SaveFails, MarkPendingPayment, MarkPendingPaymentFails
<1>3. ASSUME NEW o \in Orders, Inventory(o) PROVE [Contract!Next]_(Contract!contractVars)
  <2>1. CASE InventoryOnConfirmed(o) /\ stock[o] = "reserved"
    <3>1. order[o] = "confirmed"
      BY <2>1 DEF InventoryOnConfirmed, IInv, OrdersInv, RowsOf, TypeOK, DbType, OrderStatus
    <3>2. Contract!TakeOut(o)
      BY <2>1, <3>1 DEF InventoryOnConfirmed, Committed, Contract!TakeOut
    <3> QED BY <3>2 DEF Contract!Next
  <2>2. CASE InventoryOnConfirmed(o) /\ stock[o] # "reserved"
    BY <1>1, <2>2 DEF InventoryOnConfirmed, Committed, IInv, TypeOK, RequestType
  <2>3. CASE InventoryOnCancelled(o)
    <3>1. stock[o] = "released"
      BY <2>3 DEF InventoryOnCancelled, IInv, OrdersInv, RowsOf, StockOf, TypeOK, DbType, OrderStatus
    <3> QED BY <1>1, <2>3, <3>1 DEF InventoryOnCancelled, Released, IInv, TypeOK, RequestType
  <2> QED BY <1>3, <2>1, <2>2, <2>3 DEF Inventory
<1>4. ASSUME NEW r \in InventoryRequest, ServeLate(r) PROVE [Contract!Next]_(Contract!contractVars)
  <2>1. r.order \in Orders /\ r.op \in {"reserve", "release"} BY DEF InventoryRequest
  <2>2. CASE r.op = "reserve" /\ stock[r.order] = "none"
    <3>1. order[r.order] = "absent"
      BY <1>4, <2>1, <2>2 DEF ServeLate, IInv, LateInv, OrdersInv, CreatorOf
    <3>2. Contract!Hold(r.order)
      BY <1>4, <2>2, <3>1 DEF ServeLate, Reserved, Contract!Hold
    <3> QED BY <2>1, <3>2 DEF Contract!Next
  <2>3. CASE r.op = "release" /\ stock[r.order] = "reserved"
    <3>1. order[r.order] # "confirmed"
      BY <1>4, <2>1, <2>3 DEF ServeLate, IInv, LateInv, OrdersInv, CreatorOf, RowsOf
    <3>2. Contract!GiveBack(r.order)
      BY <1>4, <2>3, <3>1 DEF ServeLate, Released, Contract!GiveBack
    <3> QED BY <2>1, <3>2 DEF Contract!Next
  <2>4. CASE ~(r.op = "reserve" /\ stock[r.order] = "none") /\ ~(r.op = "release" /\ stock[r.order] = "reserved")
    BY <1>1, <1>4, <2>1, <2>4 DEF ServeLate, Reserved, Released, IInv, TypeOK, RequestType
  <2> QED BY <2>2, <2>3, <2>4
<1>5. ASSUME NEW e \in Event,
             PublishPaymentEvent(e) \/ \E w \in Workers : Fetch(w, e)
      PROVE  [Contract!Next]_(Contract!contractVars)
  BY <1>1, <1>5 DEF PublishPaymentEvent, Fetch
<1>6. ASSUME NEW w \in Workers, ReleaseOK(w) PROVE [Contract!Next]_(Contract!contractVars)
  <2>1. ev[w].order \in Orders /\ order[ev[w].order] # "confirmed"
    BY <1>6, EventOf DEF ReleaseOK, IInv, WorkerInv, OrdersInv, RowsOf
  <2>2. CASE stock[ev[w].order] = "reserved"
    <3>1. Contract!GiveBack(ev[w].order)
      BY <1>6, <2>1, <2>2 DEF ReleaseOK, Released, Contract!GiveBack
    <3> QED BY <2>1, <3>1 DEF Contract!Next
  <2>3. CASE stock[ev[w].order] # "reserved"
    BY <1>1, <1>6, <2>3 DEF ReleaseOK, Released, IInv, TypeOK, RequestType
  <2> QED BY <2>2, <2>3
<1>7. ASSUME NEW w \in Workers, Commit(w) \/ CommitUnknown(w)
      PROVE  [Contract!Next]_(Contract!contractVars)
  <2>0. PICK o \in Orders : o = ev[w].order
    BY <1>7, EventOf DEF Commit, CommitUnknown
  <2>1. pc[w] = "commit" /\ CommitTx(w) /\ UNCHANGED stock /\ ev[w].order = o
    BY <1>7, <2>0 DEF Commit, CommitUnknown
  <2>2. CASE txOrder[w] = "absent"
    BY <1>1, <2>1, <2>2 DEF CommitTx
  <2>3. CASE txOrder[w] # "absent"
    <3>1. /\ order[o] = "pending_payment"
          /\ \/ txOrder[w] = "confirmed" /\ saga[o] = "awaiting_payment"
             \/ txOrder[w] = "payment_failed" /\ stock[o] = "released"
      BY <2>1, <2>3 DEF IInv, WorkerInv
    <3>2. /\ order' = [order EXCEPT ![o] = txOrder[w]]
          /\ outbox' = [outbox EXCEPT ![o][OutcomeEvent(txOrder[w])] = @ + 1]
      BY <2>1, <2>3 DEF CommitTx
    <3>3. /\ \A p \in Orders \ {o} : outbox'[p] = outbox[p]
          /\ \A u \in OrderEventType :
                outbox'[o][u] = IF u = OutcomeEvent(txOrder[w]) THEN outbox[o][u] + 1 ELSE outbox[o][u]
      <4>1. OutcomeEvent(txOrder[w]) \in OrderEventType BY DEF OutcomeEvent, OrderEventType
      <4>2. DbType BY DEF IInv, TypeOK
      <4>3. outbox' = [outbox EXCEPT ![o][OutcomeEvent(txOrder[w])] = @ + 1] BY <3>2
      <4> QED BY <4>1, <4>2, <4>3, OutboxType
    <3>4. Announcements' =
             [Announcements EXCEPT ![o][OutcomeEvent(txOrder[w])] = @ + 1]
      <4> DEFINE T == {"order.confirmed", "order.cancelled"}
                 t0 == OutcomeEvent(txOrder[w])
                 next == [Announcements[o] EXCEPT ![t0] = @ + 1]
      <4>1. t0 \in T BY DEF OutcomeEvent
      <4>2. Announcements[o] = [t \in T |-> outbox[o][t]] BY DEF Announcements
      <4>3. next = [t \in T |-> IF t = t0 THEN outbox[o][t] + 1 ELSE outbox[o][t]]
        <5> HIDE DEF t0
        <5> QED BY <4>1, <4>2
      <4>4. \A t \in T : outbox'[o][t] = IF t = t0 THEN outbox[o][t] + 1 ELSE outbox[o][t]
        BY <3>3 DEF OrderEventType
      <4>5. Announcements'[o] = next
        BY <4>3, <4>4 DEF Announcements
      <4>6. \A p \in Orders \ {o} : Announcements'[p] = Announcements[p]
        BY <3>3 DEF Announcements
      <4>7. Announcements' = [Announcements EXCEPT ![o] = next]
        <5> HIDE DEF next
        <5> QED BY <4>5, <4>6 DEF Announcements
      <4> QED BY <4>7
    <3>5. CASE txOrder[w] = "confirmed"
      <4>1. stock[o] = "reserved"
        BY <2>1, <3>1, <3>5 DEF IInv, OrdersInv, StockOf
      <4>2. Contract!Confirm(o)
        BY <2>1, <3>1, <3>2, <3>4, <3>5, <4>1 DEF Contract!Confirm, Announcements, OutcomeEvent
      <4> QED BY <2>1, <4>2 DEF Contract!Next
    <3>6. CASE txOrder[w] = "payment_failed"
      <4>1. Contract!Fail(o)
        BY <2>1, <3>1, <3>2, <3>4, <3>6 DEF Contract!Fail, Announcements, OutcomeEvent
      <4> QED BY <2>1, <4>1 DEF Contract!Next
    <3> QED BY <3>1, <3>5, <3>6
  <2> QED BY <2>2, <2>3
<1>8. ASSUME NEW w \in Workers,
             \/ Ignore(w) \/ MarkProcessed(w) \/ ReadOrder(w) \/ TransitionPaid(w)
             \/ markCompensating(w) \/ ReleaseFails(w) \/ applyTransition(w)
             \/ FinishSaga(w) \/ SendToDLQ(w) \/ Ack(w) \/ DbError(w) \/ WorkerCrash(w)
      PROVE  [Contract!Next]_(Contract!contractVars)
  <2>1. UNCHANGED <<order, stock, outbox>>
    BY <1>8 DEF Ignore, MarkProcessed, ReadOrder, TransitionPaid, markCompensating,
                ReleaseFails, applyTransition, FinishSaga, SendToDLQ, Ack, DbError, WorkerCrash
  <2> QED BY <1>1, <2>1
<1>9. CASE UNCHANGED vars BY <1>1, <1>9
<1> QED BY <1>2, <1>3, <1>4, <1>5, <1>6, <1>7, <1>8, <1>9 DEF Next, Handle

\* The saga implements the order contract.
THEOREM Refinement == Spec => ImplementsContract
<1>1. Init => Contract!Init
  BY DEF Init, Contract!Init, Contract!Outcomes, OrderEventType
<1>2. IInv /\ [Next]_vars => [Contract!Next]_(Contract!contractVars)
  BY StepSimulation
<1> QED BY <1>1, <1>2, Invariance, PTL DEF Spec, ImplementsContract, Contract!Spec

\* Every step of the contract is, for the stock, one step of a reservation or none.
LEMMA ContractKeepsToReservation ==
    ASSUME [Contract!Next]_(Contract!contractVars)
    PROVE  [InventorySeen!Next]_stock
<1>1. CASE UNCHANGED Contract!contractVars
  BY <1>1 DEF Contract!contractVars
<1>2. ASSUME NEW o \in Orders,
             \/ Contract!Hold(o) \/ Contract!Place(o) \/ Contract!AskForPayment(o)
             \/ Contract!GiveBack(o) \/ Contract!Confirm(o) \/ Contract!Fail(o)
             \/ Contract!TakeOut(o)
      PROVE  [InventorySeen!Next]_stock
  <2>1. \/ InventorySeen!Hold(o) \/ InventorySeen!GiveBack(o) \/ InventorySeen!TakeOut(o)
        \/ UNCHANGED stock
    BY <1>2 DEF Contract!Hold, Contract!Place, Contract!AskForPayment, Contract!GiveBack,
                Contract!Confirm, Contract!Fail, Contract!TakeOut,
                InventorySeen!Hold, InventorySeen!GiveBack, InventorySeen!TakeOut
  <2> QED BY <2>1 DEF InventorySeen!Next
<1> QED BY <1>1, <1>2 DEF Contract!Next

\* The saga asks nothing of the inventory that Reservation does not provide: the stock it
\* sees, late and repeated calls and inventory events included, is one that the inventory
\* service, which implements Reservation, can show.
THEOREM KeepsReservation == Spec => KeepsToReservation
<1>1. Init => InventorySeen!Init
  BY DEF Init, InventorySeen!Init
<1>2. IInv /\ [Next]_vars => [InventorySeen!Next]_stock
  BY StepSimulation, ContractKeepsToReservation
<1> QED BY <1>1, <1>2, Invariance, PTL DEF Spec, KeepsToReservation, InventorySeen!Spec

----------------------------------------------------------------------------
\* What a step may do to the rows of one order.
FinalFor(o) ==
    /\ order[o] \in {"confirmed", "payment_failed"} =>
          order'[o] = order[o] /\ saga'[o] = saga[o]
    /\ saga[o] = "compensating" => saga'[o] \in {"compensating", "compensated"}

\* The steps that write rows write those of an order that is not decided yet, and
\* only a commit to compensated leaves the compensating state.
LEMMA FinalStep ==
    ASSUME IInv, [Next]_vars, NEW o \in Orders
    PROVE  FinalFor(o)
<1>1. CASE UNCHANGED <<order, saga>>
  BY <1>1 DEF FinalFor
<1>2. ASSUME NEW p \in Orders, Create(p), ~UNCHANGED <<order, saga>> PROVE FinalFor(o)
  <2>1. \/ SaveTx(p) /\ UNCHANGED saga /\ creator[p] = "reserved"
        \/ MarkPendingPaymentTx(p) /\ creator[p] = "saved"
    BY <1>2 DEF Create, ReserveOK, ReserveRejected, ReserveLost, Save, SaveFails, AbortRelease,
                MarkPendingPayment, MarkPendingPaymentFails, CreatorCrash
  <2>2. order[p] \in {"absent", "pending"} /\ saga[p] = "none"
    BY <2>1 DEF IInv, OrdersInv, CreatorOf, RowsOf
  <2>3. o # p => order'[o] = order[o] /\ saga'[o] = saga[o]
    BY <2>1 DEF SaveTx, MarkPendingPaymentTx, IInv, TypeOK, DbType
  <2> QED BY <2>2, <2>3 DEF FinalFor
<1>3. ASSUME NEW w \in Workers, markCompensating(w), ~UNCHANGED <<order, saga>> PROVE FinalFor(o)
  <2>1. /\ CanTransition(saga[ev[w].order], "compensating")
        /\ saga' = [saga EXCEPT ![ev[w].order] = "compensating"] /\ UNCHANGED order
    BY <1>3 DEF markCompensating
  <2>2. ev[w].order \in Orders /\ order[ev[w].order] = "pending_payment"
    BY <1>3, <2>1, EventOf
    DEF markCompensating, CanTransition, graph, IInv, OrdersInv, RowsOf, TypeOK, DbType, OrderStatus
  <2>3. saga'[ev[w].order] = "compensating"
        /\ (o # ev[w].order => saga'[o] = saga[o])
    BY <2>1, <2>2 DEF IInv, TypeOK, DbType
  <2> QED BY <2>1, <2>2, <2>3 DEF FinalFor
<1>4. ASSUME NEW w \in Workers, Commit(w) \/ CommitUnknown(w), ~UNCHANGED <<order, saga>>
      PROVE  FinalFor(o)
  <2>1. pc[w] = "commit" /\ CommitTx(w) BY <1>4 DEF Commit, CommitUnknown
  <2>2. ev[w].order \in Orders BY <2>1, EventOf
  <2>3. CASE txOrder[w] = "absent" /\ txSaga[w] = "none"
    <3>1. UNCHANGED <<order, saga>> BY <2>1, <2>3 DEF CommitTx, IInv, TypeOK, DbType
    <3> QED BY <1>4, <3>1
  <2>4. CASE ~(txOrder[w] = "absent" /\ txSaga[w] = "none")
    <3>1. /\ order[ev[w].order] = "pending_payment" /\ txOrder[w] # "absent" /\ txSaga[w] # "none"
          /\ saga[ev[w].order] = "compensating" => txSaga[w] = "compensated"
      BY <2>1, <2>4 DEF IInv, WorkerInv
    <3>2. /\ saga' = [saga EXCEPT ![ev[w].order] = txSaga[w]]
          /\ order' = [order EXCEPT ![ev[w].order] = txOrder[w]]
      BY <2>1, <3>1 DEF CommitTx
    <3>3. /\ saga'[ev[w].order] = txSaga[w]
          /\ o # ev[w].order => saga'[o] = saga[o] /\ order'[o] = order[o]
      BY <2>2, <3>2 DEF IInv, TypeOK, DbType
    <3> QED BY <3>1, <3>3 DEF FinalFor
  <2> QED BY <2>3, <2>4
<1>5. \/ UNCHANGED <<order, saga>>
      \/ \E p \in Orders : Create(p)
      \/ \E w \in Workers : markCompensating(w) \/ Commit(w) \/ CommitUnknown(w)
  BY ZenonT(60) DEF Next, Handle, Inventory, InventoryOnConfirmed, InventoryOnCancelled, ServeLate,
         PublishPaymentEvent, Fetch, Ignore, MarkProcessed, ReadOrder, TransitionPaid, ReleaseOK,
         ReleaseFails, applyTransition, FinishSaga, SendToDLQ, Ack, DbError, WorkerCrash
<1> QED BY <1>1, <1>2, <1>3, <1>4, <1>5

\* A decided order and its saga never change again, and compensation never turns
\* back to a payment.
THEOREM Finality == Spec => DecisionsAreFinal
<1>1. IInv /\ [Next]_vars =>
         [\A o \in Orders :
            /\ order[o] \in {"confirmed", "payment_failed"} =>
                  order'[o] = order[o] /\ saga'[o] = saga[o]
            /\ saga[o] = "compensating" => saga'[o] \in {"compensating", "compensated"}]_vars
  BY FinalStep DEF FinalFor
<1> QED BY <1>1, Invariance, PTL DEF Spec, DecisionsAreFinal
=============================================================================
