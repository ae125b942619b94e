------------------------------ MODULE Payment ------------------------------
(***************************************************************************)
(* The payment service: ProcessPayment, reached by order.ready_for_payment *)
(* events and over HTTP, RefundPayment, and the event-sourced repository  *)
(* below them (event streams, snapshots, read model and outbox).           *)
(*                                                                         *)
(* Repository.Save is one transaction. It is one action here: the unique  *)
(* index on (aggregate_id, event_version) makes a second writer of the    *)
(* same version wait for the first one to end, and then fail.             *)
(*                                                                         *)
(* The gateway is the stub of the repository, seen from outside: a charge *)
(* is approved or declined, and a new payment id is a new charge.          *)
(***************************************************************************)
EXTENDS Naturals, FiniteSets, Sequences, SequencesExt

CONSTANTS
    Orders,
    HttpOrders,         \* orders whose payment is (also) requested over HTTP
    PaymentIds,         \* ids uuid.New may return
    EventIds,           \* ids of order.ready_for_payment events on the topic
    ReadyOrder,         \* ReadyOrder[e]: the order event e asks payment for
    Unreadable,         \* events that lack an order, customer, amount or currency
    FreeOrders,         \* orders whose total is zero
    Servers,            \* goroutines of all replicas: consumer loops and HTTP handlers
    NoOrder,
    NoPayment,
    SnapshotThreshold,  \* a snapshot is written every so many versions
    MaxFailures         \* bound: failing calls and crashes in one behaviour

ASSUME HttpOrdersAssumption == HttpOrders \subseteq Orders
ASSUME ReadyOrderAssumption == ReadyOrder \in [EventIds -> Orders]
ASSUME PayloadAssumption == Unreadable \subseteq EventIds /\ FreeOrders \subseteq Orders
ASSUME NoneAssumption == NoOrder \notin Orders /\ NoPayment \notin PaymentIds
ASSUME ThresholdAssumption == SnapshotThreshold \in Nat \ {0}
ASSUME ServersAssumption == IsFiniteSet(Servers)
ASSUME FailuresAssumption == MaxFailures \in Nat

VARIABLES
    stream,       \* stream[p]: committed payment_events of aggregate p, by version
    owner,        \* owner[p]: the order p was initiated for, NoOrder if p is unused
    snapshot,     \* snapshot[p]: latest payment_snapshots row, version 0 without one
    view,         \* view[p]: the payment_status row, version 0 without one
    outbox,       \* outbox[p]: committed outbox rows of p, oldest first
    processed,    \* committed processed_events rows
    charged,      \* payments whose charge the gateway approved
    pc,           \* pc[w]: next step of server w
    call,         \* call[w]: what w serves, or served last
    agg,          \* agg[w]: the aggregate w has in memory
    answer,       \* answer[w]: outcome of the last call of w
    failures

db == <<stream, snapshot, view, outbox>>
vars == <<db, owner, processed, charged, pc, call, agg, answer, failures>>

----------------------------------------------------------------------------
\* The aggregate

EventType == {"payment.initiated", "payment.processed", "payment.failed", "payment.refunded"}

Status == {"none", "initiated", "completed", "failed", "refunded"}

Aggregate == [id : PaymentIds \cup {NoPayment}, status : Status, version : Nat,
              pending : Seq(EventType)]

Empty == [id |-> NoPayment, status |-> "none", version |-> 0, pending |-> <<>>]

StatusAfter == [type \in EventType |->
    CASE type = "payment.initiated" -> "initiated"
      [] type = "payment.processed" -> "completed"
      [] type = "payment.failed"    -> "failed"
      [] type = "payment.refunded"  -> "refunded"]

Apply(a, type) ==
    [a EXCEPT !.status = StatusAfter[type], !.version = @ + 1, !.pending = Append(@, type)]

\* A snapshot, or an empty aggregate, brought up to date by the events after it: every
\* one moves the version on and decides the status, so the last one does.
Replay(a, p, history) ==
    IF history = <<>> THEN [a EXCEPT !.pending = <<>>]
    ELSE [id |-> p, status |-> StatusAfter[Last(history)],
          version |-> a.version + Len(history), pending |-> <<>>]

----------------------------------------------------------------------------
\* Calls and answers

Call == [op : {"deliver"}, event : EventIds, order : Orders]
           \cup [op : {"pay"}, order : Orders]
           \cup [op : {"refund"}, payment : PaymentIds]
           \cup [op : {"none"}]

Goto(w, l) == pc' = [pc EXCEPT ![w] = l]

Done(w, result) ==
    /\ Goto(w, "idle")
    /\ agg' = [agg EXCEPT ![w] = Empty]
    /\ answer' = [answer EXCEPT ![w] = result]
    /\ UNCHANGED call

Start(w, c, l) ==
    /\ pc[w] = "idle"
    /\ Goto(w, l)
    /\ call' = [call EXCEPT ![w] = c]
    /\ answer' = [answer EXCEPT ![w] = "none"]
    /\ UNCHANGED <<db, owner, processed, charged, agg, failures>>

\* order.ready_for_payment is delivered, possibly not for the first time. One that
\* cannot be read is dropped: nil, so its offset is committed and no payment follows.
Deliver(w, e) ==
    LET c == [op |-> "deliver", event |-> e, order |-> ReadyOrder[e]] IN
    \/ e \notin Unreadable /\ Start(w, c, "was_processed")
    \/ /\ e \in Unreadable
       /\ pc[w] = "idle"
       /\ call' = [call EXCEPT ![w] = c]
       /\ answer' = [answer EXCEPT ![w] = "dropped"]
       /\ UNCHANGED <<db, owner, processed, charged, pc, agg, failures>>

\* POST /api/v1/payments
RequestPayment(w, o) == Start(w, [op |-> "pay", order |-> o], "find")

\* POST /api/v1/payments/{id}/refund
RequestRefund(w, p) == Start(w, [op |-> "refund", payment |-> p], "load")

----------------------------------------------------------------------------
\* The consumer's idempotency check and mark, around ProcessPayment

\* Mutant: the event is marked when it is checked, before it took effect.
WasProcessedMarks(w) ==
    /\ pc[w] = "was_processed"
    /\ processed' = processed \cup {call[w].event}
    /\ \/ call[w].event \in processed /\ Done(w, "ok")
       \/ /\ call[w].event \notin processed
          /\ Goto(w, "find")
          /\ UNCHANGED <<call, agg, answer>>
    /\ UNCHANGED <<db, owner, charged, failures>>

WasProcessed(w) ==
    /\ pc[w] = "was_processed"
    /\ \/ call[w].event \in processed /\ Done(w, "ok")
       \/ /\ call[w].event \notin processed
          /\ Goto(w, "find")
          /\ UNCHANGED <<call, agg, answer>>
    /\ UNCHANGED <<db, owner, processed, charged, failures>>

MarkProcessed(w) ==
    /\ pc[w] = "mark"
    /\ processed' = processed \cup {call[w].event}
    /\ Done(w, "ok")
    /\ UNCHANGED <<db, owner, charged, failures>>

\* ProcessPayment returned: the consumer marks the event, a decline included;
\* the HTTP handler answers.
Return(w, result) ==
    IF call[w].op = "deliver"
    THEN Goto(w, "mark") /\ agg' = [agg EXCEPT ![w] = Empty] /\ UNCHANGED <<call, answer>>
    ELSE Done(w, result)

----------------------------------------------------------------------------
\* ProcessPayment: find, charge, save

HasPayment(o) == \E p \in PaymentIds : owner[p] = o /\ stream[p] # <<>>

FindByOrderID(w) ==
    /\ pc[w] = "find"
    /\ \/ HasPayment(call[w].order) /\ Return(w, "ok")
       \/ /\ ~HasPayment(call[w].order)
          /\ Goto(w, "charge")
          /\ UNCHANGED <<call, agg, answer>>
    /\ UNCHANGED <<db, owner, processed, charged, failures>>

\* The amount is the order's total, or what the HTTP caller asks for.
PositiveAmount(w) == call[w].op = "deliver" => call[w].order \notin FreeOrders

\* domain.Initiate accepts no amount that is not positive: nothing is charged, and
\* nothing recorded that would tell the order service so.
InitiateRejects(w) ==
    /\ pc[w] = "charge"
    /\ call[w].op = "pay" \/ ~PositiveAmount(w)
    /\ Done(w, "invalid")
    /\ UNCHANGED <<db, owner, processed, charged, failures>>

\* Mutant: a decline is returned before the failed payment is saved.
ChargeDeclinesUnsaved(w) ==
    /\ pc[w] = "charge"
    /\ PositiveAmount(w)
    /\ \/ /\ \E p \in PaymentIds :
                /\ owner[p] = NoOrder
                /\ owner' = [owner EXCEPT ![p] = call[w].order]
                /\ charged' = charged \cup {p}
                /\ agg' = [agg EXCEPT ![w] =
                       Apply(Apply([Empty EXCEPT !.id = p], "payment.initiated"), "payment.processed")]
          /\ Goto(w, "save")
          /\ UNCHANGED <<call, answer>>
       \/ Return(w, "declined") /\ UNCHANGED <<owner, charged>>
    /\ UNCHANGED <<db, processed, failures>>

\* Initiate under a new id, the gateway call, then Process or Fail in memory.
\* A decline is the gateway's, or an open breaker's.
Charge(w) ==
    /\ pc[w] = "charge"
    /\ PositiveAmount(w)
    /\ \E p \in PaymentIds, result \in {"payment.processed", "payment.failed"} :
          /\ owner[p] = NoOrder
          /\ owner' = [owner EXCEPT ![p] = call[w].order]
          /\ charged' = IF result = "payment.processed" THEN charged \cup {p} ELSE charged
          /\ agg' = [agg EXCEPT ![w] =
                        Apply(Apply([Empty EXCEPT !.id = p], "payment.initiated"), result)]
    /\ Goto(w, "save")
    /\ UNCHANGED <<db, processed, call, answer, failures>>

----------------------------------------------------------------------------
\* Repository.Save and Repository.Load

\* The version the aggregate had before its pending events.
expectedVersion(a) == a.version - Len(a.pending)

\* One transaction: events, read model, outbox, and sometimes a snapshot.
SaveTx(a) ==
    /\ stream' = [stream EXCEPT ![a.id] = @ \o a.pending]
    /\ view' = [view EXCEPT ![a.id] = [status |-> a.status, version |-> a.version]]
    /\ outbox' = [outbox EXCEPT ![a.id] = @ \o a.pending]
    /\ snapshot' = IF a.version % SnapshotThreshold = 0
                   THEN [snapshot EXCEPT ![a.id] = [a EXCEPT !.pending = <<>>]]
                   ELSE snapshot

\* Mutant: no unique index on (aggregate_id, event_version).
ConflictsNever(a) == FALSE

\* Append collides with a version that is already in the stream.
Conflicts(a) == Len(stream[a.id]) > expectedVersion(a)

Save(w) ==
    /\ pc[w] = "save"
    /\ \/ /\ ~Conflicts(agg[w])
          /\ SaveTx(agg[w])
          /\ Return(w, IF agg[w].status = "failed" THEN "declined" ELSE "ok")
       \/ Conflicts(agg[w]) /\ Done(w, "conflict") /\ UNCHANGED db
    /\ UNCHANGED <<owner, processed, charged, failures>>

\* The commit landed, but Save reports an error.
SaveUnknown(w) ==
    /\ pc[w] = "save"
    /\ failures < MaxFailures
    /\ failures' = failures + 1
    /\ ~Conflicts(agg[w])
    /\ SaveTx(agg[w])
    /\ Done(w, "error")
    /\ UNCHANGED <<owner, processed, charged>>

LoadSnapshot(w) ==
    /\ pc[w] = "load"
    /\ agg' = [agg EXCEPT ![w] = snapshot[call[w].payment]]
    /\ Goto(w, "replay")
    /\ UNCHANGED <<db, owner, processed, charged, call, answer, failures>>

\* Events recorded after the snapshot, in a query of its own.
History(p, fromVersion) == SubSeq(stream[p], fromVersion + 1, Len(stream[p]))

LoadEvents(w) ==
    LET p == call[w].payment
        a == Replay(agg[w], p, History(p, agg[w].version))
    IN
    /\ pc[w] = "replay"
    /\ \/ a.id = NoPayment /\ Done(w, "not_found")
       \/ /\ a.id # NoPayment
          /\ agg' = [agg EXCEPT ![w] = a]
          /\ Goto(w, "refund")
          /\ UNCHANGED <<call, answer>>
    /\ UNCHANGED <<db, owner, processed, charged, failures>>

\* Mutant: the command checks the status and records no event.
RefundWithoutEvent(w) ==
    /\ pc[w] = "refund"
    /\ \/ agg[w].status # "completed" /\ Done(w, "conflict")
       \/ /\ agg[w].status = "completed"
          /\ Goto(w, "save")
          /\ UNCHANGED <<call, agg, answer>>
    /\ UNCHANGED <<db, owner, processed, charged, failures>>

\* Payment.Refund: only a completed payment; then Save.
Refund(w) ==
    /\ pc[w] = "refund"
    /\ \/ agg[w].status # "completed" /\ Done(w, "conflict")
       \/ /\ agg[w].status = "completed"
          /\ agg' = [agg EXCEPT ![w] = Apply(@, "payment.refunded")]
          /\ Goto(w, "save")
          /\ UNCHANGED <<call, answer>>
    /\ UNCHANGED <<db, owner, processed, charged, failures>>

\* A database call fails, or the replica dies: what w had in memory is lost.
Fail(w) ==
    /\ pc[w] # "idle"
    /\ failures < MaxFailures
    /\ failures' = failures + 1
    /\ Done(w, "error")
    /\ UNCHANGED <<db, owner, processed, charged>>

----------------------------------------------------------------------------
\* Specification

Init ==
    /\ stream = [p \in PaymentIds |-> <<>>]
    /\ owner = [p \in PaymentIds |-> NoOrder]
    /\ snapshot = [p \in PaymentIds |-> Empty]
    /\ view = [p \in PaymentIds |-> [status |-> "none", version |-> 0]]
    /\ outbox = [p \in PaymentIds |-> <<>>]
    /\ processed = {}
    /\ charged = {}
    /\ pc = [w \in Servers |-> "idle"]
    /\ call = [w \in Servers |-> [op |-> "none"]]
    /\ agg = [w \in Servers |-> Empty]
    /\ answer = [w \in Servers |-> "none"]
    /\ failures = 0

Step(w) ==
    \/ WasProcessed(w) \/ MarkProcessed(w)
    \/ FindByOrderID(w) \/ InitiateRejects(w) \/ Charge(w) \/ Save(w)
    \/ LoadSnapshot(w) \/ LoadEvents(w) \/ Refund(w)

Next ==
    \E w \in Servers :
        \/ \E e \in EventIds : Deliver(w, e)
        \/ \E o \in HttpOrders : RequestPayment(w, o)
        \/ \E p \in PaymentIds : RequestRefund(w, p)
        \/ Step(w) \/ SaveUnknown(w) \/ Fail(w)

Spec == Init /\ [][Next]_vars

\* Events that ask for a payment there can be.
Answerable == {e \in EventIds \ Unreadable : ReadyOrder[e] \notin FreeOrders}

\* Calls go on until they end, and the subscriber, which reads its partition in
\* order, gets to every event that is not marked yet: its group has a committed
\* offset, MaxFailures stays below the retries that lead to the DLQ, and the events
\* ahead that nothing marks end as dropped or in the DLQ.
Fairness ==
    /\ \A w \in Servers : WF_vars(Step(w))
    /\ \A e \in Answerable : SF_vars(\E w \in Servers : e \notin processed /\ Deliver(w, e))

FairSpec == Spec /\ Fairness

----------------------------------------------------------------------------
\* Properties

TypeOK ==
    /\ stream \in [PaymentIds -> Seq(EventType)]
    /\ owner \in [PaymentIds -> Orders \cup {NoOrder}]
    /\ snapshot \in [PaymentIds -> Aggregate]
    /\ view \in [PaymentIds -> [status : Status, version : Nat]]
    /\ outbox \in [PaymentIds -> Seq(EventType)]
    /\ processed \subseteq EventIds
    /\ charged \subseteq PaymentIds
    /\ pc \in [Servers -> {"idle", "was_processed", "find", "charge", "save", "mark",
                           "load", "replay", "refund"}]
    /\ call \in [Servers -> Call]
    /\ agg \in [Servers -> Aggregate]
    /\ \A w \in Servers : pc[w] = "save" => agg[w].id \in PaymentIds /\ agg[w].pending # <<>>
    /\ answer \in [Servers -> {"none", "ok", "declined", "conflict", "not_found",
                               "invalid", "dropped", "error"}]
    /\ failures \in 0..MaxFailures

Histories == {<<>>,
              <<"payment.initiated", "payment.failed">>,
              <<"payment.initiated", "payment.processed">>,
              <<"payment.initiated", "payment.processed", "payment.refunded">>}

\* Every stream tells a possible life of a payment (two refunds that both loaded the
\* completed payment do not both get into it); read model, snapshot and outbox never
\* drift apart from it, whoever saved; and what Load rebuilds from a snapshot and the
\* events after it, read one after the other, is a state the payment was in.
BooksAgree ==
    /\ \A p \in PaymentIds :
        /\ stream[p] \in Histories
        /\ outbox[p] = stream[p]
        /\ view[p] = [status |-> IF stream[p] = <<>> THEN "none" ELSE StatusAfter[Last(stream[p])],
                      version |-> Len(stream[p])]
        /\ LET s == snapshot[p] IN
             s.version > 0 => /\ s.version <= Len(stream[p])
                              /\ s.status = StatusAfter[stream[p][s.version]]
    /\ \A w \in Servers : pc[w] = "refund" =>
        LET p == call[w].payment
            n == agg[w].version
        IN /\ agg[w].id = p
           /\ n \in 1..Len(stream[p])
           /\ agg[w].status = StatusAfter[stream[p][n]]

InFlight == {w \in Servers : pc[w] = "save" /\ agg[w].id \in charged /\ stream[agg[w].id] = <<>>}

\* Nothing is claimed that is not on record. A recorded payment is shown as paid
\* exactly when the gateway took the money, and money without a record is in flight or
\* was lost to a failure; an event is marked processed only once the payment it asked
\* for is recorded, so that a crash before leads to a redelivery; and what a caller is
\* told is so: a granted refund took effect, and one is refused only when there is
\* nothing left to give back.
ClaimsAreRecorded ==
    /\ \A p \in PaymentIds : stream[p] # <<>> =>
          (p \in charged <=> "payment.processed" \in ToSet(stream[p]))
    /\ Cardinality({p \in charged : stream[p] = <<>>}) <= Cardinality(InFlight) + failures
    /\ \A e \in processed : HasPayment(ReadyOrder[e])
    /\ \A w \in Servers : pc[w] = "idle" =>
        /\ call[w].op = "pay" /\ answer[w] \in {"ok", "declined"} => HasPayment(call[w].order)
        /\ call[w].op = "refund" /\ answer[w] = "ok" => view[call[w].payment].status = "refunded"
        /\ call[w].op = "refund" /\ answer[w] = "conflict" =>
              view[call[w].payment].status \in {"refunded", "failed"}

\* An order that waits for payment gets an answer once the failures stop, whatever
\* else is on the topic. An order with a total of zero is none of them: the order
\* service asks for its payment, Initiate refuses it on every delivery, and nobody
\* ever answers.
ReadyIsAnswered == \A e \in Answerable : <>HasPayment(ReadyOrder[e])

Shown == [p \in PaymentIds |-> view[p].status]

\* Whoever pays and refunds at once, a payment lives as PaymentContract says.
Contract == INSTANCE PaymentContract WITH status <- Shown, announced <- outbox

ImplementsContract == Contract!Spec

\* The gateway is not charged twice for an order (service/payment.go:32-35).
ChargedOnce == \A p, q \in charged : owner[p] = owner[q] => p = q
=============================================================================
