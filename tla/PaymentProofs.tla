---------------------------- MODULE PaymentProofs ----------------------------
(***************************************************************************)
(* Theorems about Payment, for any number of servers, orders, events and   *)
(* payment ids, any snapshot threshold and any number of failures: its     *)
(* types, that streams, read model, snapshots and outbox agree             *)
(* (BooksAgree), that what is claimed is on record (ClaimsAreRecorded),    *)
(* and that Payment implements PaymentContract.                            *)
(***************************************************************************)
EXTENDS Payment, FiniteSetTheorems, SequenceTheorems, TLAPS

----------------------------------------------------------------------------
\* The inductive invariant

\* What a snapshot, or Load, makes of the first events of payment p: a payment is never
\* saved before the gateway decided.
Rebuilt(a, p) ==
    /\ a.id = p /\ a.pending = <<>>
    /\ a.version \in 2..Len(stream[p])
    /\ a.status = StatusAfter[stream[p][a.version]]

PaymentOK(p) ==
    /\ stream[p] \in Histories
    /\ outbox[p] = stream[p]
    /\ view[p] = [status |-> IF stream[p] = <<>> THEN "none" ELSE StatusAfter[Last(stream[p])],
                  version |-> Len(stream[p])]
    /\ snapshot[p] = Empty \/ Rebuilt(snapshot[p], p)
    /\ stream[p] # <<>> => (p \in charged <=> "payment.processed" \in ToSet(stream[p]))
    /\ stream[p] # <<>> \/ p \in charged => owner[p] \in Orders

\* A payment that was charged or declined and is not recorded yet.
Unsaved(w) ==
    /\ agg[w].id \in PaymentIds /\ stream[agg[w].id] = <<>> /\ owner[agg[w].id] = call[w].order
    /\ \E result \in {"payment.processed", "payment.failed"} :
          /\ agg[w] = [id |-> agg[w].id, status |-> StatusAfter[result], version |-> 2,
                       pending |-> <<"payment.initiated", result>>]
          /\ agg[w].id \in charged <=> result = "payment.processed"

\* A refund that is granted and is not recorded yet, at least not by this server.
Refunded(w) ==
    /\ agg[w] = [id |-> call[w].payment, status |-> "refunded", version |-> 3,
                 pending |-> <<"payment.refunded">>]
    /\ stream[call[w].payment] \in {<<"payment.initiated", "payment.processed">>,
                 <<"payment.initiated", "payment.processed", "payment.refunded">>}

\* What the answers of an idle server say is so.
Answered(w) ==
    /\ call[w].op = "pay" /\ answer[w] \in {"ok", "declined"} => HasPayment(call[w].order)
    /\ call[w].op = "refund" /\ answer[w] = "ok" => view[call[w].payment].status = "refunded"
    /\ call[w].op = "refund" /\ answer[w] = "conflict" =>
          view[call[w].payment].status \in {"refunded", "failed"}

ServerOK(w) ==
    /\ pc[w] \in {"was_processed", "mark"} => call[w].op = "deliver"
    /\ pc[w] \in {"find", "charge"} => call[w].op \in {"deliver", "pay"}
    /\ pc[w] \in {"load", "replay", "refund"} => call[w].op = "refund"
    /\ pc[w] = "save" => call[w].op \in {"deliver", "pay", "refund"}
    /\ call[w].op = "deliver" => call[w].order = ReadyOrder[call[w].event]
    /\ pc[w] = "mark" => HasPayment(call[w].order)
    /\ pc[w] = "replay" => agg[w] = Empty \/ Rebuilt(agg[w], call[w].payment)
    /\ pc[w] = "refund" => Rebuilt(agg[w], call[w].payment)
    /\ pc[w] = "save" /\ call[w].op = "refund" => Refunded(w)
    /\ pc[w] = "save" /\ call[w].op # "refund" => Unsaved(w)
    /\ pc[w] = "idle" => Answered(w)

Saving(w) == pc[w] = "save" /\ call[w].op # "refund"

\* uuid.New never returns the same id twice.
OwnIds == \A u, w \in Servers : u # w /\ Saving(u) /\ Saving(w) => agg[u].id # agg[w].id

Lost == {p \in charged : stream[p] = <<>>}

MoneyInv == IsFiniteSet(charged) /\ Cardinality(Lost) <= Cardinality(InFlight) + failures

MarkedInv == \A e \in processed : HasPayment(ReadyOrder[e])

IInv ==
    /\ TypeOK
    /\ \A p \in PaymentIds : PaymentOK(p)
    /\ \A w \in Servers : ServerOK(w)
    /\ OwnIds /\ MoneyInv /\ MarkedInv

----------------------------------------------------------------------------
\* Streams

LEMMA Statuses ==
    /\ StatusAfter["payment.initiated"] = "initiated" /\ StatusAfter["payment.processed"] = "completed"
    /\ StatusAfter["payment.failed"] = "failed" /\ StatusAfter["payment.refunded"] = "refunded"
    /\ \A type \in EventType : StatusAfter[type] \in Status
  BY DEF StatusAfter, EventType, Status

\* The four lives of a payment.
LEMMA HistoryTyped ==
    ASSUME NEW h \in Histories
    PROVE  /\ h \in Seq(EventType) /\ DOMAIN h = 1..Len(h)
           /\ \/ h = <<>> /\ Len(h) = 0
              \/ h = <<"payment.initiated", "payment.failed">> /\ Len(h) = 2
              \/ h = <<"payment.initiated", "payment.processed">> /\ Len(h) = 2
              \/ h = <<"payment.initiated", "payment.processed", "payment.refunded">> /\ Len(h) = 3
           /\ \A i \in 1..Len(h) : h[i] \in EventType
<1>1. h \in Seq(EventType)
  <2>1. /\ "payment.initiated" \in EventType /\ "payment.processed" \in EventType
        /\ "payment.failed" \in EventType /\ "payment.refunded" \in EventType
    BY DEF EventType
  <2>2. /\ <<>> \in Seq(EventType)
        /\ <<"payment.initiated", "payment.failed">> \in Seq(EventType)
        /\ <<"payment.initiated", "payment.processed">> \in Seq(EventType)
        /\ <<"payment.initiated", "payment.processed", "payment.refunded">> \in Seq(EventType)
    BY <2>1
  <2>3. QED
    BY <2>2 DEF Histories
<1>2. DOMAIN h = 1..Len(h)
  BY <1>1, LenProperties
<1>3. \/ h = <<>> /\ Len(h) = 0
      \/ h = <<"payment.initiated", "payment.failed">> /\ Len(h) = 2
      \/ h = <<"payment.initiated", "payment.processed">> /\ Len(h) = 2
      \/ h = <<"payment.initiated", "payment.processed", "payment.refunded">> /\ Len(h) = 3
  BY DEF Histories
<1>4. \A i \in 1..Len(h) : h[i] \in EventType
  BY <1>1, ElementOfSeq
<1>5. QED
  BY <1>1, <1>2, <1>3, <1>4

\* What a status says of the stream.
LEMMA RebuiltStatus ==
    ASSUME NEW h \in Histories, NEW n \in 2..Len(h)
    PROVE  /\ h # <<>> /\ StatusAfter[h[n]] \in Status
           /\ StatusAfter[h[n]] = "completed" => n = 2 /\ h[2] = "payment.processed"
           /\ StatusAfter[h[n]] # "completed" =>
                StatusAfter[Last(h)] \in {"refunded", "failed"}
<1>1. Last(h) = h[Len(h)]
  BY DEF Last
<1>2. CASE h = <<>> /\ Len(h) = 0
  BY <1>2
<1>3. CASE h = <<"payment.initiated", "payment.failed">> /\ Len(h) = 2
  <2>1. n = 2 /\ h[2] = "payment.failed"
    BY <1>3
  <2>2. QED
    BY <1>1, <1>3, <2>1, Statuses DEF Status
<1>4. CASE h = <<"payment.initiated", "payment.processed">> /\ Len(h) = 2
  <2>1. n = 2 /\ h[2] = "payment.processed"
    BY <1>4
  <2>2. QED
    BY <1>1, <1>4, <2>1, Statuses DEF Status
<1>5. CASE h = <<"payment.initiated", "payment.processed", "payment.refunded">> /\ Len(h) = 3
  <2>1. (n = 2 \/ n = 3) /\ h[2] = "payment.processed" /\ h[3] = "payment.refunded" /\ h # <<>>
    BY <1>5
  <2>2. QED
    BY <1>1, <1>5, <2>1, Statuses DEF Status
<1>6. QED
  BY <1>2, <1>3, <1>4, <1>5, HistoryTyped

----------------------------------------------------------------------------
\* What a step makes of one server

Labels == {"idle", "was_processed", "find", "charge", "save", "mark", "load", "replay", "refund"}

Answers == {"none", "ok", "declined", "conflict", "not_found", "invalid", "dropped", "error"}

\* w goes on at l with call c, aggregate a and answer r.
Moves(w, l, c, a, r) ==
    /\ pc' = [pc EXCEPT ![w] = l] /\ call' = [call EXCEPT ![w] = c]
    /\ agg' = [agg EXCEPT ![w] = a] /\ answer' = [answer EXCEPT ![w] = r]

LEMMA MovesTo ==
    ASSUME TypeOK, NEW w \in Servers, NEW l, NEW c, NEW a, NEW r, Moves(w, l, c, a, r)
    PROVE  \A u \in Servers : /\ pc'[u] = IF u = w THEN l ELSE pc[u]
                              /\ call'[u] = IF u = w THEN c ELSE call[u]
                              /\ agg'[u] = IF u = w THEN a ELSE agg[u]
                              /\ answer'[u] = IF u = w THEN r ELSE answer[u]
  BY DEF TypeOK, Moves

LEMMA MovesTyped ==
    ASSUME TypeOK, NEW w \in Servers, NEW l \in Labels, NEW c \in Call, NEW a \in Aggregate,
           NEW r \in Answers, Moves(w, l, c, a, r),
           l = "save" => a.id \in PaymentIds /\ a.pending # <<>>
    PROVE  /\ pc' \in [Servers -> Labels] /\ call' \in [Servers -> Call]
           /\ agg' \in [Servers -> Aggregate] /\ answer' \in [Servers -> Answers]
           /\ \A u \in Servers : pc'[u] = "save" => agg'[u].id \in PaymentIds /\ agg'[u].pending # <<>>
<1>1. /\ pc \in [Servers -> Labels] /\ call \in [Servers -> Call]
      /\ agg \in [Servers -> Aggregate] /\ answer \in [Servers -> Answers]
      /\ \A u \in Servers : pc[u] = "save" => agg[u].id \in PaymentIds /\ agg[u].pending # <<>>
  BY DEF TypeOK, Labels, Answers
<1>2. /\ pc' \in [Servers -> Labels] /\ call' \in [Servers -> Call]
      /\ agg' \in [Servers -> Aggregate] /\ answer' \in [Servers -> Answers]
  BY <1>1 DEF Moves
<1>3. QED
  BY <1>1, <1>2, MovesTo

\* A server nothing happened to, when the books are as they were.
LEMMA ServerKept ==
    ASSUME NEW u \in Servers, ServerOK(u),
           pc'[u] = pc[u], call'[u] = call[u], agg'[u] = agg[u], answer'[u] = answer[u],
           UNCHANGED <<db, owner, charged>>
    PROVE  ServerOK(u)'
<1>1. UNCHANGED <<stream, view, owner, charged>>
  BY DEF db
<1>2. HasPayment(call[u].order)' = HasPayment(call[u].order)
  BY <1>1 DEF HasPayment
<1>3. Rebuilt(agg[u], call[u].payment)' = Rebuilt(agg[u], call[u].payment)
  BY <1>1 DEF Rebuilt
<1>4. Refunded(u)' = Refunded(u)
  BY <1>1 DEF Refunded
<1>5. Unsaved(u)' = Unsaved(u)
  BY <1>1 DEF Unsaved
<1>6. Answered(u)' = Answered(u)
  BY <1>1, <1>2 DEF Answered
<1>7. QED
  BY <1>1, <1>2, <1>3, <1>4, <1>5, <1>6 DEF ServerOK

\* Steps that record nothing and charge nobody.
LEMMA QuietStep ==
    ASSUME IInv, NEW w \in Servers, NEW l \in Labels, NEW c \in Call, NEW a \in Aggregate,
           NEW r \in Answers, Moves(w, l, c, a, r), UNCHANGED <<db, owner, charged>>,
           ServerOK(w)', l = "save" => c.op = "refund",
           failures' \in 0..MaxFailures,
           failures' = failures + 1 \/ (failures' = failures /\ ~ Saving(w)),
           processed' \subseteq EventIds, \A e \in processed' : HasPayment(ReadyOrder[e])
    PROVE  IInv'
<1>0. TypeOK /\ OwnIds /\ MoneyInv /\ (\A u \in Servers : ServerOK(u)) /\ w \in Servers
  BY DEF IInv
<1>1. UNCHANGED <<stream, snapshot, view, outbox>> /\ UNCHANGED <<owner, charged>>
  BY DEF db
<1>2. \A u \in Servers : /\ pc'[u] = IF u = w THEN l ELSE pc[u]
                         /\ call'[u] = IF u = w THEN c ELSE call[u]
                         /\ agg'[u] = IF u = w THEN a ELSE agg[u]
                         /\ answer'[u] = IF u = w THEN r ELSE answer[u]
  BY <1>0, MovesTo
<1>3. l = "save" => Refunded(w)'
  BY <1>2 DEF ServerOK
<1>4. l = "save" => a.id = c.payment /\ c.payment \in PaymentIds /\ a.pending # <<>> /\ stream[a.id] # <<>>
  <2> SUFFICES ASSUME l = "save"
               PROVE  a.id = c.payment /\ c.payment \in PaymentIds /\ a.pending # <<>> /\ stream[a.id] # <<>>
    OBVIOUS
  <2>1. /\ a = [id |-> c.payment, status |-> "refunded", version |-> 3,
               pending |-> <<"payment.refunded">>]
        /\ stream[c.payment] \in {<<"payment.initiated", "payment.processed">>,
                 <<"payment.initiated", "payment.processed", "payment.refunded">>}
    BY <1>1, <1>2, <1>3 DEF Refunded
  <2>2. c.payment \in PaymentIds
    BY DEF Call
  <2>3. QED
    BY <2>1, <2>2
<1>5. TypeOK'
  <2>1. /\ pc' \in [Servers -> Labels] /\ call' \in [Servers -> Call]
        /\ agg' \in [Servers -> Aggregate] /\ answer' \in [Servers -> Answers]
        /\ \A u \in Servers : pc'[u] = "save" => agg'[u].id \in PaymentIds /\ agg'[u].pending # <<>>
    BY <1>0, <1>4, MovesTyped
  <2>2. QED
    BY <1>0, <1>1, <2>1 DEF TypeOK, Labels, Answers
<1>6. \A p \in PaymentIds : PaymentOK(p)'
  BY <1>1 DEF IInv, PaymentOK, Rebuilt
<1>7. \A u \in Servers : ServerOK(u)'
  <2> SUFFICES ASSUME NEW u \in Servers
               PROVE  ServerOK(u)'
    OBVIOUS
  <2>1. CASE u = w
    BY <2>1
  <2>2. CASE u # w
    BY <1>0, <1>2, <2>2, ServerKept
  <2>3. QED
    BY <2>1, <2>2
<1>8. OwnIds'
  BY <1>0, <1>2 DEF OwnIds, Saving
<1>9. MoneyInv'
  <2>1. Lost' = Lost /\ charged' = charged
    BY <1>1 DEF Lost
  <2>2. InFlight \subseteq Servers /\ IsFiniteSet(InFlight)
    BY ServersAssumption, FS_Subset DEF InFlight
  <2>3. InFlight' = InFlight \ {w}
    <3>1. w \notin InFlight'
      BY <1>1, <1>2, <1>4 DEF InFlight
    <3>2. \A u \in Servers \ {w} : u \in InFlight' <=> u \in InFlight
      BY <1>1, <1>2 DEF InFlight
    <3>3. InFlight' \subseteq Servers
      BY DEF InFlight
    <3>4. QED
      BY <2>2, <3>1, <3>2, <3>3
  <2>4. w \in InFlight => Saving(w)
    <3> SUFFICES ASSUME w \in InFlight, call[w].op = "refund"
                 PROVE  FALSE
      BY DEF InFlight, Saving
    <3>1. Refunded(w)
      BY <1>0 DEF InFlight, ServerOK
    <3>2. QED
      BY <3>1 DEF InFlight, Refunded
  <2>5. /\ Cardinality(InFlight) \in Nat
        /\ Cardinality(InFlight \ {w}) = IF w \in InFlight THEN Cardinality(InFlight) - 1
                                         ELSE Cardinality(InFlight)
    BY <2>2, FS_RemoveElement, FS_CardinalityType
  <2>6. IsFiniteSet(Lost) /\ Cardinality(Lost) \in Nat /\ failures \in Nat /\ failures' \in Nat
    BY <1>0, FS_Subset, FS_CardinalityType, FailuresAssumption DEF MoneyInv, Lost, TypeOK
  <2>7. Cardinality(InFlight') = Cardinality(InFlight \ {w}) /\ Cardinality(Lost') = Cardinality(Lost)
    BY <2>1, <2>3, Zenon
  <2>8. Cardinality(Lost) <= Cardinality(InFlight) + failures /\ IsFiniteSet(charged)
    BY <1>0 DEF MoneyInv
  <2>9. IsFiniteSet(charged')
    BY <2>1, <2>8
  <2>10. Cardinality(Lost') <= Cardinality(InFlight') + failures'
    <3> DEFINE m == Cardinality(Lost)
               n == Cardinality(InFlight)
    <3>1. m \in Nat /\ n \in Nat /\ m <= n + failures /\ Cardinality(Lost') = m
          /\ Cardinality(InFlight') = IF w \in InFlight THEN n - 1 ELSE n
      BY <2>5, <2>6, <2>7, <2>8
    <3>2. failures' = failures + 1 \/ (failures' = failures /\ w \notin InFlight)
      BY <2>4
    <3> HIDE DEF m, n
    <3>3. m <= (IF w \in InFlight THEN n - 1 ELSE n) + failures'
      <4>1. CASE failures' = failures + 1
        BY <2>6, <3>1, <4>1
      <4>2. CASE failures' = failures /\ w \notin InFlight
        BY <2>6, <3>1, <4>2
      <4>3. QED
        BY <3>2, <4>1, <4>2
    <3>4. QED
      BY <3>1, <3>3
  <2>11. QED
    BY <2>9, <2>10 DEF MoneyInv
<1>10. MarkedInv'
  BY <1>1 DEF MarkedInv, HasPayment
<1>11. QED
  BY <1>5, <1>6, <1>7, <1>8, <1>9, <1>10 DEF IInv

LEMMA EmptyTyped == Empty \in Aggregate /\ Empty.id = NoPayment /\ Empty.version = 0
  BY DEF Empty, Aggregate, Status

LEMMA ServerTyped ==
    ASSUME IInv, NEW w \in Servers
    PROVE  /\ TypeOK /\ pc[w] \in Labels /\ call[w] \in Call /\ agg[w] \in Aggregate
           /\ answer[w] \in Answers /\ ServerOK(w) /\ failures \in 0..MaxFailures
           /\ processed \subseteq EventIds /\ \A e \in processed : HasPayment(ReadyOrder[e])
  BY DEF IInv, TypeOK, Labels, Answers, MarkedInv

LEMMA DoneMoves ==
    ASSUME IInv, NEW w \in Servers, NEW result \in Answers, Done(w, result)
    PROVE  /\ Moves(w, "idle", call[w], Empty, result)
           /\ pc'[w] = "idle" /\ call'[w] = call[w] /\ answer'[w] = result
<1>1. Moves(w, "idle", call[w], Empty, result)
  <2>1. call = [call EXCEPT ![w] = call[w]]
    BY DEF IInv, TypeOK
  <2>2. QED
    BY <2>1 DEF Done, Goto, Moves
<1>2. QED
  BY <1>1, MovesTo DEF IInv

LEMMA GotoMoves ==
    ASSUME IInv, NEW w \in Servers, NEW l, Goto(w, l), UNCHANGED <<call, agg, answer>>
    PROVE  /\ Moves(w, l, call[w], agg[w], answer[w])
           /\ pc'[w] = l /\ call'[w] = call[w] /\ agg'[w] = agg[w] /\ answer'[w] = answer[w]
<1>1. Moves(w, l, call[w], agg[w], answer[w])
  <2>1. /\ call = [call EXCEPT ![w] = call[w]] /\ agg = [agg EXCEPT ![w] = agg[w]]
        /\ answer = [answer EXCEPT ![w] = answer[w]]
    BY DEF IInv, TypeOK
  <2>2. QED
    BY <2>1 DEF Goto, Moves
<1>2. QED
  BY <1>1, MovesTo DEF IInv

\* A call that ends without a change to the books.
LEMMA DoneQuietly ==
    ASSUME IInv, NEW w \in Servers, NEW result \in Answers, Done(w, result),
           UNCHANGED <<db, owner, charged>>, pc[w] # "idle",
           call[w].op = "pay" /\ result \in {"ok", "declined"} => HasPayment(call[w].order),
           call[w].op = "refund" /\ result = "ok" => view[call[w].payment].status = "refunded",
           call[w].op = "refund" /\ result = "conflict" =>
               view[call[w].payment].status \in {"refunded", "failed"},
           failures' \in 0..MaxFailures,
           failures' = failures + 1 \/ (failures' = failures /\ ~ Saving(w)),
           processed' \subseteq EventIds, \A e \in processed' : HasPayment(ReadyOrder[e])
    PROVE  IInv'
<1>1. Moves(w, "idle", call[w], Empty, result)
      /\ pc'[w] = "idle" /\ call'[w] = call[w] /\ answer'[w] = result
  BY DoneMoves
<1>2. HasPayment(call[w].order)' = HasPayment(call[w].order) /\ view' = view
  BY <1>1 DEF HasPayment, db
<1>3. Answered(w)'
  BY <1>1, <1>2 DEF Answered
<1>4. call[w].op = "deliver" => call[w].order = ReadyOrder[call[w].event]
  BY ServerTyped DEF ServerOK
<1>5. ServerOK(w)'
  BY <1>1, <1>3, <1>4 DEF ServerOK
<1>6. "idle" \in Labels /\ "idle" # "save"
  BY DEF Labels
<1>7. QED
  BY <1>1, <1>5, <1>6, ServerTyped, EmptyTyped, QuietStep

LEMMA StartKeeps ==
    ASSUME IInv, NEW w \in Servers, NEW c \in Call, NEW l \in {"was_processed", "find", "load"},
           Start(w, c, l), UNCHANGED processed,
           l = "was_processed" => c.op = "deliver",
           l = "find" => c.op \in {"deliver", "pay"},
           l = "load" => c.op = "refund",
           c.op = "deliver" => c.order = ReadyOrder[c.event]
    PROVE  IInv'
<1>1. Moves(w, l, c, agg[w], "none")
  <2>1. agg = [agg EXCEPT ![w] = agg[w]]
    BY DEF IInv, TypeOK
  <2>2. QED
    BY <2>1 DEF Start, Goto, Moves
<1>2. pc'[w] = l /\ call'[w] = c
  BY <1>1, MovesTo DEF IInv
<1>3. ServerOK(w)'
  BY <1>2 DEF ServerOK
<1>4. /\ UNCHANGED <<db, owner, charged>> /\ failures' = failures /\ ~ Saving(w) /\ processed' = processed
      /\ l # "save" /\ l \in Labels /\ "none" \in Answers
  BY DEF Start, Saving, Labels, Answers
<1>5. QED
  BY <1>1, <1>3, <1>4, ServerTyped, QuietStep

LEMMA CallsStart ==
    ASSUME IInv, NEW w \in Servers,
           (\E e \in EventIds : Deliver(w, e)) \/ (\E o \in HttpOrders : RequestPayment(w, o))
             \/ (\E p \in PaymentIds : RequestRefund(w, p))
    PROVE  IInv'
<1>1. ASSUME NEW e \in EventIds, Deliver(w, e)
      PROVE  IInv'
  <2> DEFINE c == [op |-> "deliver", event |-> e, order |-> ReadyOrder[e]]
  <2>1. c \in Call /\ c.op = "deliver" /\ c.order = ReadyOrder[c.event]
    BY ReadyOrderAssumption DEF Call
  <2>2. CASE Start(w, c, "was_processed")
    <3>1. processed' = processed
      BY <2>2 DEF Start
    <3> HIDE DEF c
    <3>2. QED
      BY <2>1, <2>2, <3>1, StartKeeps
  <2>3. CASE /\ pc[w] = "idle"
             /\ call' = [call EXCEPT ![w] = c]
             /\ answer' = [answer EXCEPT ![w] = "dropped"]
             /\ UNCHANGED <<db, owner, processed, charged, pc, agg, failures>>
    <3> HIDE DEF c
    <3>1. Moves(w, "idle", c, agg[w], "dropped")
      <4>1. agg = [agg EXCEPT ![w] = agg[w]] /\ pc = [pc EXCEPT ![w] = "idle"]
        BY <2>3 DEF IInv, TypeOK
      <4>2. QED
        BY <2>3, <4>1 DEF Moves
    <3>2. pc'[w] = "idle" /\ call'[w] = c
      BY <3>1, MovesTo DEF IInv
    <3>3. ServerOK(w)'
      BY <2>1, <3>2 DEF ServerOK, Answered
    <3>4. /\ "idle" \in Labels /\ "idle" # "save" /\ "dropped" \in Answers /\ ~ Saving(w)
          /\ UNCHANGED <<db, owner, charged>> /\ failures' = failures /\ processed' = processed
      BY <2>3 DEF Labels, Answers, Saving
    <3>5. QED
      BY <2>1, <3>1, <3>3, <3>4, ServerTyped, QuietStep
  <2>4. QED
    BY <1>1, <2>2, <2>3 DEF Deliver
<1>2. ASSUME NEW o \in HttpOrders, RequestPayment(w, o)
      PROVE  IInv'
  <2> DEFINE c == [op |-> "pay", order |-> o]
  <2>1. c \in Call /\ c.op = "pay"
    BY HttpOrdersAssumption DEF Call
  <2>2. Start(w, c, "find") /\ processed' = processed
    BY <1>2 DEF RequestPayment, Start
  <2> HIDE DEF c
  <2>3. QED
    BY <2>1, <2>2, StartKeeps
<1>3. ASSUME NEW p \in PaymentIds, RequestRefund(w, p)
      PROVE  IInv'
  <2> DEFINE c == [op |-> "refund", payment |-> p]
  <2>1. c \in Call /\ c.op = "refund"
    BY DEF Call
  <2>2. Start(w, c, "load") /\ processed' = processed
    BY <1>3 DEF RequestRefund, Start
  <2> HIDE DEF c
  <2>3. QED
    BY <2>1, <2>2, StartKeeps
<1>4. QED
  BY <1>1, <1>2, <1>3

\* A step of a call that changes no books and only decides where to go on.
LEMMA GoesOn ==
    ASSUME IInv, NEW w \in Servers, NEW l \in {"find", "charge"}, Goto(w, l),
           UNCHANGED <<call, agg, answer>>, UNCHANGED <<db, owner, processed, charged, failures>>,
           call[w].op \in {"deliver", "pay"}, pc[w] # "save"
    PROVE  IInv'
<1>1. Moves(w, l, call[w], agg[w], answer[w]) /\ pc'[w] = l /\ call'[w] = call[w]
  BY GotoMoves
<1>2. call[w].op = "deliver" => call[w].order = ReadyOrder[call[w].event]
  BY ServerTyped DEF ServerOK
<1>3. ServerOK(w)'
  BY <1>1, <1>2 DEF ServerOK
<1>4. l \in Labels /\ l # "save" /\ ~ Saving(w)
  BY DEF Labels, Saving
<1>5. QED
  BY <1>1, <1>3, <1>4, ServerTyped, QuietStep

LEMMA WasProcessedKeeps ==
    ASSUME IInv, NEW w \in Servers, WasProcessed(w)
    PROVE  IInv'
<1>0. /\ pc[w] = "was_processed" /\ UNCHANGED <<db, owner, processed, charged, failures>>
      /\ call[w].op = "deliver" /\ ~ Saving(w)
  BY ServerTyped DEF WasProcessed, ServerOK, Saving
<1>1. CASE Done(w, "ok")
  BY <1>0, <1>1, ServerTyped, DoneQuietly DEF Answers
<1>2. CASE Goto(w, "find") /\ UNCHANGED <<call, agg, answer>>
  BY <1>0, <1>2, GoesOn
<1>3. QED
  BY <1>1, <1>2 DEF WasProcessed

LEMMA MarkProcessedKeeps ==
    ASSUME IInv, NEW w \in Servers, MarkProcessed(w)
    PROVE  IInv'
<1>0. /\ pc[w] = "mark" /\ processed' = processed \cup {call[w].event} /\ Done(w, "ok")
      /\ UNCHANGED <<db, owner, charged, failures>>
      /\ call[w].op = "deliver" /\ HasPayment(ReadyOrder[call[w].event]) /\ ~ Saving(w)
  BY ServerTyped DEF MarkProcessed, ServerOK, Saving
<1>1. call[w].event \in EventIds
  BY <1>0, ServerTyped DEF Call
<1>2. processed' \subseteq EventIds /\ \A e \in processed' : HasPayment(ReadyOrder[e])
  BY <1>0, <1>1, ServerTyped
<1>3. QED
  BY <1>0, <1>2, ServerTyped, DoneQuietly DEF Answers

\* ProcessPayment returns to the consumer, which marks the event, or to the caller.
LEMMA ReturnsQuietly ==
    ASSUME IInv, NEW w \in Servers, Return(w, "ok"), pc[w] = "find",
           UNCHANGED <<db, owner, processed, charged, failures>>, HasPayment(call[w].order)
    PROVE  IInv'
<1>0. call[w].op \in {"deliver", "pay"} /\ ~ Saving(w)
      /\ (call[w].op = "deliver" => call[w].order = ReadyOrder[call[w].event])
  BY ServerTyped DEF ServerOK, Saving
<1>1. CASE call[w].op = "deliver"
  <2>1. Moves(w, "mark", call[w], Empty, answer[w])
    <3>1. call = [call EXCEPT ![w] = call[w]] /\ answer = [answer EXCEPT ![w] = answer[w]]
      BY DEF IInv, TypeOK
    <3>2. QED
      BY <1>1, <3>1 DEF Return, Goto, Moves
  <2>2. pc'[w] = "mark" /\ call'[w] = call[w]
    BY <2>1, MovesTo DEF IInv
  <2>3. HasPayment(call[w].order)' = HasPayment(call[w].order)
    BY <2>2 DEF HasPayment, db
  <2>4. ServerOK(w)'
    BY <1>0, <1>1, <2>2, <2>3 DEF ServerOK
  <2>5. "mark" \in Labels /\ "mark" # "save"
    BY DEF Labels
  <2>6. QED
    BY <1>0, <2>1, <2>4, <2>5, ServerTyped, EmptyTyped, QuietStep
<1>2. CASE call[w].op # "deliver"
  <2>1. Done(w, "ok")
    BY <1>2 DEF Return
  <2>2. QED
    BY <1>0, <2>1, ServerTyped, DoneQuietly DEF Answers
<1>3. QED
  BY <1>1, <1>2

LEMMA FindKeeps ==
    ASSUME IInv, NEW w \in Servers, FindByOrderID(w)
    PROVE  IInv'
<1>0. /\ pc[w] = "find" /\ UNCHANGED <<db, owner, processed, charged, failures>>
      /\ call[w].op \in {"deliver", "pay"}
  BY ServerTyped DEF FindByOrderID, ServerOK
<1>1. CASE HasPayment(call[w].order) /\ Return(w, "ok")
  BY <1>0, <1>1, ReturnsQuietly
<1>2. CASE Goto(w, "charge") /\ UNCHANGED <<call, agg, answer>>
  BY <1>0, <1>2, GoesOn
<1>3. QED
  BY <1>1, <1>2 DEF FindByOrderID

LEMMA LoadSnapshotKeeps ==
    ASSUME IInv, NEW w \in Servers, LoadSnapshot(w)
    PROVE  IInv'
<1> DEFINE p == call[w].payment
           a == snapshot[p]
<1>0. /\ pc[w] = "load" /\ UNCHANGED <<db, owner, processed, charged, call, answer, failures>>
      /\ pc' = [pc EXCEPT ![w] = "replay"] /\ agg' = [agg EXCEPT ![w] = a]
      /\ call[w].op = "refund" /\ ~ Saving(w)
  BY ServerTyped DEF LoadSnapshot, ServerOK, Goto, Saving
<1>1. p \in PaymentIds
  BY <1>0, ServerTyped DEF Call
<1>2. a \in Aggregate /\ (a = Empty \/ Rebuilt(a, p))
  BY <1>1 DEF IInv, TypeOK, PaymentOK
<1>3. Moves(w, "replay", call[w], a, answer[w])
  <2>1. call = [call EXCEPT ![w] = call[w]] /\ answer = [answer EXCEPT ![w] = answer[w]]
    BY DEF IInv, TypeOK
  <2>2. QED
    BY <1>0, <2>1 DEF Moves
<1>4. pc'[w] = "replay" /\ call'[w] = call[w] /\ agg'[w] = a
  BY <1>3, MovesTo DEF IInv
<1>5. agg'[w] = Empty \/ Rebuilt(agg[w], call[w].payment)'
  <2>1. stream' = stream
    BY <1>0 DEF db
  <2>2. QED
    BY <1>2, <1>4, <2>1 DEF Rebuilt
<1>6. ServerOK(w)'
  BY <1>0, <1>4, <1>5 DEF ServerOK
<1>7. "replay" \in Labels /\ "replay" # "save"
  BY DEF Labels
<1> HIDE DEF a
<1>8. QED
  BY <1>0, <1>2, <1>3, <1>6, <1>7, ServerTyped, QuietStep

\* Load: the snapshot and the events after it make a state the payment was in, even if the
\* payment changed between the two queries.
LEMMA ReplayRebuilds ==
    ASSUME NEW p \in PaymentIds, stream[p] \in Histories, NEW s \in Aggregate,
           s = Empty \/ Rebuilt(s, p), Replay(s, p, History(p, s.version)).id # NoPayment
    PROVE  Rebuilt(Replay(s, p, History(p, s.version)), p)
           /\ Replay(s, p, History(p, s.version)) \in Aggregate
<1> DEFINE n == Len(stream[p])
           v == s.version
           h == History(p, v)
           a == Replay(s, p, h)
<1>0. /\ stream[p] \in Seq(EventType) /\ n \in {0, 2, 3} /\ v \in Nat /\ v <= n
      /\ \A i \in 1..n : stream[p][i] \in EventType
  <2>1. stream[p] \in Seq(EventType) /\ n \in {0, 2, 3} /\ \A i \in 1..n : stream[p][i] \in EventType
    BY HistoryTyped
  <2>2. v \in Nat /\ v <= n
    BY <2>1, EmptyTyped DEF Rebuilt, Aggregate
  <2>3. QED
    BY <2>1, <2>2
<1>1. /\ h \in Seq(EventType) /\ Len(h) = n - v
      /\ \A i \in 1..(n - v) : h[i] = stream[p][v + i]
  <2>1. h = SubSeq(stream[p], v + 1, n)
    BY DEF History
  <2>2. v + 1 \in 1..(n + 1) /\ n \in 0..n /\ v + 1 \in Int /\ n \in Int
    BY <1>0
  <2> HIDE DEF n, v, h
  <2>3. \A i \in (v + 1)..n : stream[p][i] \in EventType
    BY <1>0
  <2>4. /\ SubSeq(stream[p], v + 1, n) \in Seq(EventType)
        /\ Len(SubSeq(stream[p], v + 1, n)) = IF v + 1 <= n THEN n - (v + 1) + 1 ELSE 0
        /\ \A i \in 1 .. (n - (v + 1) + 1) : SubSeq(stream[p], v + 1, n)[i] = stream[p][v + 1 + i - 1]
    BY <1>0, <2>2, <2>3, SubSeqProperties
  <2>5. Len(h) = n - v
    BY <1>0, <2>1, <2>4
  <2>6. n - (v + 1) + 1 = n - v /\ \A i \in 1..(n - v) : v + 1 + i - 1 = v + i
    BY <1>0
  <2>7. QED
    BY <2>1, <2>4, <2>5, <2>6
<1>2. CASE h = <<>>
  <2>1. a = [s EXCEPT !.pending = <<>>]
    BY <1>2 DEF Replay
  <2>2. a.id = s.id /\ a.status = s.status /\ a.version = s.version /\ a.pending = <<>>
        /\ a \in Aggregate
    <3>1. <<>> \in Seq(EventType)
      OBVIOUS
    <3>2. QED
      BY <2>1, <3>1 DEF Aggregate
  <2>3. s # Empty
    BY <2>2, EmptyTyped
  <2>4. QED
    BY <2>2, <2>3 DEF Rebuilt
<1>3. CASE h # <<>>
  <2>1. a = [id |-> p, status |-> StatusAfter[Last(h)], version |-> v + Len(h), pending |-> <<>>]
    BY <1>3 DEF Replay
  <2> HIDE DEF n, v, h, a
  <2>2. Len(h) > 0 /\ Len(h) = n - v
    BY <1>1, <1>3, EmptySeq
  <2>3. n - v \in 1..(n - v) /\ v + (n - v) = n /\ v + Len(h) = n
    BY <1>0, <2>2
  <2>4. Last(h) = stream[p][n]
    BY <1>1, <2>2, <2>3 DEF Last
  <2>5. n \in 2..n /\ StatusAfter[stream[p][n]] \in Status /\ n \in Nat
    BY <1>0, <2>2, <2>3, Statuses
  <2>6. a.id = p /\ a.pending = <<>> /\ a.version = n /\ a.status = StatusAfter[stream[p][n]]
    BY <2>1, <2>3, <2>4
  <2>7. a \in Aggregate
    <3>1. <<>> \in Seq(EventType)
      OBVIOUS
    <3>2. QED
      BY <2>1, <2>3, <2>4, <2>5, <3>1 DEF Aggregate
  <2>8. Rebuilt(a, p)
    BY <2>5, <2>6 DEF Rebuilt, n
  <2>9. QED
    BY <2>7, <2>8 DEF a, h, v
<1>4. QED
  BY <1>2, <1>3

LEMMA LoadEventsKeeps ==
    ASSUME IInv, NEW w \in Servers, LoadEvents(w)
    PROVE  IInv'
<1> DEFINE p == call[w].payment
           a == Replay(agg[w], p, History(p, agg[w].version))
<1>0. /\ pc[w] = "replay" /\ UNCHANGED <<db, owner, processed, charged, failures>>
      /\ call[w].op = "refund" /\ ~ Saving(w) /\ (agg[w] = Empty \/ Rebuilt(agg[w], p))
  BY ServerTyped DEF LoadEvents, ServerOK, Saving
<1>1. p \in PaymentIds
  BY <1>0, ServerTyped DEF Call
<1>2. CASE Done(w, "not_found")
  BY <1>0, <1>2, ServerTyped, DoneQuietly DEF Answers
<1>3. CASE /\ a.id # NoPayment /\ agg' = [agg EXCEPT ![w] = a]
           /\ Goto(w, "refund") /\ UNCHANGED <<call, answer>>
  <2>1. Rebuilt(a, p) /\ a \in Aggregate
    BY <1>0, <1>1, <1>3, ServerTyped, ReplayRebuilds DEF IInv, PaymentOK
  <2>2. Moves(w, "refund", call[w], a, answer[w])
    <3>1. call = [call EXCEPT ![w] = call[w]] /\ answer = [answer EXCEPT ![w] = answer[w]]
      BY DEF IInv, TypeOK
    <3>2. QED
      BY <1>3, <3>1 DEF Moves, Goto
  <2> HIDE DEF a
  <2>3. pc'[w] = "refund" /\ call'[w] = call[w] /\ agg'[w] = a
    BY <2>2, MovesTo DEF IInv
  <2>4. Rebuilt(agg[w], call[w].payment)'
    <3>1. stream' = stream
      BY <1>0 DEF db
    <3>2. QED
      BY <2>1, <2>3, <3>1 DEF Rebuilt
  <2>5. ServerOK(w)'
    BY <1>0, <2>3, <2>4 DEF ServerOK
  <2>6. "refund" \in Labels /\ "refund" # "save"
    BY DEF Labels
  <2>7. QED
    BY <1>0, <2>1, <2>2, <2>5, <2>6, ServerTyped, QuietStep
<1>4. QED
  BY <1>2, <1>3 DEF LoadEvents

LEMMA Applied ==
    ASSUME NEW a \in Aggregate, NEW type \in EventType
    PROVE  /\ Apply(a, type) \in Aggregate
           /\ Apply(a, type).id = a.id /\ Apply(a, type).status = StatusAfter[type]
           /\ Apply(a, type).version = a.version + 1 /\ Apply(a, type).pending = Append(a.pending, type)
<1> DEFINE b == [a EXCEPT !.status = StatusAfter[type]]
           c == [b EXCEPT !.version = a.version + 1]
           q == Append(a.pending, type)
           d == [c EXCEPT !.pending = q]
<1>1. /\ StatusAfter[type] \in Status /\ Append(a.pending, type) \in Seq(EventType)
      /\ a.version + 1 \in Nat
  BY Statuses DEF Aggregate
<1>2. b \in Aggregate /\ b.id = a.id /\ b.status = StatusAfter[type]
  BY <1>1 DEF Aggregate
<1>3. Apply(a, type) = d
  BY DEF Apply
<1> HIDE DEF b
<1>4. c \in Aggregate /\ c.id = a.id /\ c.status = StatusAfter[type] /\ c.version = a.version + 1
  BY <1>1, <1>2 DEF Aggregate
<1> HIDE DEF c
<1>5. q \in Seq(EventType)
  BY <1>1
<1> HIDE DEF q
<1>6. d \in Aggregate /\ d.id = c.id /\ d.status = c.status /\ d.version = c.version /\ d.pending = q
  BY <1>4, <1>5 DEF Aggregate
<1> HIDE DEF d
<1>7. QED
  BY <1>3, <1>4, <1>6 DEF q

LEMMA RefundKeeps ==
    ASSUME IInv, NEW w \in Servers, Refund(w)
    PROVE  IInv'
<1> DEFINE p == call[w].payment
           h == stream[p]
<1>0. /\ pc[w] = "refund" /\ UNCHANGED <<db, owner, processed, charged, failures>>
      /\ call[w].op = "refund" /\ ~ Saving(w) /\ Rebuilt(agg[w], p)
  BY ServerTyped DEF Refund, ServerOK, Saving
<1>1. p \in PaymentIds
  BY <1>0, ServerTyped DEF Call
<1>2. h \in Histories /\ view[p].status = IF h = <<>> THEN "none" ELSE StatusAfter[Last(h)]
  <2>1. PaymentOK(p)
    BY <1>1 DEF IInv
  <2>2. QED
    BY <2>1 DEF PaymentOK
<1>3. agg[w].version \in 2..Len(h) /\ agg[w].status = StatusAfter[h[agg[w].version]]
  BY <1>0 DEF Rebuilt
<1>4. /\ h # <<>>
      /\ agg[w].status = "completed" => agg[w].version = 2 /\ h[2] = "payment.processed"
      /\ agg[w].status # "completed" => StatusAfter[Last(h)] \in {"refunded", "failed"}
  BY <1>2, <1>3, RebuiltStatus
<1>5. CASE agg[w].status # "completed" /\ Done(w, "conflict")
  <2>1. view[p].status \in {"refunded", "failed"}
    BY <1>2, <1>4, <1>5
  <2>2. QED
    BY <1>0, <1>5, <2>1, ServerTyped, DoneQuietly DEF Answers
<1>6. CASE /\ agg[w].status = "completed" /\ agg' = [agg EXCEPT ![w] = Apply(@, "payment.refunded")]
           /\ Goto(w, "save") /\ UNCHANGED <<call, answer>>
  <2> DEFINE a == [id |-> p, status |-> "refunded", version |-> 3, pending |-> <<"payment.refunded">>]
  <2>1. Apply(agg[w], "payment.refunded") = a
    <3>1. agg[w] = [id |-> p, status |-> "completed", version |-> 2, pending |-> <<>>]
      BY <1>0, <1>4, <1>6, ServerTyped DEF Rebuilt, Aggregate
    <3>2. Append(<<>>, "payment.refunded") = <<"payment.refunded">> /\ "payment.refunded" \in EventType
      BY DEF EventType
    <3> DEFINE b == Apply(agg[w], "payment.refunded")
    <3>3. b \in Aggregate /\ b.id = p /\ b.status = "refunded" /\ b.version = 2 + 1
          /\ b.pending = Append(<<>>, "payment.refunded")
      BY <3>1, <3>2, ServerTyped, Statuses, Applied
    <3> HIDE DEF b
    <3>4. b.version = 3 /\ b.pending = <<"payment.refunded">>
      BY <3>2, <3>3
    <3>5. b = a
      BY <3>3, <3>4 DEF Aggregate
    <3>6. QED
      BY <3>5 DEF b
  <2>2. a \in Aggregate
    BY <1>1 DEF Aggregate, Status, EventType
  <2>3. agg' = [agg EXCEPT ![w] = a]
    BY <1>6, <2>1, ServerTyped DEF TypeOK
  <2>4. Moves(w, "save", call[w], a, answer[w])
    <3>1. call = [call EXCEPT ![w] = call[w]] /\ answer = [answer EXCEPT ![w] = answer[w]]
      BY DEF IInv, TypeOK
    <3>2. QED
      BY <1>6, <2>3, <3>1 DEF Moves, Goto
  <2>5. h \in {<<"payment.initiated", "payment.processed">>,
               <<"payment.initiated", "payment.processed", "payment.refunded">>}
    <3>1. h # <<"payment.initiated", "payment.failed">>
      BY <1>4, <1>6
    <3>2. QED
      BY <1>2, <1>4, <3>1 DEF Histories
  <2>6. pc'[w] = "save" /\ call'[w] = call[w] /\ agg'[w] = a
    BY <2>4, MovesTo DEF IInv
  <2>7. Refunded(w)'
    <3>1. stream' = stream
      BY <1>0 DEF db
    <3>2. QED
      BY <2>5, <2>6, <3>1 DEF Refunded
  <2>8. ServerOK(w)'
    BY <1>0, <2>6, <2>7 DEF ServerOK
  <2>9. "save" \in Labels
    BY DEF Labels
  <2> HIDE DEF a
  <2>10. QED
    BY <1>0, <2>2, <2>4, <2>8, <2>9, ServerTyped, QuietStep
<1>7. QED
  BY <1>5, <1>6 DEF Refund

LEMMA FailKeeps ==
    ASSUME IInv, NEW w \in Servers, Fail(w)
    PROVE  IInv'
<1>1. /\ pc[w] # "idle" /\ failures < MaxFailures /\ failures' = failures + 1 /\ Done(w, "error")
      /\ UNCHANGED <<db, owner, processed, charged>>
  BY DEF Fail
<1>2. failures' \in 0..MaxFailures
  BY <1>1, ServerTyped, FailuresAssumption
<1>3. "error" \in Answers
  BY DEF Answers
<1>4. QED
  BY <1>1, <1>2, <1>3, ServerTyped, DoneQuietly

LEMMA Appended ==
    ASSUME NEW x \in EventType, NEW y \in EventType
    PROVE  Append(<<x>>, y) = <<x, y>>
<1>1. <<x>> \in Seq(EventType) /\ Len(<<x>>) = 1 /\ <<x>>[1] = x
  OBVIOUS
<1>2. <<x, y>> \in Seq(EventType) /\ Len(<<x, y>>) = 2 /\ <<x, y>>[1] = x /\ <<x, y>>[2] = y
  OBVIOUS
<1> DEFINE s == <<x>>
           t == <<x, y>>
           u == Append(s, y)
<1> HIDE DEF s, t
<1>3. u \in Seq(EventType) /\ Len(u) = 2 /\ u[1] = x /\ u[2] = y
  BY <1>1, AppendProperties DEF s
<1> HIDE DEF u
<1>4. \A i \in 1..2 : u[i] = t[i]
  BY <1>2, <1>3 DEF t
<1>5. u = t
  BY <1>2, <1>3, <1>4, SeqEqual DEF t
<1>6. QED
  BY <1>5 DEF s, t, u

LEMMA Initiated ==
    ASSUME NEW p \in PaymentIds, NEW result \in {"payment.processed", "payment.failed"}
    PROVE  Apply(Apply([Empty EXCEPT !.id = p], "payment.initiated"), result) =
             [id |-> p, status |-> StatusAfter[result], version |-> 2,
              pending |-> <<"payment.initiated", result>>]
<1> SUFFICES ASSUME NEW e, e = Empty
             PROVE  Apply(Apply([e EXCEPT !.id = p], "payment.initiated"), result) =
                      [id |-> p, status |-> StatusAfter[result], version |-> 2,
                       pending |-> <<"payment.initiated", result>>]
  BY Zenon
<1> DEFINE a == [e EXCEPT !.id = p]
           b == Apply(a, "payment.initiated")
<1>0. "payment.initiated" \in EventType /\ result \in EventType
  BY DEF EventType
<1>1. e \in Aggregate /\ e.version = 0 /\ e.pending = <<>>
  BY EmptyTyped DEF Empty
<1>2. a \in Aggregate /\ a.id = p /\ a.version = 0 /\ a.pending = <<>>
  BY <1>1 DEF Aggregate
<1> HIDE DEF a
<1>3. b \in Aggregate /\ b.id = p /\ b.version = 1 /\ b.pending = <<"payment.initiated">>
  <2>1. Append(<<>>, "payment.initiated") = <<"payment.initiated">>
    OBVIOUS
  <2>2. b \in Aggregate /\ b.id = p /\ b.version = 0 + 1 /\ b.pending = Append(<<>>, "payment.initiated")
    BY <1>0, <1>2, Applied
  <2>3. QED
    BY <2>1, <2>2
<1> HIDE DEF b
<1>4. Apply(b, result) = [id |-> p, status |-> StatusAfter[result], version |-> 2,
                          pending |-> <<"payment.initiated", result>>]
  <2>1. Append(<<"payment.initiated">>, result) = <<"payment.initiated", result>>
    BY <1>0, Appended
  <2> DEFINE c == Apply(b, result)
  <2>2. /\ c \in Aggregate /\ c.id = b.id /\ c.status = StatusAfter[result]
        /\ c.version = b.version + 1 /\ c.pending = Append(b.pending, result)
    BY <1>0, <1>3, Applied
  <2> HIDE DEF c
  <2>3. c.pending = <<"payment.initiated", result>>
    BY <1>3, <2>1, <2>2, Zenon
  <2>4. c \in Aggregate /\ c.id = p /\ c.status = StatusAfter[result] /\ c.version = 2
    <3>1. b.id = p /\ b.version = 1
      BY <1>3
    <3>2. c \in Aggregate /\ c.id = b.id /\ c.status = StatusAfter[result] /\ c.version = b.version + 1
      BY <2>2
    <3>3. QED
      BY <3>1, <3>2
  <2>5. c = [id |-> p, status |-> StatusAfter[result], version |-> 2,
             pending |-> <<"payment.initiated", result>>]
    BY <2>3, <2>4 DEF Aggregate
  <2>6. QED
    BY <2>5 DEF c
<1>5. QED
  BY <1>4 DEF a, b

----------------------------------------------------------------------------
\* The amount is refused, or the gateway answers, under an id that nobody used before

LEMMA RejectKeeps ==
    ASSUME IInv, NEW w \in Servers, InitiateRejects(w)
    PROVE  IInv'
<1>1. /\ pc[w] = "charge" /\ Done(w, "invalid") /\ "invalid" \in Answers
      /\ UNCHANGED <<db, owner, processed, charged, failures>> /\ ~ Saving(w)
  BY DEF InitiateRejects, Answers, Saving
<1>2. QED
  BY <1>1, ServerTyped, DoneQuietly

LEMMA ChargeKeeps ==
    ASSUME IInv, NEW w \in Servers, Charge(w)
    PROVE  IInv'
<1>0. PICK p \in PaymentIds, result \in {"payment.processed", "payment.failed"} :
          /\ owner[p] = NoOrder
          /\ owner' = [owner EXCEPT ![p] = call[w].order]
          /\ charged' = IF result = "payment.processed" THEN charged \cup {p} ELSE charged
          /\ agg' = [agg EXCEPT ![w] =
                        Apply(Apply([Empty EXCEPT !.id = p], "payment.initiated"), result)]
  BY DEF Charge
<1>1. /\ pc[w] = "charge" /\ pc' = [pc EXCEPT ![w] = "save"]
      /\ UNCHANGED <<stream, snapshot, view, outbox>> /\ UNCHANGED <<processed, call, answer, failures>>
      /\ call[w].op \in {"deliver", "pay"}
      /\ call[w].op = "deliver" => call[w].order = ReadyOrder[call[w].event]
  BY ServerTyped DEF Charge, Goto, db, ServerOK
<1> DEFINE a == [id |-> p, status |-> StatusAfter[result], version |-> 2,
                 pending |-> <<"payment.initiated", result>>]
<1>2. Apply(Apply([Empty EXCEPT !.id = p], "payment.initiated"), result) = a
  BY Initiated, Zenon DEF a
<1>3. a \in Aggregate /\ a.pending # <<>>
  BY Statuses DEF Aggregate, EventType
<1>4. Moves(w, "save", call[w], a, answer[w])
  <2>1. /\ call' = [call EXCEPT ![w] = call[w]] /\ answer' = [answer EXCEPT ![w] = answer[w]]
    BY <1>1 DEF IInv, TypeOK
  <2>2. agg' = [agg EXCEPT ![w] = a]
    BY <1>0, <1>2
  <2>3. QED
    BY <1>1, <2>1, <2>2 DEF Moves
<1> HIDE DEF a
<1>5. \A u \in Servers : /\ pc'[u] = IF u = w THEN "save" ELSE pc[u]
                         /\ call'[u] = IF u = w THEN call[w] ELSE call[u]
                         /\ agg'[u] = IF u = w THEN a ELSE agg[u]
                         /\ answer'[u] = IF u = w THEN answer[w] ELSE answer[u]
  BY <1>4, MovesTo DEF IInv
\* The id is new: no order has it, no stream is its, and no money was taken under it.
<1>6. /\ stream[p] = <<>> /\ p \notin charged
      /\ \A u \in Servers : Saving(u) => agg[u].id # p /\ agg[u].id \in PaymentIds
  <2>1. NoOrder \notin Orders
    BY NoneAssumption
  <2>2. stream[p] = <<>> /\ p \notin charged
    BY <1>0, <2>1 DEF IInv, PaymentOK
  <2>3. ASSUME NEW u \in Servers, Saving(u)
        PROVE  agg[u].id # p /\ agg[u].id \in PaymentIds
    <3>1. Unsaved(u) /\ call[u].op \in {"deliver", "pay"} /\ call[u] \in Call
      BY <2>3, ServerTyped DEF Saving, ServerOK
    <3>2. call[u].order \in Orders
      BY <3>1 DEF Call
    <3>3. QED
      BY <1>0, <2>1, <3>1, <3>2 DEF Unsaved
  <2>4. QED
    BY <2>2, <2>3
<1>7. call[w].order \in Orders
  BY <1>1, ServerTyped DEF Call
<1>8. \A q \in PaymentIds : owner'[q] = IF q = p THEN call[w].order ELSE owner[q]
  BY <1>0, ServerTyped DEF TypeOK
<1>9. \A q \in PaymentIds : q # p => (q \in charged' <=> q \in charged)
  BY <1>0
<1>10. p \in charged' <=> result = "payment.processed"
  BY <1>0, <1>6
<1>11. \A o : HasPayment(o) => HasPayment(o)'
  <2> SUFFICES ASSUME NEW o, HasPayment(o)
               PROVE  HasPayment(o)'
    OBVIOUS
  <2>1. PICK q \in PaymentIds : owner[q] = o /\ stream[q] # <<>>
    BY DEF HasPayment
  <2>2. q # p
    BY <1>6, <2>1
  <2>3. QED
    BY <1>1, <1>8, <2>1, <2>2 DEF HasPayment
<1>12. TypeOK'
  <2>1. /\ pc' \in [Servers -> Labels] /\ call' \in [Servers -> Call]
        /\ agg' \in [Servers -> Aggregate] /\ answer' \in [Servers -> Answers]
        /\ \A u \in Servers : pc'[u] = "save" => agg'[u].id \in PaymentIds /\ agg'[u].pending # <<>>
    <3>1. a.id \in PaymentIds /\ "save" \in Labels
      BY DEF a, Labels
    <3>2. QED
      BY <1>3, <1>4, <3>1, ServerTyped, MovesTyped
  <2>2. owner' \in [PaymentIds -> Orders \cup {NoOrder}] /\ charged' \subseteq PaymentIds
    BY <1>0, <1>7, ServerTyped DEF TypeOK
  <2>3. QED
    BY <1>1, <2>1, <2>2, ServerTyped DEF TypeOK, Labels, Answers
<1>13. \A q \in PaymentIds : PaymentOK(q)'
  <2> SUFFICES ASSUME NEW q \in PaymentIds
               PROVE  PaymentOK(q)'
    OBVIOUS
  <2>1. PaymentOK(q)
    BY DEF IInv
  <2>2. Rebuilt(snapshot[q], q)' = Rebuilt(snapshot[q], q)
    BY <1>1 DEF Rebuilt
  <2>3. CASE q = p
    BY <1>1, <1>6, <1>7, <1>8, <2>1, <2>2, <2>3 DEF PaymentOK
  <2>4. CASE q # p
    BY <1>1, <1>8, <1>9, <2>1, <2>2, <2>4 DEF PaymentOK
  <2>5. QED
    BY <2>3, <2>4
<1>14. \A u \in Servers : ServerOK(u)'
  <2> SUFFICES ASSUME NEW u \in Servers
               PROVE  ServerOK(u)'
    OBVIOUS
  <2>1. CASE u = w
    <3>1. pc'[u] = "save" /\ call'[u] = call[w] /\ agg'[u] = a
      BY <1>5, <2>1
    <3>2. Unsaved(u)'
      BY <1>1, <1>6, <1>8, <1>10, <3>1 DEF Unsaved, a
    <3>3. QED
      BY <1>1, <3>1, <3>2 DEF ServerOK
  <2>2. CASE u # w
    <3>1. pc'[u] = pc[u] /\ call'[u] = call[u] /\ agg'[u] = agg[u] /\ answer'[u] = answer[u] /\ ServerOK(u)
      BY <1>5, <2>2 DEF IInv
    <3>2. Rebuilt(agg[u], call[u].payment)' = Rebuilt(agg[u], call[u].payment)
      BY <1>1, <3>1 DEF Rebuilt
    <3>3. Refunded(u)' = Refunded(u)
      BY <1>1, <3>1 DEF Refunded
    <3>4. Saving(u) /\ Unsaved(u) => Unsaved(u)'
      <4> SUFFICES ASSUME Saving(u), Unsaved(u)
                   PROVE  Unsaved(u)'
        OBVIOUS
      <4>1. agg[u].id # p /\ agg[u].id \in PaymentIds
        BY <1>6
      <4>2. owner'[agg[u].id] = owner[agg[u].id] /\ (agg[u].id \in charged' <=> agg[u].id \in charged)
        BY <1>8, <1>9, <4>1
      <4>3. QED
        BY <1>1, <3>1, <4>2 DEF Unsaved
    <3>5. HasPayment(call[u].order) => HasPayment(call[u].order)'
      BY <1>11, <3>1
    <3>6. Answered(u) => Answered(u)'
      BY <1>1, <3>1, <3>5 DEF Answered
    <3>7. QED
      BY <3>1, <3>2, <3>3, <3>4, <3>5, <3>6 DEF ServerOK, Saving
  <2>3. QED
    BY <2>1, <2>2
<1>15. OwnIds'
  <2> SUFFICES ASSUME NEW u \in Servers, NEW v \in Servers, u # v, Saving(u)', Saving(v)'
               PROVE  agg'[u].id # agg'[v].id
    BY DEF OwnIds
  <2>1. a.id = p
    BY DEF a
  <2>2. \A x \in Servers : x # w => (Saving(x)' = Saving(x))
    BY <1>5 DEF Saving
  <2>3. CASE u = w
    BY <1>5, <1>6, <2>1, <2>2, <2>3
  <2>4. CASE v = w
    BY <1>5, <1>6, <2>1, <2>2, <2>4
  <2>5. CASE u # w /\ v # w
    BY <1>5, <2>2, <2>5 DEF OwnIds, IInv
  <2>6. QED
    BY <2>3, <2>4, <2>5
<1>16. MoneyInv'
  <2>1. MoneyInv /\ IsFiniteSet(charged) /\ failures' = failures
    BY <1>1 DEF IInv, MoneyInv
  <2>2. IsFiniteSet(charged')
    BY <1>0, <2>1, FS_AddElement
  <2>3. /\ IsFiniteSet(Lost) /\ Cardinality(Lost) \in Nat
        /\ IsFiniteSet(InFlight) /\ Cardinality(InFlight) \in Nat /\ failures \in Nat
    <3>1. Lost \subseteq charged /\ InFlight \subseteq Servers
      BY DEF Lost, InFlight
    <3>2. QED
      BY <2>1, <3>1, ServersAssumption, ServerTyped, FailuresAssumption, FS_Subset, FS_CardinalityType
  <2>4. w \notin InFlight /\ p \notin Lost
    BY <1>1, <1>6 DEF InFlight, Lost
  <2>5. \A u \in Servers \ {w} : u \in InFlight' <=> u \in InFlight
    <3> SUFFICES ASSUME NEW u \in Servers \ {w}
                 PROVE  u \in InFlight' <=> u \in InFlight
      OBVIOUS
    <3>1. pc'[u] = pc[u] /\ agg'[u] = agg[u]
      BY <1>5
    <3>2. CASE pc[u] = "save"
      <4>1. agg[u].id \in PaymentIds
        BY <3>2, ServerTyped DEF TypeOK
      <4>2. stream[agg[u].id] = <<>> => agg[u].id # p
        <5> SUFFICES ASSUME stream[agg[u].id] = <<>>
                     PROVE  agg[u].id # p
          OBVIOUS
        <5>1. ~ Refunded(u) \/ agg[u].id # call[u].payment
          BY DEF Refunded
        <5>2. Refunded(u) => agg[u].id = call[u].payment
          BY DEF Refunded
        <5>3. Saving(u)
          BY <3>2, <5>1, <5>2, ServerTyped DEF ServerOK, Saving
        <5>4. QED
          BY <1>6, <5>3
      <4>3. QED
        BY <1>1, <1>9, <3>1, <4>1, <4>2 DEF InFlight
    <3>3. CASE pc[u] # "save"
      BY <3>1, <3>3 DEF InFlight
    <3>4. QED
      BY <3>2, <3>3
  <2>6. w \in InFlight' <=> result = "payment.processed"
    <3>1. pc'[w] = "save" /\ agg'[w].id = p /\ stream'[p] = <<>>
      BY <1>1, <1>5, <1>6 DEF a
    <3>2. QED
      BY <1>10, <3>1 DEF InFlight
  <2>7. \A q \in PaymentIds \ {p} : q \in Lost' <=> q \in Lost
    BY <1>1, <1>9 DEF Lost
  <2>8. p \in Lost' <=> result = "payment.processed"
    BY <1>1, <1>6, <1>10 DEF Lost
  <2>9. Lost' \subseteq PaymentIds /\ Lost \subseteq PaymentIds /\ InFlight \subseteq Servers /\ InFlight' \subseteq Servers
    BY <1>12, ServerTyped DEF Lost, InFlight, TypeOK
  <2>10. CASE result = "payment.processed"
    <3>1. Lost' = Lost \cup {p} /\ InFlight' = InFlight \cup {w}
      BY <2>4, <2>5, <2>6, <2>7, <2>8, <2>9, <2>10
    <3>2. /\ Cardinality(Lost \cup {p}) = Cardinality(Lost) + 1
          /\ Cardinality(InFlight \cup {w}) = Cardinality(InFlight) + 1
      BY <2>3, <2>4, FS_AddElement
    <3>3. Cardinality(Lost') = Cardinality(Lost) + 1 /\ Cardinality(InFlight') = Cardinality(InFlight) + 1
      BY <3>1, <3>2, Zenon
    <3>4. QED
      BY <2>1, <2>2, <2>3, <3>3 DEF MoneyInv
  <2>11. CASE result # "payment.processed"
    <3>1. Lost' = Lost /\ InFlight' = InFlight
      BY <2>4, <2>5, <2>6, <2>7, <2>8, <2>9, <2>11
    <3>2. QED
      BY <2>1, <2>2, <3>1 DEF MoneyInv
  <2>12. QED
    BY <2>10, <2>11
<1>17. MarkedInv'
  BY <1>1, <1>11 DEF IInv, MarkedInv
<1>18. QED
  BY <1>12, <1>13, <1>14, <1>15, <1>16, <1>17 DEF IInv

----------------------------------------------------------------------------
\* Repository.Save

Extends(h, g) == Len(h) <= Len(g) /\ \A i \in 1..Len(h) : g[i] = h[i]

LEMMA Concatenations ==
    /\ \A x \in EventType, y \in EventType : <<>> \o <<x, y>> = <<x, y>>
    /\ \A x \in EventType, y \in EventType, z \in EventType : <<x, y>> \o <<z>> = <<x, y, z>>
<1>1. ASSUME NEW x \in EventType, NEW y \in EventType
      PROVE  <<>> \o <<x, y>> = <<x, y>>
  <2>1. <<x, y>> \in Seq(EventType)
    OBVIOUS
  <2>2. QED
    BY <2>1, ConcatEmptySeq
<1>2. ASSUME NEW x \in EventType, NEW y \in EventType, NEW z \in EventType
      PROVE  <<x, y>> \o <<z>> = <<x, y, z>>
  <2> DEFINE s == <<x, y>>
             t == <<z>>
             u == <<x, y, z>>
             v == s \o t
  <2>1. s \in Seq(EventType) /\ Len(s) = 2 /\ s[1] = x /\ s[2] = y
    OBVIOUS
  <2>2. t \in Seq(EventType) /\ Len(t) = 1 /\ t[1] = z
    OBVIOUS
  <2>3. u \in Seq(EventType) /\ Len(u) = 3 /\ u[1] = x /\ u[2] = y /\ u[3] = z
    OBVIOUS
  <2> HIDE DEF s, t, u
  <2>4. v \in Seq(EventType) /\ Len(v) = 3 /\ v[1] = x /\ v[2] = y /\ v[3] = z
    <3>1. /\ v \in Seq(EventType) /\ Len(v) = Len(s) + Len(t)
          /\ \A i \in 1..(Len(s) + Len(t)) : v[i] = IF i <= Len(s) THEN s[i] ELSE t[i - Len(s)]
      BY <2>1, <2>2, ConcatProperties, ZenonT(60) DEF v
    <3>2. QED
      BY <2>1, <2>2, <3>1
  <2> HIDE DEF v
  <2>5. v = u
    BY <2>3, <2>4, SeqEqual
  <2>6. QED
    BY <2>5 DEF s, t, u, v
<1>3. QED
  BY <1>1, <1>2

\* What the events of the aggregate make of the stream.
LEMMA InToSet ==
    ASSUME NEW s, NEW n \in {2, 3}, DOMAIN s = 1..n, NEW x
    PROVE  x \in ToSet(s) <=> s[1] = x \/ s[2] = x \/ (n = 3 /\ s[3] = x)
<1>1. x \in ToSet(s) <=> \E i \in DOMAIN s : s[i] = x
  BY Zenon DEF ToSet
<1>2. \A i : i \in DOMAIN s <=> i = 1 \/ i = 2 \/ (n = 3 /\ i = 3)
  OBVIOUS
<1>3. QED
  BY <1>1, <1>2, Zenon

\* Server w brings the stream h of payment p to g.
SavedAs(w, p, h, g) ==
    /\ p \in PaymentIds /\ h \in Histories /\ g \in Histories /\ g # <<>> /\ Extends(h, g)
    /\ agg[w].version = Len(g) /\ agg[w].status = StatusAfter[Last(g)]
    /\ p \in charged <=> "payment.processed" \in ToSet(g)
    /\ owner[p] \in Orders
    /\ Saving(w) => h = <<>> /\ owner[p] = call[w].order
    /\ ~ Saving(w) => h = <<"payment.initiated", "payment.processed">>
                      /\ call[w].op = "refund" /\ call[w].payment = p
                      /\ g = <<"payment.initiated", "payment.processed", "payment.refunded">>

LEMMA SavedStream ==
    ASSUME IInv, NEW w \in Servers, pc[w] = "save", ~ Conflicts(agg[w]),
           NEW p, p = agg[w].id, NEW h, h = stream[p], NEW g, g = h \o agg[w].pending
    PROVE  SavedAs(w, p, h, g)
<1> USE DEF SavedAs
<1>0. /\ p \in PaymentIds /\ agg[w].pending # <<>> /\ ServerOK(w) /\ agg[w] \in Aggregate
      /\ call[w] \in Call
  BY ServerTyped DEF TypeOK
<1>1. PaymentOK(p)
  BY <1>0 DEF IInv
<1>2. h \in Histories
  BY <1>1 DEF PaymentOK
<1>3. CASE Saving(w)
  <2>1. Unsaved(w) /\ call[w].op \in {"deliver", "pay"}
    BY <1>0, <1>3 DEF Saving, ServerOK
  <2>2. PICK result \in {"payment.processed", "payment.failed"} :
          /\ agg[w] = [id |-> p, status |-> StatusAfter[result], version |-> 2,
                       pending |-> <<"payment.initiated", result>>]
          /\ p \in charged <=> result = "payment.processed"
    BY <2>1 DEF Unsaved
  <2>3. h = <<>> /\ owner[p] = call[w].order /\ call[w].order \in Orders
    BY <1>0, <2>1 DEF Unsaved, Call
  <2>4. g = <<"payment.initiated", result>>
    <3>1. "payment.initiated" \in EventType /\ result \in EventType
      BY DEF EventType
    <3>2. agg[w].pending = <<"payment.initiated", result>>
      BY <2>2
    <3>3. <<>> \o <<"payment.initiated", result>> = <<"payment.initiated", result>>
      BY <3>1, Concatenations
    <3>4. QED
      BY <2>3, <3>2, <3>3, Zenon
  <2>5. agg[w].version = 2 /\ agg[w].status = StatusAfter[result]
    BY <2>2
  <2>6. g \in Histories /\ Len(g) = 2 /\ Last(g) = result /\ g # <<>> /\ Len(h) = 0
    <3>1. g \in Histories
      BY <2>4 DEF Histories
    <3>2. Len(g) = 2 /\ g[2] = result /\ g # <<>>
      BY <2>4
    <3>3. QED
      BY <2>3, <3>1, <3>2 DEF Last
  <2>7. "payment.processed" \in ToSet(g) <=> result = "payment.processed"
    <3>1. g[1] = "payment.initiated" /\ g[2] = result /\ DOMAIN g = 1..2
      BY <2>4
    <3>2. "payment.processed" \in ToSet(g) <=> g[1] = "payment.processed" \/ g[2] = "payment.processed"
      BY <3>1, InToSet, ZenonT(60)
    <3>3. QED
      BY <3>1, <3>2
  <2>8. Extends(h, g)
    BY <2>6 DEF Extends
  <2>9. QED
    BY <1>0, <1>2, <1>3, <2>2, <2>3, <2>5, <2>6, <2>7, <2>8
<1>4. CASE ~ Saving(w)
  <2>1. Refunded(w) /\ call[w].op = "refund"
    BY <1>0, <1>4 DEF Saving, ServerOK
  <2>2. /\ agg[w].version = 3 /\ agg[w].status = "refunded" /\ agg[w].pending = <<"payment.refunded">>
        /\ call[w].payment = p
        /\ h \in {<<"payment.initiated", "payment.processed">>,
                  <<"payment.initiated", "payment.processed", "payment.refunded">>}
    BY <2>1 DEF Refunded
  <2>3. h = <<"payment.initiated", "payment.processed">> /\ Len(h) = 2 /\ h # <<>>
    <3>1. Len(<<"payment.refunded">>) = 1 /\ Len(h) \in Nat
      BY <1>2, HistoryTyped
    <3>2. expectedVersion(agg[w]) = 2
      <4>1. Len(agg[w].pending) = 1
        BY <2>2, <3>1
      <4>2. QED
        BY <2>2, <4>1 DEF expectedVersion
    <3>3. Len(h) <= 2
      BY <3>1, <3>2 DEF Conflicts
    <3>4. QED
      BY <2>2, <3>3, SMTT(40)
  <2>4. g = <<"payment.initiated", "payment.processed", "payment.refunded">>
    <3>1. "payment.initiated" \in EventType /\ "payment.processed" \in EventType
          /\ "payment.refunded" \in EventType
      BY DEF EventType
    <3>2. <<"payment.initiated", "payment.processed">> \o <<"payment.refunded">>
            = <<"payment.initiated", "payment.processed", "payment.refunded">>
      BY <3>1, Concatenations
    <3>3. h = <<"payment.initiated", "payment.processed">> /\ agg[w].pending = <<"payment.refunded">>
      BY <2>2, <2>3
    <3>4. QED
      BY <3>2, <3>3, Zenon
  <2>5. g \in Histories /\ Len(g) = 3 /\ Last(g) = "payment.refunded" /\ g # <<>>
    BY <2>4 DEF Histories, Last
  <2>6. g[1] = "payment.initiated" /\ g[2] = "payment.processed" /\ DOMAIN g = 1..3
    BY <2>4
  <2>7. "payment.processed" \in ToSet(g)
    BY <2>6, InToSet
  <2>8. p \in charged /\ owner[p] \in Orders
    <3>1. h[2] = "payment.processed" /\ DOMAIN h = 1..2
      BY <2>3
    <3>2. "payment.processed" \in ToSet(h)
      BY <3>1, InToSet
    <3>3. QED
      BY <1>1, <2>3, <3>2 DEF PaymentOK
  <2>9. Extends(h, g)
    <3>1. h[1] = "payment.initiated" /\ h[2] = "payment.processed"
      BY <2>3
    <3>2. QED
      BY <2>3, <2>5, <2>6, <3>1 DEF Extends
  <2>10. QED
    BY <1>0, <1>2, <1>4, <2>1, <2>2, <2>3, <2>4, <2>5, <2>7, <2>8, <2>9, Statuses
<1>5. QED
  BY <1>3, <1>4

LEMMA SavedHere ==
    ASSUME IInv, NEW w \in Servers, pc[w] = "save", ~ Conflicts(agg[w])
    PROVE  SavedAs(w, agg[w].id, stream[agg[w].id], stream[agg[w].id] \o agg[w].pending)
<1>1. ASSUME NEW p, p = agg[w].id, NEW h, h = stream[p], NEW g, g = h \o agg[w].pending
      PROVE  SavedAs(w, p, h, g)
  BY <1>1, SavedStream, Zenon
<1>2. QED
  BY <1>1, Zenon

\* The transaction, and what the server does when it ended.
LEMMA SaveTxKeeps ==
    ASSUME IInv, NEW w \in Servers, pc[w] = "save", ~ Conflicts(agg[w]), SaveTx(agg[w]),
           NEW l \in {"idle", "mark"}, NEW r \in Answers,
           Moves(w, l, call[w], Empty, r), l = "mark" => call[w].op = "deliver",
           UNCHANGED <<owner, processed, charged>>,
           failures' \in 0..MaxFailures, failures' = failures \/ failures' = failures + 1
    PROVE  IInv'
<1> DEFINE p == agg[w].id
           h == stream[p]
           g == h \o agg[w].pending
<1>1. /\ p \in PaymentIds /\ h \in Histories /\ g \in Histories /\ g # <<>> /\ Extends(h, g)
      /\ agg[w].version = Len(g) /\ agg[w].status = StatusAfter[Last(g)]
      /\ p \in charged <=> "payment.processed" \in ToSet(g)
      /\ owner[p] \in Orders
      /\ Saving(w) => h = <<>> /\ owner[p] = call[w].order
      /\ ~ Saving(w) => h = <<"payment.initiated", "payment.processed">>
                        /\ call[w].op = "refund" /\ call[w].payment = p
                        /\ g = <<"payment.initiated", "payment.processed", "payment.refunded">>
  BY SavedHere DEF SavedAs
<1> DEFINE s == [agg[w] EXCEPT !.pending = <<>>]
<1>2. \A q \in PaymentIds :
          /\ stream'[q] = IF q = p THEN g ELSE stream[q]
          /\ view'[q] = IF q = p THEN [status |-> agg[w].status, version |-> agg[w].version] ELSE view[q]
          /\ outbox'[q] = IF q = p THEN outbox[p] \o agg[w].pending ELSE outbox[q]
          /\ snapshot'[q] = snapshot[q] \/ (q = p /\ snapshot'[q] = s)
  BY <1>1, ServerTyped DEF SaveTx, TypeOK
<1>3. \A u \in Servers : /\ pc'[u] = IF u = w THEN l ELSE pc[u]
                         /\ call'[u] = IF u = w THEN call[w] ELSE call[u]
                         /\ agg'[u] = IF u = w THEN Empty ELSE agg[u]
                         /\ answer'[u] = IF u = w THEN r ELSE answer[u]
  BY MovesTo DEF IInv
<1>4. /\ s \in Aggregate /\ s.id = p /\ s.pending = <<>> /\ s.version = Len(g) /\ s.status = StatusAfter[Last(g)]
      /\ agg[w].version \in Nat /\ agg[w].status \in Status
  <2>1. agg[w] \in Aggregate /\ <<>> \in Seq(EventType)
    BY ServerTyped
  <2>2. s \in Aggregate /\ s.id = agg[w].id /\ s.pending = <<>> /\ s.version = agg[w].version
        /\ s.status = agg[w].status
    BY <2>1 DEF Aggregate
  <2>3. QED
    BY <1>1, <2>1, <2>2 DEF Aggregate
<1>5. /\ g \in Seq(EventType) /\ Len(g) \in {2, 3} /\ \A i \in 1..Len(g) : g[i] \in EventType
      /\ Len(h) \in {0, 2, 3} /\ Last(g) = g[Len(g)]
  BY <1>1, HistoryTyped DEF Last
<1>6. PaymentOK(p) /\ outbox[p] = h
  BY <1>1 DEF IInv, PaymentOK
<1>7. outbox'[p] = g
  BY <1>1, <1>2, <1>6, Zenon
<1> HIDE DEF g, s
\* Streams grow only at their end.
<1>8. \A q \in PaymentIds : /\ stream[q] = <<>> \/ stream'[q] # <<>>
                            /\ q # p => stream'[q] = stream[q]
                            /\ Extends(stream[q], stream'[q])
  <2> SUFFICES ASSUME NEW q \in PaymentIds
               PROVE  /\ stream[q] = <<>> \/ stream'[q] # <<>>
                      /\ q # p => stream'[q] = stream[q]
                      /\ Extends(stream[q], stream'[q])
    OBVIOUS
  <2>1. CASE q = p
    BY <1>1, <1>2, <2>1
  <2>2. CASE q # p
    <3>1. stream[q] \in Histories
      BY DEF IInv, PaymentOK
    <3>2. Len(stream[q]) \in Nat
      BY <3>1, HistoryTyped
    <3>3. QED
      BY <1>2, <2>2, <3>2 DEF Extends
  <2>3. QED
    BY <2>1, <2>2
<1>9. \A o : HasPayment(o) => HasPayment(o)'
  BY <1>8 DEF HasPayment
<1>10. ASSUME NEW a, NEW q \in PaymentIds, Rebuilt(a, q)
       PROVE  /\ a.id = q /\ a.pending = <<>> /\ a.version \in 2..Len(stream'[q])
              /\ a.status = StatusAfter[stream'[q][a.version]]
  <2>1. Extends(stream[q], stream'[q]) /\ stream[q] \in Histories
    BY <1>8 DEF IInv, PaymentOK
  <2>2. stream'[q] \in Histories
    BY <1>1, <1>2 DEF IInv, PaymentOK
  <2>3. Len(stream[q]) \in Nat /\ Len(stream'[q]) \in Nat
    BY <2>1, <2>2, HistoryTyped
  <2>4. QED
    BY <1>10, <2>1, <2>3 DEF Rebuilt, Extends
<1>11. TypeOK'
  <2>1. /\ pc' \in [Servers -> Labels] /\ call' \in [Servers -> Call]
        /\ agg' \in [Servers -> Aggregate] /\ answer' \in [Servers -> Answers]
        /\ \A u \in Servers : pc'[u] = "save" => agg'[u].id \in PaymentIds /\ agg'[u].pending # <<>>
    <3>1. l \in Labels /\ l # "save"
      BY DEF Labels
    <3>2. QED
      BY <3>1, ServerTyped, EmptyTyped, MovesTyped
  <2>2. stream' \in [PaymentIds -> Seq(EventType)]
    <3>1. stream' = [stream EXCEPT ![p] = g]
      BY DEF SaveTx, g
    <3>2. QED
      BY <1>5, <3>1, ServerTyped DEF TypeOK
  <2>3. outbox' \in [PaymentIds -> Seq(EventType)]
    <3>1. outbox' = [outbox EXCEPT ![p] = g]
      BY <1>6, ServerTyped DEF SaveTx, TypeOK, g
    <3>2. QED
      BY <1>5, <3>1, ServerTyped DEF TypeOK
  <2>4. view' \in [PaymentIds -> [status : Status, version : Nat]]
    BY <1>4, ServerTyped DEF SaveTx, TypeOK
  <2>5. snapshot' \in [PaymentIds -> Aggregate]
    BY <1>4, ServerTyped DEF SaveTx, TypeOK, s
  <2>6. QED
    BY <2>1, <2>2, <2>3, <2>4, <2>5, ServerTyped DEF TypeOK, Labels, Answers
<1>12. \A q \in PaymentIds : PaymentOK(q)'
  <2> SUFFICES ASSUME NEW q \in PaymentIds
               PROVE  PaymentOK(q)'
    OBVIOUS
  <2>1. PaymentOK(q)
    BY DEF IInv
  <2> DEFINE n == snapshot'[q]
  <2>2. \/ n = Empty
        \/ /\ n.id = q /\ n.pending = <<>> /\ n.version \in 2..Len(stream'[q])
           /\ n.status = StatusAfter[stream'[q][n.version]]
    <3>1. CASE n = snapshot[q]
      <4>1. n = Empty \/ Rebuilt(n, q)
        BY <2>1, <3>1 DEF PaymentOK
      <4> HIDE DEF n
      <4>2. QED
        BY <4>1, <1>10, Zenon
    <3>2. CASE q = p /\ n = s
      <4>1. stream'[q] = g
        BY <1>2, <3>2
      <4> HIDE DEF n
      <4>2. Len(g) \in 2..Len(g)
        <5>1. \A m \in {2, 3} : m \in 2..m
          OBVIOUS
        <5>2. QED
          BY <1>5, <5>1
      <4>3. QED
        BY <1>4, <1>5, <3>2, <4>1, <4>2
    <3>3. QED
      BY <1>2, <3>1, <3>2
  <2>3. CASE q = p
    <3>1. /\ stream'[q] = g /\ outbox'[q] = g
          /\ view'[q] = [status |-> StatusAfter[Last(g)], version |-> Len(g)]
      BY <1>1, <1>2, <1>7, <2>3
    <3>2. QED
      BY <1>1, <2>2, <2>3, <3>1 DEF PaymentOK, Rebuilt
  <2>4. CASE q # p
    <3>1. stream'[q] = stream[q] /\ outbox'[q] = outbox[q] /\ view'[q] = view[q]
      BY <1>2, <2>4
    <3>2. QED
      BY <2>1, <2>2, <3>1 DEF PaymentOK, Rebuilt
  <2>5. QED
    BY <2>3, <2>4
\* The payment was neither refunded nor failed before.
<1>13. view[p].status \notin {"refunded", "failed"}
  <2>1. CASE h = <<>>
    <3>1. view[p].status = "none"
      BY <1>6, <2>1 DEF PaymentOK
    <3>2. QED
      BY <3>1
  <2>2. CASE h = <<"payment.initiated", "payment.processed">>
    <3>1. Last(h) = "payment.processed" /\ h # <<>>
      BY <2>2 DEF Last
    <3>2. view[p].status = "completed"
      BY <1>6, <3>1, Statuses DEF PaymentOK
    <3>3. QED
      BY <3>2
  <2>3. QED
    BY <1>1, <2>1, <2>2
<1>14. \A u \in Servers : u # w /\ pc[u] = "save" /\ stream[agg[u].id] = <<>> => agg[u].id # p
  <2> SUFFICES ASSUME NEW u \in Servers, u # w, pc[u] = "save", stream[agg[u].id] = <<>>, agg[u].id = p
               PROVE  FALSE
    OBVIOUS
  <2>1. Saving(w)
    <3>1. h = <<>>
      OBVIOUS
    <3>2. <<"payment.initiated", "payment.processed">> # <<>>
      OBVIOUS
    <3>3. QED
      BY <1>1, <3>1, <3>2
  <2>2. ~ Refunded(u)
    BY DEF Refunded
  <2>3. Saving(u)
    BY <2>2, ServerTyped DEF ServerOK, Saving
  <2>4. QED
    BY <2>1, <2>3 DEF IInv, OwnIds
<1>15. ServerOK(w)'
  <2>1. pc'[w] = l /\ call'[w] = call[w] /\ answer'[w] = r
    BY <1>3
  <2>2. call[w].op # "refund" => HasPayment(call[w].order)'
    <3> SUFFICES ASSUME call[w].op # "refund"
                 PROVE  HasPayment(call[w].order)'
      OBVIOUS
    <3>1. owner[p] = call[w].order /\ stream'[p] # <<>>
      BY <1>1, <1>2
    <3>2. owner' = owner
      OBVIOUS
    <3>3. QED
      BY <1>1, <2>1, <3>1, <3>2 DEF HasPayment
  <2>3. call[w].op = "refund" => view'[call[w].payment].status = "refunded"
    <3> SUFFICES ASSUME call[w].op = "refund"
                 PROVE  view'[call[w].payment].status = "refunded"
      OBVIOUS
    <3>1. ~ Saving(w)
      BY DEF Saving
    <3>2. call[w].payment = p /\ g = <<"payment.initiated", "payment.processed", "payment.refunded">>
      BY <1>1, <3>1
    <3>3. Len(g) = 3 /\ g[3] = "payment.refunded"
      BY <3>2
    <3>4. agg[w].status = "refunded"
      BY <1>1, <1>5, <3>3, Statuses
    <3>5. QED
      BY <1>1, <1>2, <3>2, <3>4
  <2>4. Answered(w)'
    BY <2>1, <2>2, <2>3 DEF Answered
  <2>5. call[w].op = "deliver" => call[w].order = ReadyOrder[call[w].event]
    BY ServerTyped DEF ServerOK
  <2>6. QED
    BY <2>1, <2>2, <2>4, <2>5 DEF ServerOK
<1>16. \A u \in Servers : ServerOK(u)'
  <2> SUFFICES ASSUME NEW u \in Servers
               PROVE  ServerOK(u)'
    OBVIOUS
  <2>1. CASE u = w
    BY <1>15, <2>1
  <2>2. CASE u # w
    <3>1. pc'[u] = pc[u] /\ call'[u] = call[u] /\ agg'[u] = agg[u] /\ answer'[u] = answer[u]
          /\ ServerOK(u) /\ call[u] \in Call
      BY <1>3, <2>2, ServerTyped
    <3>2. call[u].op = "refund" => call[u].payment \in PaymentIds
      BY <3>1 DEF Call
    <3>3. call[u].op = "refund" /\ Rebuilt(agg[u], call[u].payment) => Rebuilt(agg[u], call[u].payment)'
      <4> DEFINE a == agg[u]
                 q == call[u].payment
      <4>1. call[u].op = "refund" /\ Rebuilt(a, q) =>
              /\ a.id = q /\ a.pending = <<>> /\ a.version \in 2..Len(stream'[q])
              /\ a.status = StatusAfter[stream'[q][a.version]]
        <5> HIDE DEF a, q
        <5>1. QED
          BY <1>10, <3>2 DEF q
      <4>2. agg'[u] = a /\ call'[u].payment = q
        BY <3>1
      <4> HIDE DEF a, q
      <4>3. call[u].op = "refund" /\ Rebuilt(a, q) => Rebuilt(agg[u], call[u].payment)'
        BY <4>1, <4>2 DEF Rebuilt
      <4>4. QED
        BY <4>3 DEF a, q
    <3>4. call[u].op = "refund" /\ Refunded(u) => Refunded(u)'
      <4> SUFFICES ASSUME call[u].op = "refund", Refunded(u)
                   PROVE  Refunded(u)'
        OBVIOUS
      <4>1. stream'[call[u].payment] \in {<<"payment.initiated", "payment.processed">>,
                 <<"payment.initiated", "payment.processed", "payment.refunded">>}
        <5>1. CASE call[u].payment # p
          BY <1>8, <3>2, <5>1 DEF Refunded
        <5>2. CASE call[u].payment = p
          <6>1. h # <<>>
            BY <5>2 DEF Refunded
          <6>2. g = <<"payment.initiated", "payment.processed", "payment.refunded">>
            BY <1>1, <6>1
          <6>3. QED
            BY <1>1, <1>2, <5>2, <6>2
        <5>3. QED
          BY <5>1, <5>2
      <4>2. QED
        BY <3>1, <4>1 DEF Refunded
    <3>5. pc[u] = "save" /\ Unsaved(u) => Unsaved(u)'
      <4> SUFFICES ASSUME pc[u] = "save", Unsaved(u)
                   PROVE  Unsaved(u)'
        OBVIOUS
      <4>1. stream[agg[u].id] = <<>> /\ agg[u].id \in PaymentIds
        BY DEF Unsaved
      <4>2. stream'[agg[u].id] = <<>>
        BY <1>8, <1>14, <2>2, <4>1
      <4>3. QED
        BY <3>1, <4>1, <4>2 DEF Unsaved
    <3>6. HasPayment(call[u].order) => HasPayment(call[u].order)'
      <4>1. HasPayment(call[u].order)' <=> \E q \in PaymentIds : owner[q] = call[u].order /\ stream'[q] # <<>>
        BY <3>1 DEF HasPayment
      <4>2. QED
        BY <1>8, <4>1 DEF HasPayment
    <3>7. Answered(u) => Answered(u)'
      <4> SUFFICES ASSUME Answered(u)
                   PROVE  Answered(u)'
        OBVIOUS
      <4>1. call[u].op = "refund" /\ view[call[u].payment].status \in {"refunded", "failed"}
              => view'[call[u].payment] = view[call[u].payment]
        BY <1>2, <1>13, <3>2
      <4>2. QED
        BY <3>1, <3>6, <4>1 DEF Answered
    <3>8. QED
      BY <3>1, <3>3, <3>4, <3>5, <3>6, <3>7 DEF ServerOK
  <2>3. QED
    BY <2>1, <2>2
<1>17. OwnIds'
  <2>1. \A u \in Servers : Saving(u)' => u # w /\ Saving(u) /\ agg'[u] = agg[u]
    BY <1>3 DEF Saving
  <2>2. QED
    BY <2>1 DEF OwnIds, IInv
<1>18. MoneyInv'
  <2>1. MoneyInv /\ IsFiniteSet(charged) /\ charged' = charged /\ charged \subseteq PaymentIds
    BY ServerTyped DEF IInv, MoneyInv, TypeOK
  <2>2. Lost' = Lost \ {p}
    BY <1>1, <1>2, <1>8, <2>1 DEF Lost
  <2>3. InFlight' = InFlight \ {w}
    <3>1. w \notin InFlight'
      BY <1>3 DEF InFlight
    <3>2. ASSUME NEW u \in Servers, u # w
          PROVE  u \in InFlight' <=> u \in InFlight
      <4>1. CASE pc[u] = "save"
        <5>1. agg[u].id \in PaymentIds
          BY <4>1, ServerTyped DEF TypeOK
        <5>2. stream'[agg[u].id] = <<>> <=> stream[agg[u].id] = <<>>
          BY <1>8, <1>14, <3>2, <4>1, <5>1
        <5>3. QED
          BY <1>3, <2>1, <3>2, <5>2 DEF InFlight
      <4>2. CASE pc[u] # "save"
        BY <1>3, <3>2, <4>2 DEF InFlight
      <4>3. QED
        BY <4>1, <4>2
    <3>3. InFlight \subseteq Servers /\ InFlight' \subseteq Servers
      BY DEF InFlight
    <3>4. QED
      BY <3>1, <3>2, <3>3
  <2>4. w \in InFlight <=> p \in Lost
    BY DEF InFlight, Lost
  <2>5. /\ IsFiniteSet(Lost) /\ Cardinality(Lost) \in Nat
        /\ IsFiniteSet(InFlight) /\ Cardinality(InFlight) \in Nat /\ failures \in Nat
    <3>1. Lost \subseteq charged /\ InFlight \subseteq Servers
      BY DEF Lost, InFlight
    <3>2. QED
      BY <2>1, <3>1, ServersAssumption, ServerTyped, FailuresAssumption, FS_Subset, FS_CardinalityType
  <2>6. /\ Cardinality(Lost \ {p}) = IF p \in Lost THEN Cardinality(Lost) - 1 ELSE Cardinality(Lost)
        /\ Cardinality(InFlight \ {w}) = IF w \in InFlight THEN Cardinality(InFlight) - 1
                                         ELSE Cardinality(InFlight)
    BY <2>5, FS_RemoveElement
  <2>7. Cardinality(Lost') = Cardinality(Lost \ {p}) /\ Cardinality(InFlight') = Cardinality(InFlight \ {w})
    BY <2>2, <2>3, Zenon
  <2>8. Cardinality(Lost) <= Cardinality(InFlight) + failures
    BY <2>1 DEF MoneyInv
  <2>9. Cardinality(Lost') <= Cardinality(InFlight') + failures'
    <3> DEFINE m == Cardinality(Lost)
               n == Cardinality(InFlight)
    <3>1. CASE p \in Lost
      <4>1. Cardinality(Lost') = m - 1 /\ Cardinality(InFlight') = n - 1
        BY <2>4, <2>6, <2>7, <3>1
      <4> HIDE DEF m, n
      <4>2. m - 1 <= n - 1 + failures'
        BY <2>5, <2>8 DEF m, n
      <4>3. QED
        BY <4>1, <4>2
    <3>2. CASE p \notin Lost
      <4>1. Cardinality(Lost') = m /\ Cardinality(InFlight') = n
        BY <2>4, <2>6, <2>7, <3>2
      <4>2. QED
        BY <2>5, <2>8, <4>1
    <3>3. QED
      BY <3>1, <3>2
  <2>10. QED
    BY <2>1, <2>9 DEF MoneyInv
<1>19. MarkedInv'
  <2>1. processed' = processed
    OBVIOUS
  <2>2. QED
    BY <1>9, <2>1 DEF IInv, MarkedInv
<1>20. QED
  BY <1>11, <1>12, <1>16, <1>17, <1>18, <1>19 DEF IInv

LEMMA SaveKeeps ==
    ASSUME IInv, NEW w \in Servers, Save(w)
    PROVE  IInv'
<1>0. /\ pc[w] = "save" /\ UNCHANGED <<owner, processed, charged, failures>>
      /\ failures' \in 0..MaxFailures /\ failures' = failures
  BY ServerTyped DEF Save
<1>1. ASSUME ~ Conflicts(agg[w]), SaveTx(agg[w]),
             Return(w, IF agg[w].status = "failed" THEN "declined" ELSE "ok")
      PROVE  IInv'
  <2>1. CASE call[w].op = "deliver"
    <3>1. Moves(w, "mark", call[w], Empty, answer[w])
      <4>1. call = [call EXCEPT ![w] = call[w]] /\ answer = [answer EXCEPT ![w] = answer[w]]
        BY DEF IInv, TypeOK
      <4>2. QED
        BY <1>1, <2>1, <4>1 DEF Return, Goto, Moves
    <3>2. answer[w] \in Answers
      BY ServerTyped
    <3>3. QED
      BY <1>0, <1>1, <2>1, <3>1, <3>2, SaveTxKeeps
  <2>2. CASE call[w].op # "deliver"
    <3> DEFINE r == IF agg[w].status = "failed" THEN "declined" ELSE "ok"
    <3>1. r \in Answers /\ Done(w, r)
      BY <1>1, <2>2 DEF Return, Answers
    <3> HIDE DEF r
    <3>2. Moves(w, "idle", call[w], Empty, r)
      BY <3>1, DoneMoves
    <3>3. QED
      BY <1>0, <1>1, <3>1, <3>2, SaveTxKeeps
  <2>3. QED
    BY <2>1, <2>2
<1>2. ASSUME Conflicts(agg[w]), Done(w, "conflict"), UNCHANGED db
      PROVE  IInv'
  <2> DEFINE p == agg[w].id
             h == stream[p]
  <2>1. Len(h) > agg[w].version - Len(agg[w].pending)
    BY <1>2 DEF Conflicts, expectedVersion
  <2>2. ~ Saving(w)
    <3> SUFFICES ASSUME Saving(w)
                 PROVE  FALSE
      OBVIOUS
    <3>1. Unsaved(w)
      BY ServerTyped DEF Saving, ServerOK
    <3>2. h = <<>> /\ agg[w].version = 2
          /\ \E result \in {"payment.processed", "payment.failed"} :
                agg[w].pending = <<"payment.initiated", result>>
      BY <3>1 DEF Unsaved
    <3>3. Len(h) = 0 /\ Len(agg[w].pending) = 2
      BY <3>2
    <3>4. QED
      BY <2>1, <3>2, <3>3
  <2>3. Refunded(w) /\ call[w].op = "refund"
    BY <1>0, <2>2, ServerTyped DEF Saving, ServerOK
  <2>4. /\ call[w].payment = p /\ agg[w].version = 3 /\ agg[w].pending = <<"payment.refunded">>
        /\ h \in {<<"payment.initiated", "payment.processed">>,
                  <<"payment.initiated", "payment.processed", "payment.refunded">>}
    BY <2>3 DEF Refunded
  <2>5. Len(agg[w].pending) = 1
    BY <2>4
  <2>6. Len(h) > 2
    BY <2>1, <2>4, <2>5
  <2>7. h = <<"payment.initiated", "payment.processed", "payment.refunded">>
    <3>1. Len(<<"payment.initiated", "payment.processed">>) = 2
      OBVIOUS
    <3> HIDE DEF h
    <3>2. h # <<"payment.initiated", "payment.processed">>
      <4> SUFFICES ASSUME h = <<"payment.initiated", "payment.processed">>
                   PROVE  FALSE
        OBVIOUS
      <4>1. Len(h) = 2
        BY <3>1, Zenon
      <4>2. QED
        BY <2>6, <4>1
    <3>3. QED
      BY <2>4, <3>2
  <2>8. Len(h) = 3 /\ h[3] = "payment.refunded" /\ h # <<>>
    BY <2>7
  <2>9. view[p].status = "refunded"
    <3>1. PaymentOK(p)
      BY <1>0, ServerTyped DEF IInv, TypeOK
    <3>2. view[p].status = StatusAfter[Last(h)]
      BY <2>8, <3>1 DEF PaymentOK
    <3>3. Last(h) = "payment.refunded"
      BY <2>8 DEF Last
    <3>4. QED
      BY <3>2, <3>3, Statuses
  <2>10. "conflict" \in Answers
    BY DEF Answers
  <2>11. QED
    BY <1>0, <1>2, <2>2, <2>3, <2>4, <2>9, <2>10, ServerTyped, DoneQuietly
<1>3. QED
  BY <1>1, <1>2 DEF Save

LEMMA SaveUnknownKeeps ==
    ASSUME IInv, NEW w \in Servers, SaveUnknown(w)
    PROVE  IInv'
<1>1. /\ pc[w] = "save" /\ failures < MaxFailures /\ failures' = failures + 1
      /\ ~ Conflicts(agg[w]) /\ SaveTx(agg[w]) /\ Done(w, "error")
      /\ UNCHANGED <<owner, processed, charged>>
  BY DEF SaveUnknown
<1>2. failures' \in 0..MaxFailures
  BY <1>1, ServerTyped, FailuresAssumption
<1>3. "error" \in Answers
  BY DEF Answers
<1>4. Moves(w, "idle", call[w], Empty, "error")
  BY <1>1, <1>3, DoneMoves
<1>5. QED
  BY <1>1, <1>2, <1>3, <1>4, SaveTxKeeps

----------------------------------------------------------------------------
\* The invariant

LEMMA InvInit == Init => IInv
<1> SUFFICES ASSUME Init
             PROVE  IInv
  OBVIOUS
<1>1. TypeOK
  <2>1. /\ <<>> \in Seq(EventType) /\ "none" \in Status /\ [op |-> "none"] \in Call
        /\ 0 \in 0..MaxFailures
    BY FailuresAssumption DEF Status, Call
  <2>2. QED
    BY <2>1, EmptyTyped DEF Init, TypeOK
<1>2. \A p \in PaymentIds : PaymentOK(p)
  <2>1. <<>> \in Histories /\ Len(<<>>) = 0
    BY DEF Histories
  <2>2. QED
    BY <2>1 DEF Init, PaymentOK
<1>3. \A w \in Servers : ServerOK(w)
  BY DEF Init, ServerOK, Answered
<1>4. OwnIds /\ MarkedInv
  BY DEF Init, OwnIds, Saving, MarkedInv
<1>5. MoneyInv
  <2>1. charged = {} /\ failures = 0 /\ Lost = {} /\ InFlight = {}
    BY DEF Init, Lost, InFlight
  <2>2. IsFiniteSet({}) /\ Cardinality({}) = 0
    BY FS_EmptySet
  <2>3. QED
    BY <2>1, <2>2 DEF MoneyInv
<1>6. QED
  BY <1>1, <1>2, <1>3, <1>4, <1>5 DEF IInv

LEMMA InvStep == IInv /\ [Next]_vars => IInv'
<1> SUFFICES ASSUME IInv, [Next]_vars
             PROVE  IInv'
  OBVIOUS
<1>1. ASSUME NEW w \in Servers,
             \/ \E e \in EventIds : Deliver(w, e)
             \/ \E o \in HttpOrders : RequestPayment(w, o)
             \/ \E p \in PaymentIds : RequestRefund(w, p)
      PROVE  IInv'
  BY <1>1, CallsStart
<1>2. ASSUME NEW w \in Servers, Step(w)
      PROVE  IInv'
  BY <1>2, WasProcessedKeeps, MarkProcessedKeeps, FindKeeps, RejectKeeps, ChargeKeeps, SaveKeeps,
     LoadSnapshotKeeps, LoadEventsKeeps, RefundKeeps DEF Step
<1>3. ASSUME NEW w \in Servers, SaveUnknown(w) \/ Fail(w)
      PROVE  IInv'
  BY <1>3, SaveUnknownKeeps, FailKeeps
<1>4. CASE UNCHANGED vars
  <2>1. /\ UNCHANGED <<stream, snapshot, view, outbox>>
        /\ UNCHANGED <<owner, processed, charged, pc, call, agg, answer, failures>>
    BY <1>4 DEF vars, db
  <2>2. TypeOK' = TypeOK
    BY <2>1 DEF TypeOK
  <2>3. \A p \in PaymentIds : PaymentOK(p)' = PaymentOK(p)
    BY <2>1 DEF PaymentOK, Rebuilt
  <2>4. \A w \in Servers : ServerOK(w)'
    BY <2>1, ServerKept DEF db, IInv
  <2>5. OwnIds' = OwnIds /\ MarkedInv' = MarkedInv
    BY <2>1 DEF OwnIds, Saving, MarkedInv, HasPayment
  <2>6. MoneyInv' = MoneyInv
    <3>1. Lost' = Lost /\ InFlight' = InFlight
      BY <2>1 DEF Lost, InFlight
    <3>2. QED
      BY <2>1, <3>1 DEF MoneyInv
  <2>7. QED
    BY <2>2, <2>3, <2>4, <2>5, <2>6 DEF IInv
<1>5. QED
  BY <1>1, <1>2, <1>3, <1>4 DEF Next

\* Every reachable state has the invariant.
THEOREM SpecInv == Spec => []IInv
<1>1. QED
  BY InvInit, InvStep, PTL DEF Spec

----------------------------------------------------------------------------
\* What is proved

\* Every variable keeps its type, and nothing is saved without an id and an event.
THEOREM SpecTypeOK == Spec => []TypeOK
<1>1. IInv => TypeOK
  BY DEF IInv
<1>2. QED
  BY <1>1, SpecInv, PTL

\* The stream of every payment is one of its four possible lives, read model, outbox and
\* snapshots agree with it, and Load rebuilds a state the payment was in
\* (eventstore/repository.go).
THEOREM SpecBooksAgree == Spec => []BooksAgree
<1>1. IInv => BooksAgree
  <2> SUFFICES ASSUME IInv
               PROVE  BooksAgree
    OBVIOUS
  <2>1. ASSUME NEW p \in PaymentIds
        PROVE  /\ stream[p] \in Histories
               /\ outbox[p] = stream[p]
               /\ view[p] = [status |-> IF stream[p] = <<>> THEN "none" ELSE StatusAfter[Last(stream[p])],
                             version |-> Len(stream[p])]
               /\ LET s == snapshot[p] IN
                    s.version > 0 => /\ s.version <= Len(stream[p])
                                     /\ s.status = StatusAfter[stream[p][s.version]]
    <3>1. PaymentOK(p)
      BY DEF IInv
    <3>2. Len(stream[p]) \in Nat
      BY <3>1, HistoryTyped DEF PaymentOK
    <3>3. CASE snapshot[p] = Empty
      BY <3>1, <3>3, EmptyTyped DEF PaymentOK
    <3>4. CASE Rebuilt(snapshot[p], p)
      BY <3>1, <3>2, <3>4 DEF PaymentOK, Rebuilt
    <3>5. QED
      BY <3>1, <3>3, <3>4 DEF PaymentOK
  <2>2. ASSUME NEW w \in Servers, pc[w] = "refund"
        PROVE  LET p == call[w].payment
                   n == agg[w].version
               IN /\ agg[w].id = p
                  /\ n \in 1..Len(stream[p])
                  /\ agg[w].status = StatusAfter[stream[p][n]]
    <3> DEFINE p == call[w].payment
    <3>1. Rebuilt(agg[w], p) /\ call[w] \in Call /\ call[w].op = "refund"
      BY <2>2, ServerTyped DEF ServerOK
    <3>2. p \in PaymentIds
      BY <3>1 DEF Call
    <3>3. Len(stream[p]) \in Nat
      BY <3>2, HistoryTyped DEF IInv, PaymentOK
    <3>4. QED
      BY <3>1, <3>3 DEF Rebuilt
  <2>3. QED
    BY <2>1, <2>2 DEF BooksAgree
<1>2. QED
  BY <1>1, SpecInv, PTL

\* No claim without a record: a payment shown as paid was charged, a charge without a
\* record is in flight or one failure's, a processed event has its payment, and the
\* answers of ProcessPayment and RefundPayment are so.
THEOREM SpecClaimsAreRecorded == Spec => []ClaimsAreRecorded
<1>1. IInv => ClaimsAreRecorded
  <2> SUFFICES ASSUME IInv
               PROVE  ClaimsAreRecorded
    OBVIOUS
  <2>1. \A p \in PaymentIds : stream[p] # <<>> =>
          (p \in charged <=> "payment.processed" \in ToSet(stream[p]))
    BY DEF IInv, PaymentOK
  <2>2. Cardinality({p \in charged : stream[p] = <<>>}) <= Cardinality(InFlight) + failures
    BY DEF IInv, MoneyInv, Lost
  <2>3. \A e \in processed : HasPayment(ReadyOrder[e])
    BY ServerTyped DEF IInv, MarkedInv
  <2>4. \A w \in Servers : pc[w] = "idle" => Answered(w)
    BY DEF IInv, ServerOK
  <2>5. QED
    BY <2>1, <2>2, <2>3, <2>4 DEF ClaimsAreRecorded, Answered
<1>2. QED
  BY <1>1, SpecInv, PTL

----------------------------------------------------------------------------
\* The service implements PaymentContract

\* A payment is recorded with the gateway's decision, never before it.
LEMMA SavedLength ==
    ASSUME IInv, NEW w \in Servers, Saving(w)
    PROVE  Len(<<>> \o agg[w].pending) = 2
<1>1. Unsaved(w)
  BY DEF IInv, ServerOK, Saving
<1>2. PICK result \in {"payment.processed", "payment.failed"} :
         agg[w].pending = <<"payment.initiated", result>>
  BY <1>1 DEF Unsaved
<1>3. "payment.initiated" \in EventType /\ result \in EventType
  BY DEF EventType
<1>4. <<>> \o agg[w].pending = <<"payment.initiated", result>>
  BY <1>2, <1>3, Concatenations
<1>5. QED
  BY <1>4

\* The transaction of Save is one of the contract's steps.
LEMMA SavedSimulation ==
    ASSUME IInv, NEW w \in Servers, pc[w] = "save", ~ Conflicts(agg[w]), SaveTx(agg[w]),
           UNCHANGED <<owner, charged>>
    PROVE  Contract!Next
<1> DEFINE p == agg[w].id
           h == stream[p]
           g == h \o agg[w].pending
<1>1. /\ p \in PaymentIds /\ h \in Histories /\ g \in Histories /\ g # <<>> /\ Extends(h, g)
      /\ agg[w].version = Len(g) /\ agg[w].status = StatusAfter[Last(g)]
      /\ p \in charged <=> "payment.processed" \in ToSet(g)
      /\ owner[p] \in Orders
      /\ Saving(w) => h = <<>> /\ owner[p] = call[w].order
      /\ ~ Saving(w) => h = <<"payment.initiated", "payment.processed">>
                        /\ call[w].op = "refund" /\ call[w].payment = p
                        /\ g = <<"payment.initiated", "payment.processed", "payment.refunded">>
  BY SavedHere DEF SavedAs
<1>0. p = agg[w].id /\ h = stream[p] /\ g = h \o agg[w].pending
  OBVIOUS
<1> HIDE DEF p, h, g
<1>2. PaymentOK(p) /\ TypeOK
  <2>1. p \in PaymentIds
    BY <1>1
  <2>2. QED
    BY <2>1 DEF IInv
<1>3. /\ outbox[p] = h
      /\ Shown[p] = IF h = <<>> THEN "none" ELSE StatusAfter[Last(h)]
  <2>1. view[p].status = IF h = <<>> THEN "none" ELSE StatusAfter[Last(h)]
    BY <1>0, <1>2 DEF PaymentOK
  <2>2. QED
    BY <1>0, <1>1, <1>2, <2>1 DEF PaymentOK, Shown
<1>4. /\ outbox' = [outbox EXCEPT ![p] = g]
      /\ Shown' = [Shown EXCEPT ![p] = StatusAfter[Last(g)]]
  <2>1. outbox' = [outbox EXCEPT ![p] = outbox[p] \o agg[w].pending]
        /\ view' = [view EXCEPT ![p] = [status |-> agg[w].status, version |-> agg[w].version]]
    BY <1>0 DEF SaveTx
  <2>2. view \in [PaymentIds -> [status : Status, version : Nat]]
    BY <1>2 DEF TypeOK
  <2>3. \A q \in PaymentIds : view'[q].status = IF q = p THEN agg[w].status ELSE view[q].status
    BY <1>1, <2>1, <2>2
  <2>4. Shown' = [Shown EXCEPT ![p] = agg[w].status]
    BY <1>1, <2>3 DEF Shown
  <2>5. QED
    BY <1>0, <1>1, <1>3, <2>1, <2>4
<1>5. CASE Saving(w)
  <2>1. Shown[p] = "none" /\ g # <<>> /\ g # <<"payment.initiated", "payment.processed", "payment.refunded">>
    <3>1. h = <<>>
      BY <1>1, <1>5
    <3>2. Len(g) = 2
      BY <1>0, <1>5, <3>1, SavedLength
    <3>3. QED
      BY <1>1, <1>3, <3>1, <3>2
  <2>2. CASE g = <<"payment.initiated", "payment.processed">>
    <3>1. Last(g) = "payment.processed" /\ "payment.processed" \in ToSet(g)
      <4>1. g[2] = "payment.processed" /\ Len(g) = 2 /\ DOMAIN g = 1..2
        BY <2>2
      <4>2. QED
        BY <4>1, InToSet DEF Last
    <3>2. Contract!RecordPaid(p)
      BY <1>1, <1>4, <2>1, <2>2, <3>1, Statuses DEF Contract!RecordPaid
    <3>3. QED
      BY <1>1, <3>2 DEF Contract!Next
  <2>3. CASE g = <<"payment.initiated", "payment.failed">>
    <3>1. Last(g) = "payment.failed" /\ "payment.processed" \notin ToSet(g)
      <4>1. g[1] = "payment.initiated" /\ g[2] = "payment.failed" /\ Len(g) = 2 /\ DOMAIN g = 1..2
        BY <2>3
      <4>2. QED
        BY <4>1, InToSet DEF Last
    <3>2. Contract!RecordFailed(p)
      BY <1>1, <1>4, <2>1, <2>3, <3>1, Statuses DEF Contract!RecordFailed
    <3>3. QED
      BY <1>1, <3>2 DEF Contract!Next
  <2>4. QED
    BY <1>1, <2>1, <2>2, <2>3 DEF Histories
<1>6. CASE ~ Saving(w)
  <2>1. h = <<"payment.initiated", "payment.processed">>
        /\ g = <<"payment.initiated", "payment.processed", "payment.refunded">>
    BY <1>1, <1>6
  <2>2. Last(h) = "payment.processed" /\ h # <<>> /\ Last(g) = "payment.refunded"
    BY <2>1 DEF Last
  <2>3. g = Append(h, "payment.refunded")
    BY <2>1
  <2>4. Shown[p] = "completed" /\ Shown' = [Shown EXCEPT ![p] = "refunded"]
    BY <1>3, <1>4, <2>2, Statuses
  <2>5. outbox' = [outbox EXCEPT ![p] = Append(outbox[p], "payment.refunded")]
    BY <1>3, <1>4, <2>3
  <2>6. Contract!Refund(p)
    BY <2>4, <2>5 DEF Contract!Refund
  <2>7. QED
    BY <1>1, <2>6 DEF Contract!Next
<1>7. QED
  BY <1>5, <1>6

\* The gateway is asked under an id that no payment has.
LEMMA ChargeSimulation ==
    ASSUME IInv, NEW w \in Servers, Charge(w)
    PROVE  [Contract!Next]_(Contract!contractVars)
<1> USE DEF Contract!contractVars
<1>1. UNCHANGED <<view, outbox>>
  BY DEF Charge, db
<1>2. UNCHANGED Shown
  BY <1>1 DEF Shown
<1>3. PICK p \in PaymentIds, result \in {"payment.processed", "payment.failed"} :
         /\ owner[p] = NoOrder
         /\ charged' = IF result = "payment.processed" THEN charged \cup {p} ELSE charged
  BY DEF Charge
<1>4. p \notin charged /\ stream[p] = <<>>
  <2>1. PaymentOK(p)
    BY DEF IInv
  <2>2. stream[p] # <<>> \/ p \in charged => owner[p] \in Orders
    BY <2>1 DEF PaymentOK
  <2>3. QED
    BY <1>3, <2>2, NoneAssumption
<1>5. Shown[p] = "none"
  <2>1. PaymentOK(p)
    BY DEF IInv
  <2>2. view[p].status = "none"
    BY <1>4, <2>1 DEF PaymentOK
  <2>3. QED
    BY <2>2 DEF Shown
<1>6. CASE result = "payment.processed"
  <2>1. Contract!Charge(p)
    BY <1>1, <1>2, <1>3, <1>4, <1>5, <1>6 DEF Contract!Charge
  <2>2. QED
    BY <2>1 DEF Contract!Next
<1>7. CASE result # "payment.processed"
  BY <1>1, <1>2, <1>3, <1>7
<1>8. QED
  BY <1>6, <1>7

\* Every other step is none of the contract's.
LEMMA StepSimulation ==
    ASSUME IInv, [Next]_vars
    PROVE  [Contract!Next]_(Contract!contractVars)
<1>1. ASSUME UNCHANGED <<db, charged>>
      PROVE  UNCHANGED Contract!contractVars
  BY <1>1 DEF db, Shown, Contract!contractVars
<1>2. ASSUME NEW w \in Servers,
             \/ \E e \in EventIds : Deliver(w, e)
             \/ \E o \in HttpOrders : RequestPayment(w, o)
             \/ \E p \in PaymentIds : RequestRefund(w, p)
      PROVE  UNCHANGED <<db, charged>>
  BY <1>2 DEF Deliver, RequestPayment, RequestRefund, Start
<1>3. ASSUME NEW w \in Servers,
             \/ WasProcessed(w) \/ MarkProcessed(w) \/ FindByOrderID(w) \/ InitiateRejects(w)
             \/ LoadSnapshot(w) \/ LoadEvents(w) \/ Refund(w) \/ Fail(w)
      PROVE  UNCHANGED <<db, charged>>
  BY <1>3 DEF WasProcessed, MarkProcessed, FindByOrderID, InitiateRejects, LoadSnapshot, LoadEvents, Refund, Fail
<1>4. ASSUME NEW w \in Servers, Save(w) \/ SaveUnknown(w)
      PROVE  [Contract!Next]_(Contract!contractVars)
  <2>1. CASE pc[w] = "save" /\ ~ Conflicts(agg[w]) /\ SaveTx(agg[w]) /\ UNCHANGED <<owner, charged>>
    BY <2>1, SavedSimulation
  <2>2. CASE UNCHANGED <<db, charged>>
    BY <1>1, <2>2
  <2>3. QED
    BY <1>4, <2>1, <2>2 DEF Save, SaveUnknown
<1>5. CASE UNCHANGED vars
  BY <1>1, <1>5 DEF vars
<1>6. QED
  BY <1>1, <1>2, <1>3, <1>4, <1>5, ChargeSimulation DEF Next, Step

\* Payments requested twice, by replicas that charge and refund side by side, fail and are
\* retried: to the outside each payment id has one life, and is announced as it lives.
THEOREM SpecImplementsContract == Spec => ImplementsContract
<1>1. Init => Contract!Init
  BY DEF Init, Contract!Init, Shown
<1>2. IInv /\ [Next]_vars => [Contract!Next]_(Contract!contractVars)
  BY StepSimulation
<1>3. QED
  BY <1>1, <1>2, SpecInv, PTL DEF Spec, ImplementsContract, Contract!Spec
=============================================================================
