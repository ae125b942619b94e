----------------------------- MODULE Inventory -----------------------------
(***************************************************************************)
(* The inventory service's stock: the counters of the inventory table, the *)
(* reservation rows, and the transactions of Reserve, Release and of the  *)
(* order events' consumer, one SQL statement at a time.                    *)
(*                                                                         *)
(* Postgres runs at READ COMMITTED. An UPDATE or INSERT waits for the row *)
(* lock and then acts on the committed row; a SELECT takes no lock and    *)
(* sees what was committed when it ran. What transaction t wrote and has  *)
(* not committed is tx[t].                                                 *)
(*                                                                         *)
(* Nothing keeps two calls for one order apart: SELECT locks no row. An   *)
(* order for which a release, a cancellation or a confirmation ran next   *)
(* to another call is raced: its rows and its movements may disagree.     *)
(***************************************************************************)
EXTENDS Integers, Sequences, FiniteSets, SequencesExt, Functions

CONSTANTS
    Orders,
    Products,
    Lines,        \* Lines[o]: the order's items, [product, quantity] in sequence
    Initial,      \* Initial[p]: units available at the start
    Txs,          \* server goroutines, each with one transaction at a time
    Nobody,       \* holder of a free row lock
    NoCall,       \* the call of an idle goroutine
    Copies,       \* ids under which an order event may be published
    Arriving      \* the requests and events that may arrive

ASSUME FiniteAssumption == IsFiniteSet(Orders) /\ IsFiniteSet(Products)
ASSUME LinesAssumption ==
    Lines \in [Orders -> Seq([product : Products, quantity : Nat \ {0}])]
ASSUME InitialAssumption == Initial \in [Products -> Nat]

VARIABLES
    available,    \* inventory.quantity_available
    reserved,     \* inventory.quantity_reserved
    row,          \* row[o][p]: status of the reservation row, "none" without one
    held,         \* held[o][p]: quantity of that row
    moved,        \* moved[o][m][p]: units in o's inventory_movements rows of type m
    processed,    \* committed processed_events rows
    announced,    \* announced[o][t]: committed outbox rows of type t
    pc,           \* pc[t]: next statement of goroutine t
    call,         \* call[t]: the request or event it serves
    line,         \* line[t]: index of the order line Reserve is at
    found,        \* found[t]: products SELECTed as reserved, in result order
    todo,         \* todo[t]: those whose counters are still to be updated
    tx,           \* tx[t]: uncommitted writes
    invLock,      \* invLock[p]: transaction that holds the inventory row
    rowLock,      \* rowLock[o][p]: transaction that holds the reservation row
    raced         \* orders that were settled next to another call (history)

committed == <<available, reserved, row, held, moved, processed, announced>>
locks == <<invLock, rowLock>>
progress == <<call, line, found, todo>>
vars == <<committed, pc, progress, tx, locks, raced>>

----------------------------------------------------------------------------
\* Data

ReservationStatus == {"none", "reserved", "released", "committed"}

MovementType == {"reservation", "release", "sale"}

InventoryEventType == {"inventory.reserved", "inventory.released"}

Request == [op : {"reserve", "release"}, order : Orders, id : {0}]
OrderEvent == [op : {"order.cancelled", "order.confirmed"}, order : Orders, id : Copies]
Call == Request \cup OrderEvent

ASSUME NoneAssumption == Nobody \notin Txs /\ NoCall \notin Call
ASSUME ArrivingAssumption == Arriving \subseteq Call

\* Deltas to the counters, rows written and their quantities ("none": not written),
\* and units in the movement rows.
NoWrites == [available |-> [p \in Products |-> 0], reserved |-> [p \in Products |-> 0],
             row |-> [p \in Products |-> "none"], held |-> [p \in Products |-> 0],
             moved |-> [p \in Products |-> 0]]

RowSeenBy(t, p) ==
    IF tx[t].row[p] # "none" THEN tx[t].row[p] ELSE row[call[t].order][p]

InTx(t) == pc[t] \notin {"idle", "mark_processed"}

Goto(t, l) == pc' = [pc EXCEPT ![t] = l]

\* UPDATE inventory SET quantity_available = quantity_available + a, ..., and a
\* movement row of m units with it.
AddToCounters(t, p, a, r, m) ==
    tx' = [tx EXCEPT ![t].available[p] = @ + a, ![t].reserved[p] = @ + r, ![t].moved[p] = @ + m]

\* Mutant: the inventory rows stay locked (the rollback is never sent).
EndTxKeepsLocks(t) ==
    /\ Goto(t, "idle")
    /\ call' = [call EXCEPT ![t] = NoCall]
    /\ line' = [line EXCEPT ![t] = 1]
    /\ found' = [found EXCEPT ![t] = <<>>]
    /\ todo' = [todo EXCEPT ![t] = <<>>]
    /\ tx' = [tx EXCEPT ![t] = NoWrites]
    /\ rowLock' = [o \in Orders |-> [p \in Products |->
                      IF rowLock[o][p] = t THEN Nobody ELSE rowLock[o][p]]]
    /\ UNCHANGED invLock

\* Commit or rollback: uncommitted writes and locks are gone, t is free again.
EndTx(t) ==
    /\ Goto(t, "idle")
    /\ call' = [call EXCEPT ![t] = NoCall]
    /\ line' = [line EXCEPT ![t] = 1]
    /\ found' = [found EXCEPT ![t] = <<>>]
    /\ todo' = [todo EXCEPT ![t] = <<>>]
    /\ tx' = [tx EXCEPT ![t] = NoWrites]
    /\ invLock' = [p \in Products |-> IF invLock[p] = t THEN Nobody ELSE invLock[p]]
    /\ rowLock' = [o \in Orders |-> [p \in Products |->
                      IF rowLock[o][p] = t THEN Nobody ELSE rowLock[o][p]]]

Rollback(t) == EndTx(t) /\ UNCHANGED <<committed, raced>>

----------------------------------------------------------------------------
\* Calls arrive

\* Two calls for one order of which one at least settles it. Reservations of one
\* order next to each other are told apart by the unique rows.
Race(c, d) == c.order = d.order /\ ~ (c.op = "reserve" /\ d.op = "reserve")

\* A request or an event reaches the service, whatever it is already doing. Events
\* without a usable order id are dropped before they touch anything.
Begin(t, c) ==
    /\ pc[t] = "idle"
    /\ call' = [call EXCEPT ![t] = c]
    /\ Goto(t, CASE c.op = "reserve" -> "check"
                 [] c.op = "release" -> "select"
                 [] c \in OrderEvent -> "mark_processed")
    /\ raced' = raced \cup {c.order : u \in {v \in Txs : pc[v] # "idle" /\ Race(c, call[v])}}
    /\ UNCHANGED <<committed, line, found, todo, tx, locks>>

\* OrdersConsumer.handle: a redelivered event ends here; one that is being
\* handled elsewhere is waited for.
MarkProcessed(t) ==
    /\ pc[t] = "mark_processed"
    /\ \A u \in Txs : InTx(u) => call[u] # call[t]
    /\ \/ call[t] \in processed /\ Rollback(t)
       \/ /\ call[t] \notin processed
          /\ Goto(t, "select")
          /\ UNCHANGED <<committed, raced, progress, tx, locks>>

----------------------------------------------------------------------------
\* Reserve: check, take, insert for every line

Here(t) == Lines[call[t].order][line[t]]

\* hasReservedRow: a line whose product is already reserved for the order is skipped.
CheckDuplicate(t) ==
    /\ pc[t] = "check"
    /\ \/ /\ line[t] > Len(Lines[call[t].order])
          /\ Goto(t, "commit")
          /\ UNCHANGED line
       \/ /\ line[t] <= Len(Lines[call[t].order])
          /\ IF RowSeenBy(t, Here(t).product) = "reserved"
             THEN line' = [line EXCEPT ![t] = @ + 1] /\ UNCHANGED pc
             ELSE Goto(t, "take") /\ UNCHANGED line
    /\ UNCHANGED <<committed, raced, call, found, todo, tx, locks>>

\* Mutant: a shortage leaves the line out instead of failing the reservation.
TakeStockPartially(t) ==
    LET p == Here(t).product
        q == Here(t).quantity
    IN
    /\ pc[t] = "take"
    /\ invLock[p] \in {Nobody, t}
    /\ IF available[p] + tx[t].available[p] >= q
       THEN /\ AddToCounters(t, p, - q, q, 0)
            /\ invLock' = [invLock EXCEPT ![p] = t]
            /\ Goto(t, "insert")
            /\ UNCHANGED line
       ELSE /\ line' = [line EXCEPT ![t] = @ + 1]
            /\ Goto(t, "check")
            /\ UNCHANGED <<tx, invLock>>
    /\ UNCHANGED <<committed, raced, call, found, todo, rowLock>>

\* Mutant: the UPDATE does not ask for quantity_available >= quantity.
TakeStockUnchecked(t) ==
    LET p == Here(t).product
        q == Here(t).quantity
    IN
    /\ pc[t] = "take"
    /\ invLock[p] \in {Nobody, t}
    /\ AddToCounters(t, p, - q, q, 0)
    /\ invLock' = [invLock EXCEPT ![p] = t]
    /\ Goto(t, "insert")
    /\ UNCHANGED <<committed, raced, progress, rowLock>>

\* UPDATE inventory ... WHERE quantity_available >= quantity; a shortage rolls
\* the whole reservation back.
TakeStock(t) ==
    LET p == Here(t).product
        q == Here(t).quantity
    IN
    /\ pc[t] = "take"
    /\ invLock[p] \in {Nobody, t}
    /\ \/ /\ available[p] + tx[t].available[p] >= q
          /\ AddToCounters(t, p, - q, q, 0)
          /\ invLock' = [invLock EXCEPT ![p] = t]
          /\ Goto(t, "insert")
          /\ UNCHANGED <<committed, raced, progress, rowLock>>
       \/ available[p] + tx[t].available[p] < q /\ Rollback(t)

\* Mutant: an upsert instead of an insert brings a released row back.
UpsertReservation(t) ==
    LET o == call[t].order
        p == Here(t).product
    IN
    /\ pc[t] = "insert"
    /\ rowLock[o][p] \in {Nobody, t}
    /\ tx' = [tx EXCEPT ![t].row[p] = "reserved", ![t].held[p] = Here(t).quantity,
                        ![t].moved[p] = @ + Here(t).quantity]
    /\ rowLock' = [rowLock EXCEPT ![o][p] = t]
    /\ line' = [line EXCEPT ![t] = @ + 1]
    /\ Goto(t, "check")
    /\ UNCHANGED <<committed, raced, call, found, todo, invLock>>

\* INSERT INTO inventory_reservations: one row per order and product, whatever
\* its status, so an order that was released cannot reserve again.
InsertReservation(t) ==
    LET o == call[t].order
        p == Here(t).product
    IN
    /\ pc[t] = "insert"
    /\ rowLock[o][p] = Nobody
    /\ \/ /\ row[o][p] = "none"
          /\ tx' = [tx EXCEPT ![t].row[p] = "reserved", ![t].held[p] = Here(t).quantity,
                              ![t].moved[p] = @ + Here(t).quantity]
          /\ rowLock' = [rowLock EXCEPT ![o][p] = t]
          /\ line' = [line EXCEPT ![t] = @ + 1]
          /\ Goto(t, "check")
          /\ UNCHANGED <<committed, raced, call, found, todo, invLock>>
       \/ row[o][p] # "none" /\ Rollback(t)

----------------------------------------------------------------------------
\* Release and commit of a reservation: select, update the counters, mark rows

\* Mutant: the SELECT does not ask for status = 'reserved'.
SelectAnyStatus(t) ==
    /\ pc[t] = "select"
    /\ \E s \in SetToSeqs({p \in Products : row[call[t].order][p] # "none"}) :
          found' = [found EXCEPT ![t] = s] /\ todo' = [todo EXCEPT ![t] = s]
    /\ Goto(t, "update")
    /\ UNCHANGED <<committed, raced, call, line, tx, locks>>

\* reservedItems: the order of the result rows is the database's choice.
SelectReserved(t) ==
    /\ pc[t] = "select"
    /\ \E s \in SetToSeqs({p \in Products : row[call[t].order][p] = "reserved"}) :
          found' = [found EXCEPT ![t] = s] /\ todo' = [todo EXCEPT ![t] = s]
    /\ Goto(t, "update")
    /\ UNCHANGED <<committed, raced, call, line, tx, locks>>

\* A release puts the units back on the shelf, a commit takes them out for good.
Returned(c) == c.op # "order.confirmed"

\* UPDATE inventory for the next selected row, and its movement; CHECK
\* (quantity_reserved >= 0).
UpdateCounters(t) ==
    LET p == Head(todo[t])
        q == held[call[t].order][p]
    IN
    /\ pc[t] = "update" /\ todo[t] # <<>>
    /\ invLock[p] \in {Nobody, t}
    /\ \/ /\ reserved[p] + tx[t].reserved[p] >= q
          /\ AddToCounters(t, p, IF Returned(call[t]) THEN q ELSE 0, - q, q)
          /\ invLock' = [invLock EXCEPT ![p] = t]
          /\ todo' = [todo EXCEPT ![t] = Tail(@)]
          /\ UNCHANGED <<committed, raced, pc, call, line, found, rowLock>>
       \/ reserved[p] + tx[t].reserved[p] < q /\ Rollback(t)

\* UPDATE inventory_reservations ... WHERE status = 'reserved': the rows that are
\* reserved by now, whichever were selected.
MarkRows(t) ==
    LET o  == call[t].order
        ps == {p \in Products : row[o][p] = "reserved"}
        to == IF Returned(call[t]) THEN "released" ELSE "committed"
    IN
    /\ pc[t] = "update" /\ todo[t] = <<>>
    /\ \A p \in ps : rowLock[o][p] = Nobody
    /\ tx' = [tx EXCEPT ![t].row = [p \in Products |-> IF p \in ps THEN to ELSE @[p]]]
    /\ rowLock' = [rowLock EXCEPT ![o] = [p \in Products |-> IF p \in ps THEN t ELSE @[p]]]
    /\ Goto(t, "commit")
    /\ UNCHANGED <<committed, raced, progress, invLock>>

----------------------------------------------------------------------------
\* End of a transaction

\* movement_type of the rows that a call writes.
Movement(c) == CASE c.op = "reserve" -> "reservation"
                 [] c.op = "order.confirmed" -> "sale"
                 [] OTHER -> "release"

\* The outbox row of the transaction, if it changed anything.
Announce(t) ==
    CASE call[t].op = "reserve" /\ \E p \in Products : tx[t].row[p] # "none"
            -> {"inventory.reserved"}
      [] call[t].op \in {"release", "order.cancelled"} /\ found[t] # <<>>
            -> {"inventory.released"}
      [] OTHER -> {}

\* Everything written becomes visible at once. Whether the answer reaches the
\* caller makes no difference here: a repeated call is another call.
Commit(t) ==
    LET o == call[t].order IN
    /\ pc[t] = "commit"
    /\ available' = [p \in Products |-> available[p] + tx[t].available[p]]
    /\ reserved' = [p \in Products |-> reserved[p] + tx[t].reserved[p]]
    /\ row' = [row EXCEPT ![o] = [p \in Products |->
                  IF tx[t].row[p] = "none" THEN @[p] ELSE tx[t].row[p]]]
    /\ held' = [held EXCEPT ![o] = [p \in Products |->
                  IF tx[t].held[p] = 0 THEN @[p] ELSE tx[t].held[p]]]
    /\ moved' = [moved EXCEPT ![o][Movement(call[t])] =
                    [p \in Products |-> @[p] + tx[t].moved[p]]]
    /\ processed' = processed \cup ({call[t]} \cap OrderEvent)
    /\ announced' = [announced EXCEPT ![o] = [type \in InventoryEventType |->
                        IF type \in Announce(t) THEN @[type] + 1 ELSE @[type]]]
    /\ EndTx(t)
    /\ UNCHANGED raced

\* Any statement fails: connection, cancelled request, crash of the replica.
Fail(t) == pc[t] # "idle" /\ Rollback(t)

\* t waits for a row that u holds.
Waits(t, u) ==
    \/ pc[t] = "mark_processed" /\ InTx(u) /\ call[u] = call[t]
    \/ pc[t] = "take" /\ invLock[Here(t).product] = u
    \/ pc[t] = "insert" /\ rowLock[call[t].order][Here(t).product] = u
    \/ pc[t] = "update" /\ todo[t] # <<>> /\ invLock[Head(todo[t])] = u
    \/ /\ pc[t] = "update" /\ todo[t] = <<>>
       /\ \E p \in Products : row[call[t].order][p] = "reserved" /\ rowLock[call[t].order][p] = u

\* Postgres rolls one transaction of a waiting cycle back.
DeadlockVictim(t) ==
    /\ \E ring \in SUBSET Txs :
          t \in ring /\ \A u \in ring : \E v \in ring : u # v /\ Waits(u, v)
    /\ Rollback(t)

----------------------------------------------------------------------------
\* Specification

Init ==
    /\ available = Initial
    /\ reserved = [p \in Products |-> 0]
    /\ row = [o \in Orders |-> [p \in Products |-> "none"]]
    /\ held = [o \in Orders |-> [p \in Products |-> 0]]
    /\ moved = [o \in Orders |-> [m \in MovementType |-> [p \in Products |-> 0]]]
    /\ processed = {}
    /\ announced = [o \in Orders |-> [type \in InventoryEventType |-> 0]]
    /\ pc = [t \in Txs |-> "idle"]
    /\ call = [t \in Txs |-> NoCall]
    /\ line = [t \in Txs |-> 1]
    /\ found = [t \in Txs |-> <<>>]
    /\ todo = [t \in Txs |-> <<>>]
    /\ tx = [t \in Txs |-> NoWrites]
    /\ invLock = [p \in Products |-> Nobody]
    /\ rowLock = [o \in Orders |-> [p \in Products |-> Nobody]]
    /\ raced = {}

Statement(t) ==
    \/ MarkProcessed(t)
    \/ CheckDuplicate(t) \/ TakeStock(t) \/ InsertReservation(t)
    \/ SelectReserved(t) \/ UpdateCounters(t) \/ MarkRows(t)
    \/ Commit(t)

Next ==
    \E t \in Txs :
        \/ \E c \in Arriving : Begin(t, c)
        \/ Statement(t) \/ Fail(t) \/ DeadlockVictim(t)

Spec == Init /\ [][Next]_vars

\* The service goes on with every call; Postgres queues waiters, so nobody is
\* overtaken for ever, and breaks every waiting cycle. No call has to succeed.
Fairness ==
    \A t \in Txs : SF_vars(Statement(t)) /\ WF_vars(DeadlockVictim(t))

FairSpec == Spec /\ Fairness

----------------------------------------------------------------------------
\* Properties

TypeOK ==
    /\ available \in [Products -> Nat]
    /\ reserved \in [Products -> Nat]
    /\ row \in [Orders -> [Products -> ReservationStatus]]
    /\ held \in [Orders -> [Products -> Nat]]
    /\ moved \in [Orders -> [MovementType -> [Products -> Nat]]]
    /\ processed \subseteq OrderEvent
    /\ announced \in [Orders -> [InventoryEventType -> Nat]]
    /\ pc \in [Txs -> {"idle", "mark_processed", "check", "take", "insert",
                       "select", "update", "commit"}]
    /\ call \in [Txs -> Call \cup {NoCall}]
    /\ \A t \in Txs : call[t] = NoCall <=> pc[t] = "idle"
    /\ line \in [Txs -> Nat \ {0}]
    /\ \A t \in Txs : ToSet(todo[t]) \subseteq ToSet(found[t]) /\ ToSet(found[t]) \subseteq Products
    /\ invLock \in [Products -> Txs \cup {Nobody}]
    /\ rowLock \in [Orders -> [Products -> Txs \cup {Nobody}]]
    /\ raced \subseteq Orders

\* Units of p in the movements of a type, of all orders.
Moved(m, p) == SumFunctionOnSet([o \in Orders |-> moved[o][m][p]], Orders)

\* For any interleaving of reservations, releases and commits, the counters are what
\* the movements add up to: no unit is taken, returned or sold twice without a trace.
Ledger ==
    \A p \in Products :
        /\ available[p] = Initial[p] - Moved("reservation", p) + Moved("release", p)
        /\ reserved[p] = Moved("reservation", p) - Moved("release", p) - Moved("sale", p)

\* And an order's movements tell what its rows tell: the units in its rows were taken
\* once, whatever ran next to it, and those of a released or committed row were
\* returned or sold once. The latter is promised only to orders that are not raced:
\* two releases that select before either marks return the units twice, and one that
\* selects before a reservation commits and marks after it returns none.
StockAddsUp ==
    /\ Ledger
    /\ \A o \in Orders, p \in Products :
         /\ moved[o]["reservation"][p] = held[o][p]
         /\ o \notin raced =>
              /\ moved[o]["release"][p] = (IF row[o][p] = "released" THEN held[o][p] ELSE 0)
              /\ moved[o]["sale"][p] = (IF row[o][p] = "committed" THEN held[o][p] ELSE 0)

\* Of the lines that name a product the first is reserved: the others find its row.
FirstLines(o, p) ==
    {i \in DOMAIN Lines[o] :
        Lines[o][i].product = p /\ \A j \in DOMAIN Lines[o] : j < i => Lines[o][j].product # p}

\* Units of p that a reservation of order o sets aside.
Wanted(o, p) ==
    IF FirstLines(o, p) = {} THEN 0 ELSE Lines[o][CHOOSE i \in FirstLines(o, p) : TRUE].quantity

\* An order holds every product it asked for or nothing, although it reserves line
\* by line next to others that want the same products and next to calls for the same
\* order, and inventory.reserved is enqueued exactly once.
WholeOrderReserved ==
    \A o \in Orders :
        /\ \/ \A p \in Products : row[o][p] = "none"
           \/ \A p \in Products : held[o][p] = Wanted(o, p)
        /\ announced[o]["inventory.reserved"] =
              (IF \E p \in Products : row[o][p] # "none" THEN 1 ELSE 0)

\* So it is, and inventory.released too is enqueued exactly once, by the call that did it
\* and not by repeated calls or redelivered events, unless the order is raced; never
\* for an order that held nothing.
WholeOrderAnnouncedOnce ==
    /\ WholeOrderReserved
    /\ \A o \in Orders :
         /\ o \notin raced => announced[o]["inventory.released"] =
                                 (IF \E p \in Products : row[o][p] = "released" THEN 1 ELSE 0)
         /\ announced[o]["inventory.released"] > 0 => announced[o]["inventory.reserved"] = 1

\* Reserved stock is released or sold, never both, and never reserved again; the
\* rows of an order move together.
ReservationsSettle ==
    [][\A o \in Orders, p \in Products :
         row'[o][p] # row[o][p] =>
            /\ <<row[o][p], row'[o][p]>> \in
                  {<<"none", "reserved">>, <<"reserved", "released">>, <<"reserved", "committed">>}
            /\ \A r \in Products : row[o][r] = row[o][p] /\ Wanted(o, r) > 0
                                      => row'[o][r] = row'[o][p]]_vars

\* Every call ends: no lock is leaked and no waiting cycle stays.
CallsEnd == \A t \in Txs : pc[t] # "idle" ~> pc[t] = "idle"

\* What a caller relies on when it is told that its call succeeded: after a reservation
\* every product it asked for has its row, and unless the order is raced that row is
\* reserved; after a release, a cancellation or a confirmation of an order that is not
\* raced nothing of the order is reserved any more.
CallsTakeEffect ==
    [][\A t \in Txs : Commit(t) =>
         LET o == call[t].order IN
         IF call[t].op = "reserve"
         THEN \A i \in DOMAIN Lines[o] :
                 /\ row'[o][Lines[o][i].product] # "none"
                 /\ o \notin raced => row'[o][Lines[o][i].product] = "reserved"
         ELSE o \notin raced => \A p \in Products : row'[o][p] # "reserved"]_vars

\* The one status that the rows of an order have, "none" without rows.
StatusOf(o) ==
    LET ss == {row[o][p] : p \in Products} \ {"none"}
    IN IF ss = {} THEN "none" ELSE CHOOSE s \in ss : TRUE

Kept == [o \in Orders |-> StatusOf(o)]

\* The rows of an order are one reservation: see Reservation.
Contract == INSTANCE Reservation WITH stock <- Kept

ImplementsReservation == Contract!Spec
=============================================================================
