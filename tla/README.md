# EventFlow Commerce in TLA+

EventFlow Commerce sells products through five services (API gateway, order,
inventory, payment, notification). The services own one Postgres database each,
call each other over HTTP and tell each other what happened through Kafka, with
an outbox table in front of it. What has to be right is spread over all of them:
an order must end up confirmed *with* its stock and its money, or failed
*without* them, whatever is retried, redelivered, overtaken or killed on the way.

This directory models those protocols, checks them with TLC and proves the
safety properties with TLAPS. Paths below are relative to the repository root; the
tables give the definition-to-line correspondence only roughly, `PROJECT.json`
("map") gives it for every definition.

## 1. Inventory of the system

| Part | State it keeps | Operations | Talks to |
|---|---|---|---|
| **Order service** `services/order` | `orders` (status, version), `order_sagas` (state), outbox, `processed_events`, order cache in Redis | create (reserve, save, mark pending payment), get, list; `ConfirmPayment`, `FailPayment` from `payments.events` | inventory (HTTP reserve/release, payment refund client), Kafka |
| **Inventory service** `services/inventory` | `inventory` counters, `inventory_reservations`, movements log, outbox, `processed_events`, product cache | reserve, release (HTTP); release / commit on `order.cancelled` / `order.confirmed`; product CRUD | Kafka |
| **Payment service** `services/payment` | `payment_events` (event store), `payment_snapshots`, `payment_status` read model, outbox, `processed_events` | process (event or HTTP), refund, get | payment gateway (stub), Kafka |
| **Notification service** `services/notification` | `notifications`, `processed_events` | consume order and payment events, render, send, store the outcome | Kafka, senders |
| **API gateway** `services/api-gateway` | rate limiter's client map, one circuit breaker per upstream | limit, authenticate, proxy | every service |
| **Server processes** `services/*/cmd/server`, `shared/libs/go/httpserver`, `database` | listener, consumers, relay, publisher, Redis and Postgres connections of a replica | start, serve, readiness, ordered shutdown after a signal | Kubernetes, every dependency |
| **Outbox relay** `shared/libs/go/outbox` | `outbox_messages` rows (published_at) | poll, lock with `SKIP LOCKED`, publish, mark | Kafka |
| **Event library** `shared/libs/go/events` | partition offsets, DLQ topics, `processed_events` | publish, fetch, retry with backoff, DLQ, commit, mark processed | Kafka, Postgres |
| **Resilience library** `shared/libs/go/resilience` | breaker counts and state | execute, retry with backoff | callers |
| **Caches** `shared/libs/go/cache` and both services' consumers | JSON values with TTL | cache-aside read, invalidation on events, fallback entry | Redis, Kafka |
| **Canary script** `scripts/canary.sh` | traffic weights, canary pods (in the cluster) | promote in steps, set a weight, roll back | Kubernetes, Istio, Prometheus |

### Where it is hard

* **Everything is delivered at least once, in any order.** The relay republishes a
  row it could not mark (under a new event id), the publisher's balancer spreads
  the events of one order over all partitions, and the subscriber redelivers what
  it did not commit. Handlers of the same order run in parallel on several replicas.
* **Reads before locks.** `ConfirmPayment` and `FailPayment` use an order they read
  outside their transaction; `release()` reads the reserved rows without a lock;
  `ProcessPayment` looks for a payment, talks to the gateway and then saves.
* **Sagas that stop in the middle.** The compensating checkpoint is a transaction
  of its own, followed by an HTTP call, followed by the final transaction.
* **Answers that get lost**: of a commit, of a reserve or release, of a charge.
* **Lock order**: saga then order in one handler, order then saga in the other;
  inventory rows in the order of the customer's lines.
* **Breakers behind breakers**: the gateway's breaker sees the failures that the order
  service's own breakers produce, while calls under way report to an older generation
  and a half-open breaker waits for one probe.
* **Caches without versions**: a slow reader fills an entry after the invalidation it
  should have lost to.
* **A pool that is asked twice**: a request that holds a connection asks for another
  one, next to a consumer and a relay that wait without a timeout.
* **Ends of processes**: a signal, a kill or an outage at any point of a start or a
  shutdown, with handlers, batches and consumers under way.

`PROJECT.json` ("hazards") lists each of these at its line, with the properties
that watch it, or why none does.

### What makes each part correct

* *Order saga*: the outcome of an order is decided once, announced once, agrees
  with the saga and with the stock; no result is lost; retries always finish.
* *Inventory*: counters are what the movements add up to, and those what the rows say; no unit
  is promised twice; an order holds all it asked for or nothing; release and commit happen
  once, unless calls race; no call hangs.
* *Payment*: an event stream tells a possible life of a payment; read model, outbox,
  snapshots and stream agree; an order is charged once; every ready order with something to pay is answered.
* *Event bus*: what was enqueued is eventually handled or visibly given up; a handler's
  effect happens once per event.
* *Caches*: a stale entry will be deleted by an event on its way, with known exceptions,
  and none outlives its TTL.
* *Gateway and resilience*: breakers trip for a reason and let calls through again; a client
  gets its burst and no more.
* *Notification*: every event of interest leads to a notification that says what became of
  it; an offset is committed only behind what is handled or in the DLQ.
* *Server processes*: nothing is closed under its users, a ready replica has all its parts,
  and every replica comes back.
* *Canary*: traffic has pods to go to; a canary known as faulty gets no more of it.

## 2. Modules

| Module | Content |
|---|---|
| `OrderContract` | What an order promises to its customer and to the warehouse, with everything that implements it left out. |
| `OrderSaga` | The create handler, the payments consumer of the order service statement by statement, the saga and order rows with their locks, the reservation of the order at the inventory service, late requests, redelivery, DLQ, crashes. Implements `OrderContract`. |
| `Reservation` | What the inventory service keeps for an order, as its callers see it: set aside, then given back or taken out, once. |
| `Inventory` | Reserve, Release and the order events' consumer of the inventory service, one SQL statement per action, with row locks and the deadlock detector. Implements `Reservation`. |
| `PaymentContract` | What the payment service promises for a payment: charged at most once and before it is shown as paid, decided once, refunded at most once, each announced as it is recorded. |
| `Payment` | `ProcessPayment`, `RefundPayment`, the event-sourced repository and the events' consumer of the payment service. Implements `PaymentContract`. |
| `Delivery` | At-least-once delivery without anything that implements it: sent before it is retired, under an id of its own each time, applied at most once per id. |
| `EventBus` | The way of an event from a business transaction to a handler: outbox rows, relays with `SKIP LOCKED`, partitions, a consumer group's offsets, retries, DLQ and `processed_events`. Implements `Delivery`. |
| `Breaker` | One circuit breaker as pure operators: admission, success, failure, generations. |
| `Gateway` | A client's request through rate limiter, token check, the gateway's breaker, the order service's handlers and their breakers for the inventory service, with the retried release. Uses three instances of `Breaker`'s record. |
| `Notification` | The notification service's consumer task on several replicas: fetch, store, send, mark, DLQ, commit, rebalances and restarts. |
| `ReadCache` | The cache-aside reads of one order or one product, the fallback entry, and the consumers that invalidate. |
| `Lifecycle` | One replica of any of the four Go services: its main from start to exit, and the goroutines that use what main opens and closes, the database pool included. |
| `Canary` | `canary.sh`, command by command, over several runs of the script. |
| `OrderSagaProofs`, `InventoryProofs`, `PaymentProofs`, `EventBusProofs`, `GatewayProofs`, `NotificationProofs`, `ReadCacheProofs` | Inductive invariants and theorems about the module of the name (section 4). |
| `OperationsProofs` | The same for how the system is run: `Lifecycle` and `Canary`. |
| `MC...` | Instances for TLC: orders and their lines, initial stock, the partition of the notification service, symmetry. |

`OrderSaga` contains the inventory service as the order service sees it: one
reservation per order that is reserved, released or committed by one action.
`Inventory` is the detailed version of that reservation, for several orders that
share products. `Reservation` is the interface between them: `Inventory` implements it,
and what `OrderSaga` sees of the stock is a behaviour of it. `EventBus` is the detailed version of what `OrderSaga` and `Payment`
assume of delivery: any event may come any number of times, under several ids, in any
order, to several goroutines at once, and some are left behind (`skipped`). Payment
events appear in `OrderSaga` at any time (`PublishPaymentEvent`), as `POST /payments` asks
for no order that is ready.

### How the models follow the code

**Transactions.** Postgres runs at READ COMMITTED. Each SQL statement is an action;
what a transaction wrote is kept apart (`txOrder`, `txSaga` in `OrderSaga`, `tx` in
`Inventory`) until its commit makes all of it visible; a row it wrote or selected
`FOR UPDATE` is locked until the end. A plain `SELECT` takes no lock and its result
may be stale when it is used. A transaction whose statements nobody can observe
one by one (`SaveTx` and `MarkPendingPaymentTx` of the create handler,
`Repository.Save` of the payment service) is one action, and the module says why.

**Order saga.** `creator[o]` is the progress of the request that creates `o`:
`ReserveOK`, `ReserveRejected`, `ReserveLost` (the request times out and may be
served later: `ServeLate`), `Save`, `SaveFails` with its `AbortRelease`,
`MarkPendingPayment`, and a crash in between. `pc[w]` is the next statement of the
payments consumer's handler on goroutine `w`: `MarkProcessed` (waits for a
concurrent insert of the same event id), `ReadOrder`, then for a processed payment
`TransitionPaid`, `applyTransition`, `FinishSaga`, and for a failed one
`markCompensating` (its own transaction), `ReleaseOK` or `ReleaseFails`,
`applyTransition`, `FinishSaga`, and at last `Commit` and `Ack`. `DbError`,
`CommitUnknown` and `WorkerCrash` may strike at any statement; `Failed` is the
subscriber's retry loop, `SendToDLQ` what follows when it is exhausted. `Ignore` is the
handler that returns at once: an event of another type, or a payment result without a
usable `order_id` (type `no_order`), whose offset is committed all the same.

**Inventory.** `pc[t]` is the next statement of goroutine `t`: `CheckDuplicate`,
`TakeStock`, `InsertReservation` per line; `SelectReserved`, `UpdateCounters` per
selected row, `MarkRows`; `MarkProcessed` in front for the consumer; `Commit`. `Fail`
is any failing statement. `DeadlockVictim` is Postgres breaking a waiting cycle. `moved` sums
the rows of `inventory_movements` up. Calls for one order overlap freely. The history variable
`raced` holds the orders for which a release, a cancellation or a confirmation began next to
another call, or another call next to one of these. Of two lines that name one product the second
finds the row of the first: `Wanted` is what is left to promise.

**Payment.** A server drops an event it cannot read (`Deliver`), or else finds
(`FindByOrderID`), has the amount refused when it is not positive (`InitiateRejects`), charges
(`Charge`), saves (`Save`), and marks the event (`MarkProcessed`); a refund loads the snapshot and the events
after it in two queries (`LoadSnapshot`, `LoadEvents`), then refunds and saves.
`Save` fails when another one took the version (`Conflicts`). `SaveUnknown` is a
lost commit answer, `Fail` a failing call or a crash.

**Event bus.** A relay selects and locks the oldest unlocked rows of the backlog
(`SelectPending`), publishes each under a new event id to any partition (`PublishOK`,
`PublishFails`), marks it (`MarkPublished`) and commits the batch (`CommitBatch`); a
statement that fails aborts the Postgres transaction while the loop goes on. A subscriber
fetches from the partitions it owns (`Fetch`), runs the handler's transaction (`Handle`,
`HandleFails`), hands what keeps failing to the DLQ (`SendToDLQ`) and commits the offset
(`CommitOffset`). `Rebalance` assigns partitions anew and makes readers start from the
committed offset or, without one, from the end (`ResumeAt`); a consumer that dies loses what it
had at hand, one that lives goes on with it and may commit late. Two history variables name what
is lost: `leftBehind` (the DLQ refused it) and `missed` (a reader without a committed offset
started behind it).

**Gateway.** `pc[c]` is where the request of client `c` is: `Request` takes a token,
`ProxyToService` asks the gateway's breaker, then the order service's handler goes through
`Reserve`/`Reserved`, `Save`, and `Release`/`Released` when the order could not be saved;
`Reply` reports the answer to the gateway's breaker. `GiveUp` is a client that leaves or a proxy
timeout: the breaker hears of a failure at once, the handler goes on under a cancelled context.
`OpenTimeout` and `WindowEnds` are the breakers' clocks. `debt` and `evicted` are history
variables: tokens a client took that time has not given back, and who lost its bucket.

**Notification.** `pc[r]` is the next statement of the task on replica `r`; there is no
transaction, so a failure between any two statements (`Raise`) runs `handle_event` from its
beginning, up to `MAX_ATTEMPTS` times. A commit by a replica that lost the partition ends its
task (`dead`), as does a `fatal` message: one that is JSON but no object, or has a header that
does not decode. `TakeOver` is the broker that gives the partition of a dead member to another
one. A reader starts at the committed offset or, as `auto_offset_reset` is left at its default,
at the end of the partition (`Resume`); `missed` holds what it skips then. The partition is written
down as a whole beforehand, so its end may be anywhere behind what was read.

**Caches.** A value is the version of the row it was read from. `GetByID` looks (`GetJSON`),
reads the row (`Select`, `SelectFails`) and fills (`FillOrder`, `FillProduct`, `FillFallback`);
any of the calls in between may take arbitrarily long. `Invalidate` handles an event and deletes
the fast entry; `Expire` is the TTL. The flag `overtaken` of an entry is of the model only.

**Server processes.** `todo` is what main still has to start or, after a signal, to stop, in
the order of the source (`OrderMain`, `OrderShutdown`, ...); `open` is what is started. Requests,
consumers and the relay begin and end work at any time, take connections out of the pool
(`Connect`) and give them back together. `Exit` is every way the process ends.

**Left out of the data**: amounts, addresses, customers, timestamps, names and
payload formats; saga columns nothing reads.

## 3. Runs

| Run | Instance | Question |
|---|---|---|
| `order_saga` | 1 order, 2 workers, 2 event ids of any type, ignored ones and ones without an order included, 1 retry, 1 crash | Do order, saga, stock, outcome event and offsets agree; is the contract implemented? |
| `order_saga_live` | the same without ignored types and retries, fair consumers | Is every event settled and every paid-or-declined order decided? |
| `inventory` | 2 orders over the same 2 products in opposite order, one naming a product twice, stock for one of them, 2 goroutines, every call overlapping, fair | Are counters, movements, rows and events consistent? What do overlapping releases leave intact? Does every call end although lock cycles form? |
| `payment` | 2 orders, one with a total of zero, 2 servers, 2 payment ids, 4 events (2 for one order, 1 for the other, 1 unreadable) and HTTP calls, 1 failure, fair | Do stream, read model, snapshot and outbox agree (`BooksAgree`), is every claim on record (`ClaimsAreRecorded`), and is the order with a positive total answered? |
| `payment_redelivered` | 1 server, 1 failure, events only | **Violation**: the charge is repeated. |
| `event_bus` | 2 rows, 2 relays, 1 partition with or without a committed offset, 2 subscribers, 1 failure, 1 rebalance or crash | Is a row on the topic before it leaves the backlog; is it published twice only after a failure? One effect per event id; for which reasons is a message lost? |
| `event_bus_live` | 1 row, 2 relays, 2 subscribers, 1 retry, 1 failure, 1 rebalance, fair | Is every row eventually handled, in the DLQ or lost for one of these reasons? |
| `gateway` | 2 clients, burst 1, room for 1 bucket, breakers that trip after 2 failures, 2 attempts, 3 troubles, fair | What trips the breakers first, do they recover behind one another, does the limiter limit? |
| `notification` | 2 replicas, 6 messages (one event twice, one message of each other kind), a committed offset or none, 3 failures, fair | Behind what is an offset committed, do rows tell the truth, when is a mail repeated, is everything settled? |
| `read_cache` | 2 readers, 3 versions, 2 failures, order or product, fair | Which stale entries will an event repair, and do all of them go? |
| `lifecycle` | each of 4 services, 2 requests, a pool of 2 connections, 2 troubles, fair | Is anything closed under its users; does a ready replica have all its parts; does every replica come back? |
| `canary` | 3 weights by hand, stable replicas to copy or none, 3 failing commands | Is traffic left without pods; does a faulty canary get more of it? |

### Bounds

Named in each module: `MaxRetries`, `MaxCrashes` (`OrderSaga`), `Copies`,
`Arriving` (`Inventory`), `MaxFailures` (`Payment`, `EventBus`, `Notification`, `ReadCache`,
`Canary`), `MaxRetries` and `MaxRebalances` (`EventBus`), `MaxTroubles` (`Gateway`,
`Lifecycle`), `MaxVersion` (`ReadCache`).

* One order is enough in `OrderSaga`: no action for one order reads or writes a row of
  another, only the goroutines are shared, and a worker that is busy with another
  order is a worker that takes no step. (The theorems hold for any set of orders.)
* Two goroutines and two events are what every conflict in the code needs: a confirmation
  next to a failure, the same decision twice, a redelivery next to a first delivery.
* One retry separates a first from a later attempt; one crash puts a redelivery behind
  every statement. More crashes repeat that.
* Two products in opposite order and two goroutines make the lock cycle; stock for one
  order makes the shortage in a later line. `Arriving` is every request and event for `o1`, one id
  per event; for `o2`, whose part is to take the units away and to give them back, it is the
  requests. Two statements of one goroutine can be
  separated by any number of statements of the other.
* Two payment ids allow a second payment next to the first; `SnapshotThreshold = 2`
  puts a snapshot between the first save and a refund. It is 10 in the code
  (`eventstore/snapshot.go:15`), and a payment has three events at most, so that path is never
  taken: the bound only shows that it would be right.
* The second order of `payment` and the unreadable event are there for what they end as; one of
  each says it all.
* Two rows and two relays make batches that overlap in the backlog, and a failing row behind a
  published one. Partitions are independent logs, so one is enough. Two subscribers and one
  rebalance put a late commit of an old owner next to the new owner's work.
* Three troubles in `Gateway` trip a breaker that takes two (5 in the code) and make the
  probe of the half-open one fail; room for one bucket makes two clients evict each other, and
  a burst of one makes the second request of a client the one to refuse.
* Three failures in `Notification` exhaust the attempts at one message (`MAX_ATTEMPTS` is 3, as
  in the code), or put a rebalance and a failure between two attempts.
* Three versions let an entry be two changes behind, with an event for each on its way.
* A pool of two is the least that the payments consumer can work with (25 in the code): two
  requests that hold one connection each exhaust it, as 25 do there. Two troubles make an outage
  at a restart, a second signal during a shutdown, and a kill during one.
* In `Canary`, weights below, between and at the end of the steps; three failures cut a
  promotion, the rollback after it, and the one after that.

Deadlock is checked everywhere but in `OrderSaga`, `EventBus` and `Notification`, where the
system comes to rest once every event is dealt with; there the liveness properties (and
`NoLockCycle`) say what a deadlock would break.

### Fairness, and why

* `OrderSaga`: weak fairness of each worker's next statement (`Handle(w)`): the goroutine
  runs; and of delivering some published event (`Fetch`): Kafka keeps handing out what
  is uncommitted, in whatever order. Nothing is assumed about HTTP calls or databases succeeding, nor
  about when (or whether) customers, payments or late requests show up.
* `Inventory`: strong fairness of each goroutine's next statement, because Postgres queues
  the waiters of a row and so nobody is overtaken for ever; weak fairness of
  `DeadlockVictim`, since the detector runs on a timer. A call may always fail.
* `Payment`: weak fairness of each server's next step; strong fairness of delivering a
  ready event that is not marked and asks for a positive amount, to whichever consumer is free at
  the time. This stands for a subscriber whose partition has a committed offset, whose failures stay
  below `KAFKA_MAX_RETRIES`, and which gets past events that are dropped or end in the DLQ; what happens otherwise is `EventBus`'s subject.
* `EventBus`: weak fairness of each relay's next step (its ticker) and of each subscriber's
  next step (its loop). No publication, handler or DLQ write has to succeed.

* `Gateway`: requests that are under way are served (every remote call has a timeout), time
  refills buckets and ends open states, and customers keep ordering (strong, since an order
  needs a token). That troubles end is the bound `MaxTroubles`.
* `Notification`: tasks run, and the broker takes partitions away from a member that does not
  poll. No send or statement has to succeed.
* `ReadCache`: calls that have begun end, the consumer runs, Redis drops what expired.
* `Lifecycle`: main and the goroutines run; requests end, because their clients (the gateway's
  proxy timeout) give up and so cancel them; strong fairness for a select that can choose
  between its ticker and the closed channel, and for those who wait for a connection: `database/sql`
  and Go's `select` choose at random. Nothing says that a request gets its connections.
* `Canary`: a command that was started ends.

### What the violation says

`payment_redelivered` checks one sentence of the repository against the code:
`service/payment.go:34` says that a redelivered event never charges twice; a charge whose `Save`
failed left no trace to find, and the redelivered event charges again, under a new payment id
(`PROJECT.json`, "findings").

Other sentences of documents and comments do not agree with the code either. The models have
the code's behaviour, and the passing properties are about what does hold next to it:

* `docs/architecture/resilience.md:75` calls a redelivered release a no-op. `release()` reads the
  rows without `FOR UPDATE` (`stock.go:225`), so a client's retry that runs next to its timed-out
  first attempt adds the units back, and announces them, twice. The other way round, a release that
  reads before a reservation commits and marks its rows after it returns none of its units. Both
  happen in the run: `StockAddsUp` and `WholeOrderAnnouncedOnce` except what returns to a `raced`
  order, and promise of it that the movements, and so the counters, tell of every unit.
* `stock.go:44` promises to reserve *every* item; the duplicate check also sees the rows of its
  own transaction (`stock.go:58`), so a second line of the same product is skipped, and neither
  `NewOrder` nor the reservation handler refuses such an order. `Wanted` in `Inventory` is the
  quantity of the first line that names the product.
* `service/payment.go:33` and `docs/architecture/saga-pattern.md:84` promise one payment per order;
  two overlapping calls both find none and both save. `ClaimsAreRecorded` keeps account of both.
* ADR-002 (lines 22-25) says that a row published again is recognized by its event id; the relay
  draws a new id for every attempt (`relay.go:174`). `OncePerEventId` holds per id, and
  `BacklogMatchesTopic` allows a second publication only after a failure.
* `kafka.go:188-190` promises redelivery of what neither handler nor DLQ took; the loop goes on, and
  the next message's commit passes it. `UnsettledIsDelivered` counts it as lost (`leftBehind`), and
  says that no offset is ever committed right behind such a message.
* The same line of `resilience.md` calls a redelivered refund a no-op. `Refund` in `Payment`
  answers a second one with a conflict (`domain/payment.go:86`); `ClaimsAreRecorded` says that such a
  refusal is always about money that was given back or never taken.
* `kafka.go:149` promises one partition per aggregate; the `LeastBytes` balancer (`kafka.go:84`)
  ignores the key, so `Publish` in `EventBus` takes any partition.
* ADR-002 (lines 22-32) counts on redelivery after a crash; with `kafka.LastOffset`
  (`kafka.go:100`) there is none in a partition without a committed offset. `EventBus` starts with
  or without one; `missed` holds what a reader without one skips.
* The same in the notification service, where `auto_offset_reset` is left at aiokafka's default,
  latest (`consumer.py:80-87`): a replica that restarts before the group's first commit skips
  messages, and the next commit passes them. `OffsetWaits` and `EventuallySettled` except exactly
  these (`missed`).
* The consumers drop an event whose payload they cannot use (`consumer/payments.go:54-58` of the
  order service, `consumer/orders.go:63-67` of the payment service, `consumer/orders.go:48-52` of the
  inventory service): nil, so its offset is committed and neither retries nor DLQ see it, where
  `kafka.go:188-190` knows only handled messages and DLQ. `AckedIsHandled` names them.
* `NewOrder` accepts a total of zero and `Initiate` (`domain/payment.go:43`) refuses it: the order
  waits for a payment that nobody makes, no result ever comes, and its event ends in the DLQ.
  `ReadyIsAnswered` promises an answer to positive totals only.
* `docs/architecture/resilience.md:56-57` speaks of the unhealthy backend behind an open breaker; the
  reserve breaker of the order service also opens on shortages, which are 4xx answers of a healthy
  one (`client/inventory.go:112`). `TrippedByTroubles` counts them as troubles. It also stops where
  the first breaker opened: from then on the order breaker of the gateway counts the refusals of
  an open inventory breaker behind it.
* `canary.sh` copies stable's replica count (lines 44, 51), zero as well: then it routes traffic to
  a canary without pods. `CanaryHasPods` excepts that (`copied`).
* `docs/architecture/caching.md:52` has `product.updated` invalidate a product; nothing publishes
  that event. `EditProduct` in `ReadCache` changes a row without one, and only `CacheCatchesUp`
  speaks of products.

## 4. Theorems

Every safety invariant of the runs, the action properties `DecisionsAreFinal` and
`ReservationsSettle`, the one in `FaultyCanaryIsHeldBack`, and the refinement of four abstract
specifications (`OrderContract`, `Reservation`, `PaymentContract`, `Delivery`) are theorems for
every value of the constants: any sets of orders, products, goroutines, replicas, relays, consumers, rows and events, any batch
sizes, thresholds and attempts, and any bound on failures. Each component has its own module of
proofs; in each, `IInv` (or its parts, by name) is the inductive invariant, one lemma per
action or group of actions preserves it, and a theorem `Spec => []...` follows per property.

| Module | Theorem | Says |
|---|---|---|
| `OrderSagaProofs` | `TypeCorrect` | `TypeOK` |
| | `Invariance` | `Spec => []IInv`, the inductive invariant |
| | `StockDecided` | a confirmed order keeps its stock, a compensated saga has given it back |
| | `OutcomeAgrees` | committed saga and order rows agree; one outcome event per decided order, none before |
| | `DeadlockFree` | confirmation and failure never wait for each other |
| | `OffsetsFollowHandling` | offsets are committed only for events that took effect, are in the DLQ, or that the handler returns from at once (ignored type, no usable order id) |
| | `Finality` | decisions are final |
| | `Refinement` | the saga implements `OrderContract`, under the mapping in `OrderSaga` |
| | `KeepsReservation` | what the saga sees of the stock is a behaviour of `Reservation` |
| `EventBusProofs` | `SpecTypeOK` | `TypeOK`: offsets stay within the log, what is at hand is on the topic |
| | `SpecBacklogMatchesTopic` | a row leaves the backlog only published, and is published at most once more than things failed |
| | `SpecOncePerEventId` | one effect per event id |
| | `SpecUnsettledIsDelivered` | offsets are committed behind settled messages only; what else is passed was lost for one of two reasons |
| | `SpecImplementsDelivery` | the bus implements `Delivery` |
| `PaymentProofs` | `SpecInv`, `SpecTypeOK` | the invariant and `TypeOK` |
| | `SpecBooksAgree` | stream, read model, outbox, snapshots and `Load` agree |
| | `SpecClaimsAreRecorded` | what is claimed is on record; unrecorded charges are in flight or one failure's each |
| | `SpecImplementsContract` | the service implements `PaymentContract` |
| `InventoryProofs` | `SpecTypeOK` | `TypeOK`: no counter is ever negative, whatever overlaps |
| | `SpecStockAddsUp` | counters are the sums of the movements; movements agree with the rows (for returned and sold units unless the order raced) |
| | `SpecFreeInv` | the part of the invariant that does not look at races |
| | `SpecReservationsSettle` | rows go forward only, those of an order together |
| | `SpecImplementsReservation` | an order has one reservation, as in `Reservation` |
| | `SpecWholeOrderReserved` | all an order wants or nothing, announced once |
| | `SpecWholeOrderAnnouncedOnce` | the same, and its release announced once unless the order raced |
| | `SpecCallsTakeEffect` | a call that commits leaves the rows of its order as its caller expects, unless the order raced |
| `NotificationProofs` | `SpecTypeOK` | `TypeOK`: no statement misses its row, attempts are bounded |
| | `SpecOffsetWaits` | offsets are committed behind messages that are handled or in the DLQ; what else is passed was missed before the group's first commit |
| | `SpecCustomersAreTold` | rows tell the truth, one mail and at most one more per failure |
| `ReadCacheProofs` | `SpecInv`, `SpecTypeOK` | the invariant and `TypeOK` |
| | `SpecStaleEntryIsInvalidated` | a stale order entry is on its way out, with the exceptions named there |
| `GatewayProofs` | `SpecInv`, `SpecTypeOK` | the invariant and `TypeOK` |
| | `SpecLimitHolds` | the limiter's map and every client's tokens stay within their limits |
| | `SpecTrippedByTroubles` | no breaker opens before as many troubles of any kind as its threshold, and until then none counts one twice |
| `OperationsProofs` | `SpecInv`, `SpecTypeOK` | the invariant and `TypeOK`: the pool lends no more than it has |
| | `SpecEveryPartHasItsOthers` | nothing is closed under its users; a ready replica has all its parts |
| | `CanaryInv`, `CanaryTypes` | the invariant of `Canary` and its types, `CanaryTypeOK` |
| | `CanaryTrafficHasPods` | `CanaryHasPods`: traffic that promote or rollback left on the canary has pods, unless stable had none to copy |
| | `CanaryPromotesUnseenOnly` | a faulty canary gets more than the first step only while there is no rate of it |

### Assumptions

The named `ASSUME`s of the modules, which TLC evaluates in every run: bounds are naturals,
thresholds and batch sizes positive, `Nobody` and its like are none of the values they stand
beside, and the sets that are counted (rows, replicas, servers, requests, orders, products) are
finite. No theorem has a hypothesis of its own: what the code does not promise in every case
(section 3) is excepted in the property itself, case by case, with a history variable (`raced`,
`missed`, `leftBehind`, `evicted`, `copied`) that says when the case occurred.

### Why inductive invariants, and which

**Order saga.** The properties speak of committed rows, but what
keeps them true is what open transactions know. `ConfirmPayment` commits an order
status computed from a read that no lock protects: it is right because at that
point the transaction also holds the saga row, which is still `awaiting_payment`,
and no failing payment can have passed its checkpoint. `FailPayment` releases stock
before its order row is locked: it is right because the saga row is already
`compensating`, from where it can only go on. `WorkerInv` states this for every
value of `pc[w]`, `LockInv` that locks are only held by transactions at the
statements that need them, `RowsOf`, `CreatorOf` and `StockOf` tie the rows of an
order, its request and its reservation together (the version is determined by the
status, which makes the optimistic check decisive), and `LateInv` bounds what a
request nobody waits for may still do. `IInv` is their conjunction with `TypeOK` and
`AckedIsHandled`. Each safety property follows from `IInv` alone, `Finality`,
`Refinement` and `KeepsReservation` from `IInv` and `Next`.

**Event bus.** A row belongs to at most one open batch (`LockInv`), whatever is published or
marked is on the topic (`TopicInv`), and `CopiesInv` counts: a row that waits for its turn was
published at most as often as things failed, and once more at most afterwards. For the readers, `PassedInv`
says that everything before the offset and before the message at a member's hand, current or
former owner, is settled or lost, and everything before the reader's position but for that message. That is why the commit of an old owner, however late, moves the offset over
such messages only, and why the new owner, who starts at the offset, misses nothing.
For `Delivery`, the topics are one set of events: `DrawnInv` (ids on a topic have been drawn)
makes every publication a new event, `TopicInv` lets a batch retire its rows, and the step of a
consumer changes what `Delivery` shows in `Handle` and `SendToDLQ` only.

**Payment.** `PaymentOK` gives a payment one of four streams and computes everything else from
it; `ServerOK` says what a server knows at each statement, above all that a state rebuilt from a
snapshot and later events (two reads) is one the payment was in (`Rebuilt`), so a save on top
of it either extends that very stream or is refused by the version index. That is
all `SpecImplementsContract` needs: a save of what a server holds is the abstract step
that its last event names. `MoneyInv` sets
the charges nothing recorded against the charges in flight and the failures.

**Inventory.** `BaseInv` ties uncommitted writes to row locks and keeps every counter
nonnegative after any of them. `WritesInv` says which rows a transaction can have written, and
`RowsInv` that the rows of an order are of one status and of the quantities it wants: the unique
index on the rows and the `WHERE status = 'reserved'` of the update are what moves a row one way,
and one status for all rows of an order makes its commit a step of `Reservation`. `CountedInv` sets
what a transaction did to the counters against what it moved, from which every commit keeps the
`Ledger`. With the announcement of the reservation these make `FreeInv`, which does not look at
races at all. For the orders that are not raced `IInv` adds that calls at work on one of them side by
side are reservations (`SideBySide`), so that what a release has found is what it will mark, and
what it has moved is what it has found so far (`Releasing`); hence `ReleasedOnce` and
`SettledOnce`. The sums over orders are `SumFunctionOnSet` of a finite set; the lemmas about
them (`SumEmpty` and those around it) are proved from the well-foundedness of taking elements
away from a finite set, as the induction theorems of the library cannot be instantiated.

**Notification.** `RowsInv` counts the tasks that will still mark a row against the rows that are
pending; `MailInv` counts the mails sent and those that tasks other than the owner's may still
send against the failures, with one mail free of charge as long as the owner does not owe it.

**Caches.** What a reader holds must be as good as what is in the cache (`Covered` for both),
since it is put there without another look.

**Gateway.** `LimitInv` makes the debt of a client whose bucket is kept exactly what its bucket
lacks. `Account` adds to a breaker's failures the requests that will still be charged to it
(`Owed`): a call that is refused later because its client has left counts for the trouble that
was then, so no trouble counts twice.

**Server processes.** `TodoOK`: `todo` is a rest of main's list, so what is not in it is done.
`UsesOK` says who needs what at any time, `StartingOK` and `StoppingOK` what a half done start or
shutdown has, by what is still in `todo`: the relay is up before the consumers that enqueue, and
publisher and database go after the relay has stopped, not merely been told to.

**Canary.** `PodsInv` orders pods and traffic (pods before a promotion routes, no traffic before
they go), `MeasuredInv` keeps the last reading true of the version that runs until the step it
allowed has been routed.

### Only model-checked

* Every liveness property (`EveryEventSettles`, `ResultDecidesOrder`, `CallsEnd`, `ReadyIsAnswered`,
  `EnqueuedIsSettled`, `EventuallySettled`, `BreakersRecover`, `CacheCatchesUp`, `BackInService`):
  liveness under fairness, like `ENABLED`, is out of the prover's reach.
* Of `FaultyCanaryIsHeldBack`, the half that is liveness: traffic goes once a rate was too high.
* The violation of section 3.

The refinements of `Reservation`, `PaymentContract` and `Delivery`, and `SpecCallsTakeEffect`, are
the other way round: TLC found no violation on the instances of the runs, but no run repeats that,
as the theorems cover it.

## 5. What could follow

The models are done, and so are their safety theorems. Two steps would tie the modules closer
together:

1. `OrderSaga` over `Delivery`: both say the same of redelivery, but `OrderSaga` states it in its
   own `Fetch` and `skipped`, and its events are payments' results rather than outbox rows.
2. A saga that calls `Inventory` itself, statement by statement. `Reservation` is the
   interface both are proved against; what it leaves out is which call changed the stock.

## 6. Not modelled

Configuration, logging, tracing, metrics, deployment manifests: parsing and observability
without protocol. Of the manifests' numbers two matter: the grace period (30 s, the server's own
shutdown timeout) is a kill during the shutdown in `Lifecycle`; that the mesh retries a POST on a
5xx makes a second order under a new id, which no service can tell from a new one. Creating and listing products: single-row
writes. In the gateway: headers, CORS, rewriting, and routes beyond their backend. The
notification service's HTTP API, which reads, and the wording of mails. `Get` and `List` of orders
change nothing (in `Gateway` they are the requests that only read). `FailAfterPayment` and
`Cancel` of a payment have no caller in the repository. Two operators who run the canary script
for one service at the same time: nothing in it keeps them apart, so nothing holds.
