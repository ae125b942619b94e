----------------------------- MODULE Lifecycle -----------------------------
(***************************************************************************)
(* One replica of a Go service from its start to its end, again and again: *)
(* what main starts and stops in which order, next to the goroutines that  *)
(* use what it opens and closes (HTTP handlers, consumers, the relay) and  *)
(* share its pool of database connections, a signal at any time, and       *)
(* dependencies that come and go.                                          *)
(*                                                                         *)
(* What the goroutines do is the subject of the other modules; here it     *)
(* matters when they run.                                                  *)
(***************************************************************************)
EXTENDS Naturals, Sequences, SequencesExt, FiniteSets

CONSTANTS
    Requests,       \* HTTP requests that may be in flight together
    PoolSize,       \* DB_MAX_OPEN_CONNS
    MaxTroubles     \* bound: outages, signals, kills and failures in one behaviour

ASSUME RequestsAssumption == IsFiniteSet(Requests)

\* The payments consumer needs two connections at once; 25 is the default.
ASSUME PoolAssumption == PoolSize \in Nat /\ PoolSize >= 2
ASSUME TroublesAssumption == MaxTroubles \in Nat

VARIABLES
    service,    \* whose main runs
    phase,      \* "down", "starting", "serving" (main waits for a signal) or "stopping"
    todo,       \* what main still has to start or to stop, in order
    open,       \* what is started, connected or listening; "server" is the goroutine that
                \* is about to listen, "http" the listener
    serving,    \* requests in flight
    consumer,   \* consumer[c]: "off", "idle", "busy", or "cancelled" with a message at hand
    batch,      \* the relay is in RelayBatch
    held,       \* held[g]: database connections that goroutine g has out of the pool
    quit,       \* relay.stop is closed
    done,       \* signals that wait in the channel done
    forced,     \* srv.Stop ran into its timeout
    outages,    \* dependencies that are down
    troubles

mainVars  == <<service, phase, todo>>
workVars  == <<serving, consumer, batch, held>>
flagVars  == <<quit, done, forced>>
vars == <<mainVars, open, workVars, flagVars, outages, troubles>>

----------------------------------------------------------------------------
\* The four mains: what is started in which order, and stopped after a signal

OrderMain ==
    <<"db", "redis", "publisher", "relay", "events", "invalidation", "signals", "server">>

InventoryMain == OrderMain

PaymentMain == <<"db", "publisher", "relay", "events", "signals", "server">>

GatewayMain == <<"limiter", "signals", "server">>

\* Deferred calls come last.
OrderShutdown ==
    <<"http", "consumers", "events", "invalidation", "relay", "publisher", "redis", "db">>

InventoryShutdown == OrderShutdown

PaymentShutdown == <<"http", "consumers", "events", "relay", "publisher", "db">>

GatewayShutdown == <<"limiter", "http">>

MainOf == [order |-> OrderMain, inventory |-> InventoryMain,
           payment |-> PaymentMain, gateway |-> GatewayMain]

ShutdownOf == [order |-> OrderShutdown, inventory |-> InventoryShutdown,
               payment |-> PaymentShutdown, gateway |-> GatewayShutdown]

Consumers == {"events", "invalidation"}

\* The goroutines that work with the database.
Workers == Requests \cup {"events", "relay"}

Dependencies == {"db", "redis", "kafka", "backends"}

Trouble == troubles < MaxTroubles /\ troubles' = troubles + 1

----------------------------------------------------------------------------
\* The process

\* All that is left of a process that ends, in whatever way.
Exit ==
    /\ phase' = "down" /\ todo' = <<>> /\ open' = {}
    /\ serving' = {} /\ batch' = FALSE
    /\ consumer' = [c \in Consumers |-> "off"]
    /\ held' = [g \in Workers |-> 0]
    /\ quit' = FALSE /\ done' = 0 /\ forced' = FALSE
    /\ UNCHANGED <<service, outages>>

Boot ==
    /\ phase = "down"
    /\ phase' = "starting" /\ todo' = MainOf[service]
    /\ UNCHANGED <<service, open, workVars, flagVars, outages, troubles>>

Kill == phase # "down" /\ Trouble /\ Exit

\* Mutant: the channel takes every signal.
SignalQueued ==
    /\ phase # "down" /\ Trouble
    /\ IF "signals" \in open
       THEN done' = done + 1 /\ UNCHANGED <<mainVars, open, workVars, quit, forced, outages>>
       ELSE Exit

\* A signal ends the process until main has registered for it; later ones wait in a
\* channel of capacity one.
Signal ==
    /\ phase # "down" /\ Trouble
    /\ IF "signals" \in open
       THEN done' = 1 /\ UNCHANGED <<mainVars, open, workVars, quit, forced, outages>>
       ELSE Exit

----------------------------------------------------------------------------
\* main, up to <-done

Starting(part) ==
    /\ phase = "starting" /\ todo # <<>> /\ Head(todo) = part
    /\ todo' = Tail(todo)
    /\ UNCHANGED <<service, phase, flagVars, serving, batch, held, outages, troubles>>

Start ==
    \E part \in {"publisher", "relay", "limiter", "signals", "server"} :
        /\ Starting(part)
        /\ open' = open \cup {part}
        /\ UNCHANGED consumer

NewPostgresConnection ==
    \/ /\ "db" \notin outages /\ Starting("db")
       /\ open' = open \cup {"db"}
       /\ UNCHANGED consumer
    \/ /\ "db" \in outages /\ phase = "starting" /\ todo # <<>> /\ Head(todo) = "db"
       /\ Exit /\ UNCHANGED troubles

\* Without Redis the replica runs without a cache, until it ends.
NewRedisConnection ==
    /\ Starting("redis")
    /\ open' = IF "redis" \in outages THEN open ELSE open \cup {"redis"}
    /\ UNCHANGED consumer

StartConsumer(c) ==
    /\ Starting(c)
    /\ IF c = "invalidation" /\ "redis" \notin open
       THEN UNCHANGED <<open, consumer>>
       ELSE open' = open \cup {c} /\ consumer' = [consumer EXCEPT ![c] = "idle"]

Await ==
    /\ phase = "starting" /\ todo = <<>>
    /\ phase' = "serving"
    /\ UNCHANGED <<service, todo, open, workVars, flagVars, outages, troubles>>

\* The goroutine of srv.Start; an address in use is fatal.
Listen ==
    /\ "server" \in open
    /\ \/ /\ open' = (open \ {"server"}) \cup {"http"}
          /\ UNCHANGED <<mainVars, workVars, flagVars, outages, troubles>>
       \/ Trouble /\ Exit

----------------------------------------------------------------------------
\* What the goroutines do in the meantime

Accept(q) ==
    /\ "http" \in open
    /\ serving' = serving \cup {q}
    /\ UNCHANGED <<mainVars, open, consumer, batch, held, flagVars, outages, troubles>>

GivesBack(g) == held' = [held EXCEPT ![g] = 0]

\* The request is done, or nobody waits for its answer any more.
Answer(q) ==
    /\ q \in serving
    /\ serving' = serving \ {q}
    /\ GivesBack(q)
    /\ UNCHANGED <<mainVars, open, consumer, batch, flagVars, outages, troubles>>

\* The order service creates orders and handles payments in a transaction, and reads the
\* order (or opens the compensating transaction) over a second connection in the middle.
Needs(g) == IF service = "order" /\ g # "relay" THEN 2 ELSE 1

AtWork ==
    {g \in Workers :
        CASE g = "relay"  -> batch
          [] g = "events" -> consumer["events"] = "busy"
          [] OTHER        -> g \in serving}

\* Connections that are out: the first and the second one of whoever has them.
Out == {k \in Workers \X {1, 2} : k[2] <= held[k[1]]}

\* How many are in the pool.
Pool == PoolSize - Cardinality(Out)

\* The pool hands one to anybody who asks, at random.
Connect(g) ==
    /\ "db" \in open /\ g \in AtWork
    /\ held[g] < Needs(g) /\ Pool > 0
    /\ held' = [held EXCEPT ![g] = @ + 1]
    /\ UNCHANGED <<mainVars, open, serving, consumer, batch, flagVars, outages, troubles>>

Fetch(c) ==
    /\ consumer[c] = "idle" /\ "kafka" \notin outages
    /\ consumer' = [consumer EXCEPT ![c] = "busy"]
    /\ UNCHANGED <<mainVars, open, serving, batch, held, flagVars, outages, troubles>>

\* The attempt fails; the next one starts anew.
RetryMessage ==
    /\ consumer["events"] = "busy" /\ Trouble
    /\ GivesBack("events")
    /\ UNCHANGED <<mainVars, open, serving, consumer, batch, flagVars, outages>>

\* Mutant: the handler's transaction is not ended.
EndMessageLeaks(c) ==
    /\ \/ consumer[c] = "busy" /\ (c = "events" => held[c] = Needs(c))
       \/ consumer[c] = "cancelled"
    /\ consumer' = [consumer EXCEPT ![c] = IF @ = "busy" THEN "idle" ELSE "off"]
    /\ UNCHANGED <<mainVars, open, serving, batch, held, flagVars, outages, troubles>>

\* Subscribe goes on with the next message, or ends when its context is cancelled,
\* which also ends waiting for a connection.
EndMessage(c) ==
    /\ \/ consumer[c] = "busy" /\ (c = "events" => held[c] = Needs(c))
       \/ consumer[c] = "cancelled"
    /\ consumer' = [consumer EXCEPT ![c] = IF @ = "busy" THEN "idle" ELSE "off"]
    /\ IF c = "events" THEN GivesBack(c) ELSE UNCHANGED held
    /\ UNCHANGED <<mainVars, open, serving, batch, flagVars, outages, troubles>>

\* The relay's select may take the tick although stop is closed.
BeginBatch ==
    /\ "relay" \in open /\ ~batch
    /\ batch' = TRUE
    /\ UNCHANGED <<mainVars, open, serving, consumer, held, flagVars, outages, troubles>>

EndBatch ==
    /\ batch /\ held["relay"] = Needs("relay")
    /\ batch' = FALSE
    /\ GivesBack("relay")
    /\ UNCHANGED <<mainVars, open, serving, consumer, flagVars, outages, troubles>>

RelayReturns ==
    /\ "relay" \in open /\ quit /\ ~batch
    /\ open' = open \ {"relay"}
    /\ UNCHANGED <<mainVars, workVars, flagVars, outages, troubles>>

----------------------------------------------------------------------------
\* main, after <-done

BeginShutdown ==
    /\ phase = "serving" /\ done = 1
    /\ phase' = "stopping" /\ todo' = ShutdownOf[service] /\ done' = 0
    /\ UNCHANGED <<service, open, workVars, quit, forced, outages, troubles>>

Stopping(part) == phase = "stopping" /\ todo # <<>> /\ Head(todo) = part

\* Shutdown closes the listener, or keeps the server from listening, and waits for
\* the requests in flight,
CloseListener ==
    /\ Stopping("http") /\ open \cap {"server", "http"} # {}
    /\ open' = open \ {"server", "http"}
    /\ UNCHANGED <<mainVars, workVars, flagVars, outages, troubles>>

\* for 30 seconds at most.
Drain ==
    /\ Stopping("http") /\ open \cap {"server", "http"} = {}
    /\ forced' = (serving # {})
    /\ todo' = Tail(todo)
    /\ UNCHANGED <<service, phase, open, workVars, quit, done, outages, troubles>>

\* stopConsumer cancels the consumers' context and does not wait for them.
StopConsumers ==
    /\ Stopping("consumers")
    /\ consumer' = [c \in Consumers |-> IF consumer[c] = "busy" THEN "cancelled" ELSE "off"]
    /\ todo' = Tail(todo)
    /\ UNCHANGED <<service, phase, open, serving, batch, held, flagVars, outages, troubles>>

Close ==
    \E part \in {"events", "invalidation", "publisher", "redis", "db", "limiter"} :
        /\ Stopping(part)
        /\ open' = open \ {part}
        /\ todo' = Tail(todo)
        /\ UNCHANGED <<service, phase, workVars, flagVars, outages, troubles>>

\* Mutant: relay.Stop does not wait.
StopRelayAtOnce ==
    /\ Stopping("relay")
    /\ quit' = TRUE
    /\ todo' = Tail(todo)
    /\ UNCHANGED <<service, phase, open, workVars, done, forced, outages, troubles>>

StopRelay ==
    /\ Stopping("relay")
    /\ quit' = TRUE
    /\ \/ ~quit /\ UNCHANGED todo
       \/ quit /\ "relay" \notin open /\ todo' = Tail(todo)
    /\ UNCHANGED <<service, phase, open, workVars, done, forced, outages, troubles>>

Return ==
    /\ phase = "stopping" /\ todo = <<>>
    /\ Exit /\ UNCHANGED troubles

----------------------------------------------------------------------------
\* Dependencies

Outage ==
    /\ Trouble
    /\ \E d \in Dependencies \ outages : outages' = outages \cup {d}
    /\ UNCHANGED <<mainVars, open, workVars, flagVars>>

Recover ==
    /\ \E d \in outages : outages' = outages \ {d}
    /\ UNCHANGED <<mainVars, open, workVars, flagVars, troubles>>

----------------------------------------------------------------------------
\* Readiness

\* Redis is checked only if it was there at the start.
Checks ==
    IF service = "gateway" THEN {"backends"} ELSE {"db", "kafka"} \cup ({"redis"} \cap open)

\* What /health/ready answers, if anything answers; the ping takes a connection.
Ready ==
    /\ "http" \in open /\ Checks \cap outages = {}
    /\ "db" \in Checks => Pool > 0

----------------------------------------------------------------------------
\* Specification

Init ==
    /\ service \in DOMAIN MainOf
    /\ phase = "down" /\ todo = <<>> /\ open = {}
    /\ serving = {} /\ batch = FALSE
    /\ consumer = [c \in Consumers |-> "off"]
    /\ held = [g \in Workers |-> 0]
    /\ quit = FALSE /\ done = 0 /\ forced = FALSE
    /\ outages = {} /\ troubles = 0

Main ==
    \/ Boot \/ Start \/ NewPostgresConnection \/ NewRedisConnection
    \/ \E c \in Consumers : StartConsumer(c)
    \/ Await \/ BeginShutdown \/ CloseListener \/ Drain \/ StopConsumers
    \/ Close \/ StopRelay \/ Return

Next ==
    \/ Main \/ Kill \/ Signal \/ Listen
    \/ \E q \in Requests : Accept(q) \/ Answer(q)
    \/ \E c \in Consumers : Fetch(c) \/ EndMessage(c)
    \/ \E g \in Workers : Connect(g)
    \/ RetryMessage \/ BeginBatch \/ EndBatch \/ RelayReturns
    \/ Outage \/ Recover

Spec == Init /\ [][Next]_vars

\* main runs and a replica that ended is started again; the goroutines run; a select
\* that finds stop closed again and again takes it in the end, as does chance for
\* whoever waits for a connection; requests end because their clients have timeouts;
\* outages pass.
Fairness ==
    /\ WF_vars(Main) /\ WF_vars(Listen)
    /\ \A q \in Requests : WF_vars(Answer(q))
    /\ \A c \in Consumers : WF_vars(EndMessage(c))
    /\ \A g \in {"events", "relay"} : SF_vars(Connect(g))
    /\ WF_vars(EndBatch) /\ SF_vars(RelayReturns)
    /\ WF_vars(Recover)

FairSpec == Spec /\ Fairness

----------------------------------------------------------------------------
\* Properties

Parts == Consumers \cup {"db", "redis", "publisher", "relay", "limiter", "signals", "server", "http"}

TypeOK ==
    /\ service \in DOMAIN MainOf
    /\ phase \in {"down", "starting", "serving", "stopping"}
    /\ ToSet(todo) \subseteq Parts \cup {"consumers"}
    /\ open \subseteq Parts /\ outages \subseteq Dependencies
    /\ serving \subseteq Requests /\ batch \in BOOLEAN
    /\ consumer \in [Consumers -> {"off", "idle", "busy", "cancelled"}]
    /\ held \in [Workers -> 0..2] /\ Pool \in 0..PoolSize
    /\ quit \in BOOLEAN /\ done \in 0..1 /\ forced \in BOOLEAN
    /\ quit \/ forced => phase = "stopping"
    /\ troubles \in 0..MaxTroubles

\* main closes nothing under a goroutine that uses it: a batch of the relay keeps its
\* database and its publisher, a consumer that was not told to stop its reader and its
\* store, and a request its database unless srv.Stop gave up on it. And while a replica
\* answers that it is ready, its relay and consumers run: one that reads a cache also
\* consumes the events that invalidate it.
EveryPartHasItsOthers ==
    /\ batch => {"db", "publisher"} \subseteq open
    /\ \A c \in Consumers : consumer[c] \in {"idle", "busy"} =>
           {c, IF c = "events" THEN "db" ELSE "redis"} \subseteq open
    /\ serving # {} /\ ~forced /\ service # "gateway" => "db" \in open
    /\ Ready /\ service # "gateway" =>
           /\ "relay" \in open /\ ~quit
           /\ consumer["events"] \in {"idle", "busy"}
           /\ "redis" \in open => consumer["invalidation"] \in {"idle", "busy"}

\* Whatever signals, outages and crashes come, and however it was stopped, a replica
\* serves in the end, and its probe finds it ready again and again, although requests
\* that hold a connection and ask for another can take the whole pool: no message and
\* no batch that needs one waits for ever.
BackInService ==
    /\ <>[]("http" \in open /\ Checks \cap outages = {})
    /\ []<>Ready
    /\ []<>(consumer["events"] # "busy") /\ []<>(~batch)
=============================================================================
