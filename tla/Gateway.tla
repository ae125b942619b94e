------------------------------ MODULE Gateway ------------------------------
(***************************************************************************)
(* The way of a client's request: rate limiter and token check of the API  *)
(* gateway, its circuit breaker for the order service, the order service's *)
(* handlers, and the breakers and retries of the calls they make to the    *)
(* inventory service.                                                      *)
(*                                                                         *)
(* Clients stand for the addresses the limiter tells apart, with one       *)
(* request under way each. The inventory service is seen from outside.     *)
(***************************************************************************)
EXTENDS Breaker, FiniteSets, FiniteSetsExt, Functions

CONSTANTS
    Clients,
    Burst,          \* size of a client's token bucket
    MaxClients,     \* buckets the limiter keeps
    MinEvict,       \* least number of buckets an eviction drops
    MaxAttempts,    \* retryMaxAttempts of the order service's clients
    TroubleKinds,   \* what may go wrong
    MaxTroubles     \* bound: how often, in one behaviour

ASSUME LimiterAssumption == {Burst, MaxClients, MinEvict} \subseteq Nat \ {0}
ASSUME AttemptsAssumption == MaxAttempts \in Nat \ {0}
ASSUME TroublesAssumption == TroubleKinds \subseteq {"refusal", "fault", "leave"} /\ MaxTroubles \in Nat

VARIABLES
    limiters,   \* limiters[c]: tokens in the bucket of c, for the clients it knows
    breaker,    \* breaker[n]: one per remote operation
    pc,         \* pc[c]: how far the request of c got
    gone,       \* gone[c]: its context is cancelled, the gateway has answered
    attempt,    \* attempt[c]: attempts of its release call
    code,       \* code[c]: the order service's answer
    troubles,
    debt,       \* debt[c]: tokens c took that time has not given back yet
    evicted     \* clients whose bucket was ever dropped

limiterVars == <<limiters, debt, evicted>>
handlerVars == <<gone, attempt, code>>
vars == <<limiterVars, breaker, pc, handlerVars, troubles>>

Names == {"order", "inventory_reserve", "inventory_release"}

Goto(c, l) == pc' = [pc EXCEPT ![c] = l]

\* A refusal is a 4xx of the inventory service, a fault is a service or database
\* that fails, and a client leaves when it cancels its request or runs out of time.
Trouble(kind) ==
    /\ kind \in TroubleKinds
    /\ troubles < MaxTroubles
    /\ troubles' = troubles + 1

Failure == [refusal |-> "4xx", fault |-> "5xx"]

----------------------------------------------------------------------------
\* Rate limiter

Known == DOMAIN limiters

\* A tenth of the buckets, at least MinEvict, at most all.
EvictCount == Min({Max({Cardinality(Known) \div 10, MinEvict}), Cardinality(Known)})

\* The map is iterated in no particular order.
EvictOldestClients == {Known \ dropped : dropped \in kSubset(EvictCount, Known)}

\* Mutant: every request starts with a new bucket.
BucketAlwaysNew(c, kept) == [d \in kept \cup {c} |-> IF d = c THEN Burst ELSE limiters[d]]

Bucket(c, kept) == [d \in kept \cup {c} |-> IF d \in Known THEN limiters[d] ELSE Burst]

\* Debt is kept for clients that were never evicted, and saturates above Burst.
Allow(c) ==
    \E kept \in IF c \notin Known /\ Cardinality(Known) >= MaxClients
                THEN EvictOldestClients ELSE {Known} :
        /\ Bucket(c, kept)[c] > 0
        /\ limiters' = [Bucket(c, kept) EXCEPT ![c] = @ - 1]
        /\ evicted' = evicted \cup (Known \ kept)
        /\ debt' = [d \in Clients |-> IF d \in evicted' THEN 0
                                     ELSE IF d = c THEN Min({debt[d] + 1, Burst + 1})
                                     ELSE debt[d]]

\* The limiter's ticker.
Cleanup ==
    /\ Cardinality(Known) > MaxClients \div 2
    /\ \E kept \in EvictOldestClients :
          /\ limiters' = Restrict(limiters, kept)
          /\ evicted' = evicted \cup (Known \ kept)
          /\ debt' = [d \in Clients |-> IF d \in evicted' THEN 0 ELSE debt[d]]
    /\ UNCHANGED <<breaker, pc, handlerVars, troubles>>

Gain(c) ==
    /\ limiters' = [limiters EXCEPT ![c] = @ + 1]
    /\ debt' = [debt EXCEPT ![c] = Max({@ - 1, 0})]
    /\ UNCHANGED <<evicted, breaker, pc, handlerVars, troubles>>

\* Mutant: tokens pile up beyond the burst.
RefillUncapped(c) == c \in Known /\ limiters[c] <= Burst /\ Gain(c)

\* A token's worth of time goes by for c.
Refill(c) == c \in {d \in Known : limiters[d] < Burst} /\ Gain(c)

----------------------------------------------------------------------------
\* Gateway: limit, authenticate, route, proxy

\* An order or a read for the order service.
Request(c, kind) ==
    /\ pc[c] = "idle"
    /\ Allow(c)
    /\ Goto(c, kind)
    /\ UNCHANGED <<breaker, handlerVars, troubles>>

\* The gateway answers on its own: a bad token, no such route, health.
AnsweredLocally(c) ==
    /\ pc[c] = "idle"
    /\ Allow(c)
    /\ UNCHANGED <<breaker, pc, handlerVars, troubles>>

Handlers == [create |-> "reserve", read |-> "reading"]

\* proxyToService: an open breaker answers 503 without forwarding.
ProxyToService(c) ==
    /\ pc[c] \in DOMAIN Handlers
    /\ \/ ~Admits(breaker["order"]) /\ Goto(c, "idle") /\ UNCHANGED breaker
       \/ /\ Admits(breaker["order"])
          /\ breaker' = [breaker EXCEPT !["order"] = Admitted(@, c)]
          /\ Goto(c, Handlers[pc[c]])
    /\ UNCHANGED <<limiterVars, handlerVars, troubles>>

\* Mutant: every status from 400 on counts as a failure of the order service.
CountsAsFailureFrom400(status) == status # "2xx"

\* The status that the proxied response has (or that proxyErrorHandler gave it).
CountsAsFailure(status) == status = "5xx"

\* The order service's answer passes through the proxy.
Reply(c) ==
    /\ pc[c] = "reply"
    /\ breaker' = [breaker EXCEPT !["order"] =
                       IF gone[c] THEN @ ELSE Report(@, c, ~CountsAsFailure(code[c]))]
    /\ gone' = [gone EXCEPT ![c] = FALSE]
    /\ attempt' = [attempt EXCEPT ![c] = 0]
    /\ code' = [code EXCEPT ![c] = "none"]
    /\ Goto(c, "idle")
    /\ UNCHANGED <<limiterVars, troubles>>

InOrderService == {"reading", "reserve", "reserving", "save", "release", "releasing"}

\* Mutant: a request that the client cancelled is not reported to the breaker.
GiveUpUnreported(c) ==
    /\ pc[c] \in InOrderService /\ ~gone[c]
    /\ Trouble("leave")
    /\ gone' = [gone EXCEPT ![c] = TRUE]
    /\ UNCHANGED <<limiterVars, breaker, pc, attempt, code>>

\* The client leaves, or ProxyTimeout ends: the proxy answers 502 or 504, which is
\* a failure of the order service, and cancels the request there.
GiveUp(c) ==
    /\ pc[c] \in InOrderService /\ ~gone[c]
    /\ Trouble("leave")
    /\ gone' = [gone EXCEPT ![c] = TRUE]
    /\ breaker' = [breaker EXCEPT !["order"] = Report(@, c, FALSE)]
    /\ UNCHANGED <<limiterVars, pc, attempt, code>>

----------------------------------------------------------------------------
\* Order service

Answer(c, status) ==
    /\ code' = [code EXCEPT ![c] = status]
    /\ Goto(c, "reply")

\* Get and List.
Read(c) ==
    /\ pc[c] = "reading"
    /\ \/ \E status \in {"2xx", "4xx"} : Answer(c, status) /\ UNCHANGED troubles
       \/ Answer(c, "5xx") /\ (Trouble("fault") \/ (gone[c] /\ UNCHANGED troubles))
    /\ UNCHANGED <<limiterVars, breaker, gone, attempt>>

\* resilience.Execute up to the call itself: refused, or under way.
Execute(c, name, l) ==
    /\ \/ ~Admits(breaker[name]) /\ Answer(c, "5xx") /\ UNCHANGED breaker
       \/ /\ Admits(breaker[name])
          /\ breaker' = [breaker EXCEPT ![name] = Admitted(@, c)]
          /\ Goto(c, l)
          /\ UNCHANGED code

Executed(c, name, success) ==
    breaker' = [breaker EXCEPT ![name] = Report(@, c, success)]

Reserve(c) ==
    /\ pc[c] = "reserve"
    /\ Execute(c, "inventory_reserve", "reserving")
    /\ UNCHANGED <<limiterVars, gone, attempt, troubles>>

\* do: the stock is there, or the call is refused (a shortage), or it fails.
\* Either error counts at the breaker; no error is retried.
Reserved(c) ==
    /\ pc[c] = "reserving"
    /\ \/ /\ Executed(c, "inventory_reserve", TRUE)
          /\ Goto(c, "save")
          /\ UNCHANGED <<code, troubles>>
       \/ /\ Executed(c, "inventory_reserve", FALSE)
          /\ \E kind \in DOMAIN Failure : Trouble(kind) /\ Answer(c, Failure[kind])
       \/ /\ gone[c]
          /\ Executed(c, "inventory_reserve", FALSE)
          /\ Answer(c, "5xx")
          /\ UNCHANGED troubles
    /\ UNCHANGED <<limiterVars, gone, attempt>>

\* The order is saved and waits for its payment; or it is saved but cannot be marked
\* as waiting, because it has moved on (4xx) or the database fails (5xx), and keeps its
\* stock; or it is not saved and the stock is to be released.
Save(c) ==
    /\ pc[c] = "save"
    /\ \/ /\ \E status \in {"2xx", "4xx"} : Answer(c, status)
          /\ UNCHANGED <<attempt, troubles>>
       \/ /\ Answer(c, "5xx")
          /\ IF gone[c] THEN UNCHANGED troubles ELSE Trouble("fault")
          /\ UNCHANGED attempt
       \/ /\ IF gone[c] THEN UNCHANGED troubles ELSE Trouble("fault")
          /\ attempt' = [attempt EXCEPT ![c] = 1]
          /\ Goto(c, "release")
          /\ UNCHANGED code
    /\ UNCHANGED <<limiterVars, breaker, gone>>

\* Release runs under the request's context: Retry does not start without it.
Release(c) ==
    /\ pc[c] = "release"
    /\ \/ gone[c] /\ Answer(c, "5xx") /\ UNCHANGED breaker
       \/ ~gone[c] /\ Execute(c, "inventory_release", "releasing")
    /\ UNCHANGED <<limiterVars, gone, attempt, troubles>>

isRetryableInventoryError(status) == status = "5xx"

\* A server-side failure is tried again MaxAttempts times in all; the customer's
\* answer is the failed save, whatever comes of the release.
Released(c) ==
    /\ pc[c] = "releasing"
    /\ \/ /\ Executed(c, "inventory_release", TRUE)
          /\ Answer(c, "5xx")
          /\ UNCHANGED <<attempt, troubles>>
       \/ \E kind \in DOMAIN Failure :
             /\ Trouble(kind) \/ (gone[c] /\ UNCHANGED troubles)
             /\ Executed(c, "inventory_release", FALSE)
             /\ IF isRetryableInventoryError(Failure[kind]) /\ attempt[c] < MaxAttempts
                THEN /\ attempt' = [attempt EXCEPT ![c] = @ + 1]
                     /\ Goto(c, "release")
                     /\ UNCHANGED code
                ELSE Answer(c, "5xx") /\ UNCHANGED attempt
    /\ UNCHANGED <<limiterVars, gone>>

----------------------------------------------------------------------------
\* The breakers' clocks

\* OpenTimeout is over: the next call is a probe.
OpenTimeout(n) ==
    /\ breaker[n].state = "open"
    /\ breaker' = [breaker EXCEPT ![n] = Fresh("half_open")]
    /\ UNCHANGED <<limiterVars, pc, handlerVars, troubles>>

\* A counting window ends: a new generation, without the calls under way.
WindowEnds(n) ==
    /\ breaker[n].state = "closed"
    /\ breaker' = [breaker EXCEPT ![n] = Fresh("closed")]
    /\ UNCHANGED <<limiterVars, pc, handlerVars, troubles>>

----------------------------------------------------------------------------
\* Specification

Init ==
    /\ limiters = [c \in {} |-> Burst]
    /\ debt = [c \in Clients |-> 0]
    /\ evicted = {}
    /\ breaker = [n \in Names |-> Fresh("closed")]
    /\ pc = [c \in Clients |-> "idle"]
    /\ gone = [c \in Clients |-> FALSE]
    /\ attempt = [c \in Clients |-> 0]
    /\ code = [c \in Clients |-> "none"]
    /\ troubles = 0

Serve(c) ==
    \/ ProxyToService(c) \/ Read(c) \/ Reserve(c) \/ Reserved(c)
    \/ Save(c) \/ Release(c) \/ Released(c) \/ Reply(c)

Next ==
    \/ \E c \in Clients :
          \/ \E kind \in DOMAIN Handlers : Request(c, kind)
          \/ AnsweredLocally(c) \/ Serve(c) \/ GiveUp(c) \/ Refill(c)
    \/ Cleanup
    \/ \E n \in Names : OpenTimeout(n) \/ WindowEnds(n)

Spec == Init /\ [][Next]_vars

\* Time passes, requests are worked on (every remote call has a timeout), and
\* customers keep ordering. Troubles end, as MaxTroubles says.
Fairness ==
    /\ \A c \in Clients : WF_vars(Serve(c)) /\ WF_vars(Refill(c)) /\ SF_vars(Request(c, "create"))
    /\ \A n \in Names : WF_vars(OpenTimeout(n))

FairSpec == Spec /\ Fairness

----------------------------------------------------------------------------
\* Properties

TypeOK ==
    /\ Known \subseteq Clients /\ \A c \in Known : limiters[c] \in 0..Burst
    /\ debt \in [Clients -> 0..(Burst + 1)]
    /\ evicted \subseteq Clients
    /\ breaker \in [Names -> BreakerOf(Clients)]
    /\ pc \in [Clients -> {"idle", "create", "read", "reply"} \cup InOrderService]
    /\ gone \in [Clients -> BOOLEAN]
    /\ attempt \in [Clients -> 0..MaxAttempts]
    /\ code \in [Clients -> {"none", "2xx", "4xx", "5xx"}]
    /\ troubles \in 0..MaxTroubles

\* No breaker leaves the closed state before FailureThreshold things went wrong in all,
\* and until then none has counted one of them twice: requests that the system itself
\* refuses (limits, tokens, unknown orders) are nobody's failure, and a failure that is
\* heard of at several breakers is one at each. Shortages and clients that leave are
\* among the troubles. Once an inventory breaker is open, its refusals count at the
\* breaker before it without a trouble of their own.
TrippedByTroubles ==
    \A n \in Names :
        /\ breaker[n].state # "closed" => troubles >= FailureThreshold
        /\ troubles < FailureThreshold => breaker[n].failures <= troubles

\* The limiter keeps at most MaxClients buckets, and a client whose bucket was never
\* dropped gets no more than Burst tokens beyond what time has given back.
LimitHolds ==
    /\ Cardinality(Known) <= MaxClients
    /\ \A c \in Clients \ evicted : debt[c] <= Burst

\* Once the troubles are over, every breaker lets calls through again, for good:
\* none waits for ever for a probe that nobody reports, and breakers behind one
\* another do not keep each other open.
BreakersRecover == <>[](\A n \in Names : Admits(breaker[n]))
=============================================================================
