----------------------------- MODULE ReadCache -----------------------------
(***************************************************************************)
(* The cache-aside reads of one order or one product: GetByID of both      *)
(* services, the Redis entries it reads and fills, and the CacheConsumer   *)
(* that deletes an entry when an event about its row comes back from Kafka.*)
(*                                                                         *)
(* A value is the version of the row it was read from. The events on their *)
(* way are a set: outbox, topic and consumer group are EventBus.           *)
(***************************************************************************)
EXTENDS Naturals

CONSTANTS
    Readers,        \* calls of GetByID, on any replica
    MaxVersion,     \* bound: versions of the row
    MaxFailures     \* bound: failing calls in one behaviour

ASSUME BoundsAssumption == MaxVersion \in Nat \ {0} /\ MaxFailures \in Nat

VARIABLES
    service,    \* "order" or "product": whose row it is
    version,    \* of the row in the database
    events,     \* versions at which an event was enqueued that is not handled yet
    lost,       \* newest version whose event went to the DLQ
    fast,       \* order:<id> or product:<id>
    fallback,   \* product:<id>:fallback
    pc,         \* pc[r]: next call of reader r
    read,       \* read[r]: the entry it will fill in
    failures

rowVars   == <<service, version, events, lost>>
cacheVars == <<fast, fallback>>
readVars  == <<pc, read>>
vars == <<rowVars, cacheVars, readVars, failures>>

Versions == 1..MaxVersion

\* What Redis holds under a key. overtaken (of the model only): an event about a later
\* version was handled between the read of the row and the fill.
Entry   == [version : Versions, overtaken : BOOLEAN]
NoEntry == [version |-> 0, overtaken |-> FALSE]

Failing == failures < MaxFailures /\ failures' = failures + 1

----------------------------------------------------------------------------
\* Writers

\* Mutant: the last transition of an order enqueues no event.
ChangeOrderUnannounced ==
    /\ service = "order" /\ version < MaxVersion
    /\ version' = version + 1
    /\ events' = IF version' = MaxVersion THEN events ELSE events \cup {version'}
    /\ UNCHANGED <<service, lost, cacheVars, readVars, failures>>

\* A transition of the order: its row and its event are committed together.
ChangeOrder ==
    /\ service = "order" /\ version < MaxVersion
    /\ version' = version + 1
    /\ events' = events \cup {version'}
    /\ UNCHANGED <<service, lost, cacheVars, readVars, failures>>

\* Nothing in the services calls ProductRepository.Update or publishes product.updated:
\* a product is edited in the database, without an event.
EditProduct ==
    /\ service = "product" /\ version < MaxVersion
    /\ version' = version + 1
    /\ UNCHANGED <<service, events, lost, cacheVars, readVars, failures>>

\* Reserving or releasing its stock is what invalidates a product.
MoveStock ==
    /\ service = "product"
    /\ events' = events \cup {version}
    /\ UNCHANGED <<service, version, lost, cacheVars, readVars, failures>>

----------------------------------------------------------------------------
\* GetByID

Goto(r, l) == pc' = [pc EXCEPT ![r] = l]

\* The first look into the cache: a hit ends the call, an error counts as a miss.
GetJSON(r) ==
    /\ pc[r] = "idle"
    /\ \/ fast # NoEntry /\ UNCHANGED <<pc, failures>>
       \/ fast = NoEntry /\ Goto(r, "select") /\ UNCHANGED failures
       \/ Failing /\ Goto(r, "select")
    /\ UNCHANGED <<rowVars, cacheVars, read>>

Select(r) ==
    /\ pc[r] = "select"
    /\ read' = [read EXCEPT ![r] = [version |-> version, overtaken |-> FALSE]]
    /\ Goto(r, "fill")
    /\ UNCHANGED <<rowVars, cacheVars, failures>>

\* Any error of the repository makes a product read fall back, an order read fail.
SelectFails(r) ==
    /\ pc[r] = "select" /\ Failing
    /\ Goto(r, IF service = "product" THEN "stale" ELSE "idle")
    /\ UNCHANGED <<rowVars, cacheVars, read>>

\* The answer is flagged X-Cache: stale, or is the repository's error.
staleFromCache(r) ==
    /\ pc[r] = "stale"
    /\ Goto(r, "idle")
    /\ UNCHANGED <<rowVars, cacheVars, read, failures>>

\* SetJSON, whose errors GetByID drops: the entry and the failures it may leave, as an
\* error may come with or without the effect.
SetJSON(old, new) ==
    {<<new, failures>>}
        \cup (IF failures < MaxFailures THEN {old, new} \X {failures + 1} ELSE {})

\* Mutant: orders get a fallback entry too.
FillOrderWithFallback(r) ==
    /\ service = "order" /\ pc[r] = "fill"
    /\ \E s \in SetJSON(fast, read[r]) : fast' = s[1] /\ failures' = s[2]
    /\ Goto(r, "fill_fallback")
    /\ UNCHANGED <<rowVars, fallback, read>>

FillOrder(r) ==
    /\ service = "order" /\ pc[r] = "fill"
    /\ \E s \in SetJSON(fast, read[r]) : fast' = s[1] /\ failures' = s[2]
    /\ Goto(r, "idle")
    /\ read' = [read EXCEPT ![r] = NoEntry]
    /\ UNCHANGED <<rowVars, fallback>>

FillProduct(r) ==
    /\ service = "product" /\ pc[r] = "fill"
    /\ \E s \in SetJSON(fast, read[r]) : fast' = s[1] /\ failures' = s[2]
    /\ Goto(r, "fill_fallback")
    /\ UNCHANGED <<rowVars, fallback, read>>

FillFallback(r) ==
    /\ pc[r] = "fill_fallback"
    /\ \E s \in SetJSON(fallback, read[r]) : fallback' = s[1] /\ failures' = s[2]
    /\ Goto(r, "idle")
    /\ read' = [read EXCEPT ![r] = NoEntry]
    /\ UNCHANGED <<rowVars, fast>>

\* The replica dies, or the caller leaves and the calls that are left fail at once.
Abandon(r) ==
    /\ pc[r] # "idle" /\ Failing
    /\ Goto(r, "idle")
    /\ read' = [read EXCEPT ![r] = NoEntry]
    /\ UNCHANGED <<rowVars, cacheVars>>

GetByID(r) ==
    \/ GetJSON(r) \/ Select(r) \/ SelectFails(r) \/ staleFromCache(r)
    \/ FillOrder(r) \/ FillProduct(r) \/ FillFallback(r) \/ Abandon(r)

----------------------------------------------------------------------------
\* CacheConsumer and Redis

\* handle: the entry is deleted; the fallback entry stays.
Delete(e) ==
    /\ fast' = NoEntry
    /\ read' = [r \in Readers |->
         IF read[r] # NoEntry /\ e > read[r].version THEN [read[r] EXCEPT !.overtaken = TRUE]
                                                    ELSE read[r]]

Invalidate ==
    /\ \E e \in events : Delete(e) /\ events' = events \ {e}
    /\ UNCHANGED <<service, version, lost, fallback, pc, failures>>

\* The event is delivered again, or Delete failed: with or without having its effect.
InvalidateAgain ==
    /\ Failing
    /\ \E e \in events : Delete(e)
    /\ UNCHANGED <<rowVars, fallback, pc>>

\* Every attempt failed and the event went to the DLQ.
GiveUp ==
    /\ Failing
    /\ \E e \in events :
        /\ events' = events \ {e}
        /\ lost' = IF e > lost THEN e ELSE lost
    /\ UNCHANGED <<service, version, cacheVars, readVars>>

\* Mutant: an entry without an expiry.
ExpireNever == FALSE

Expire ==
    /\ fast # NoEntry
    /\ fast' = NoEntry
    /\ UNCHANGED <<rowVars, fallback, readVars, failures>>

ExpireFallback ==
    /\ fallback # NoEntry
    /\ fallback' = NoEntry
    /\ UNCHANGED <<rowVars, fast, readVars, failures>>

----------------------------------------------------------------------------
\* Specification

Init ==
    /\ service \in {"order", "product"}
    /\ version = 1 /\ events \in {{}, {1}} /\ lost = 0
    /\ fast = NoEntry /\ fallback = NoEntry
    /\ pc = [r \in Readers |-> "idle"]
    /\ read = [r \in Readers |-> NoEntry]
    /\ failures = 0

Next ==
    \/ ChangeOrder \/ EditProduct \/ MoveStock
    \/ \E r \in Readers : GetByID(r)
    \/ Invalidate \/ InvalidateAgain \/ GiveUp \/ Expire \/ ExpireFallback

Spec == Init /\ [][Next]_vars

\* A call that has begun ends, the consumer runs, Redis drops what expired.
Fairness ==
    /\ \A r \in Readers : WF_vars(pc[r] # "idle" /\ GetByID(r))
    /\ WF_vars(Invalidate) /\ WF_vars(Expire) /\ WF_vars(ExpireFallback)

FairSpec == Spec /\ Fairness

----------------------------------------------------------------------------
\* Properties

TypeOK ==
    /\ service \in {"order", "product"}
    /\ version \in Versions /\ events \subseteq Versions /\ lost \in {0} \cup Versions
    /\ fast \in Entry \cup {NoEntry} /\ fallback \in Entry \cup {NoEntry}
    /\ pc \in [Readers -> {"idle", "select", "stale", "fill", "fill_fallback"}]
    /\ read \in [Readers -> Entry \cup {NoEntry}]
    /\ \A r \in Readers : (read[r] # NoEntry) = (pc[r] \in {"fill", "fill_fallback"})
    /\ service = "order" => fallback = NoEntry
    /\ failures \in 0..MaxFailures

\* An entry of the order cache that is behind the database will be deleted by an event
\* that is on its way. There are two exceptions, which last until the entry expires: the
\* entry was filled by a read that the event overtook, or the event is in the DLQ.
StaleEntryIsInvalidated ==
    service = "order" /\ fast # NoEntry /\ fast.version < version =>
        \/ \E e \in events : e > fast.version
        \/ fast.overtaken
        \/ lost > fast.version

\* Once a row no longer changes, both entries end up current or gone, whatever overtook,
\* was lost, or changed without an event.
CacheCatchesUp ==
    <>[](fast.version \in {0, version} /\ fallback.version \in {0, version})
=============================================================================
