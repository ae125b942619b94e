--------------------------- MODULE ReadCacheProofs ---------------------------
(***************************************************************************)
(* Theorems about ReadCache, for any number of readers, versions and       *)
(* failures: its types, and that an entry of the order cache that is       *)
(* behind the database is on its way out (StaleEntryIsInvalidated).        *)
(***************************************************************************)
EXTENDS ReadCache, TLAPS

----------------------------------------------------------------------------
\* The inductive invariant

\* A value that was read from the order's row is current, or an event about a later
\* version is still to be handled, or was handled or given up after the read.
Covered(x) ==
    x.version < version => \/ \E e \in events : e > x.version
                           \/ x.overtaken
                           \/ lost > x.version

\* Order reads never get to the fallback entry.
NoFallback == service = "order" => \A r \in Readers : pc[r] # "fill_fallback"

\* What is read has to be covered from the read on, not only once it is filled in: the
\* entry that a reader holds is put into the cache without another look.
IInv ==
    /\ TypeOK /\ NoFallback
    /\ service = "order" =>
          /\ fast # NoEntry => Covered(fast)
          /\ \A r \in Readers : read[r] # NoEntry => Covered(read[r])

----------------------------------------------------------------------------
\* Entries

LEMMA Entries ==
    /\ \A x \in Entry : x # NoEntry /\ x.version \in Nat /\ x.version \in Versions /\ x.overtaken \in BOOLEAN
    /\ NoEntry.version = 0
    /\ \A v \in Versions : [version |-> v, overtaken |-> FALSE] \in Entry
    /\ \A x \in Entry : [x EXCEPT !.overtaken = TRUE] \in Entry
    /\ Versions \subseteq Nat
<1>1. \A x \in Entry : x # NoEntry /\ x.version \in Nat /\ x.version \in Versions /\ x.overtaken \in BOOLEAN
  BY BoundsAssumption DEF Entry, NoEntry, Versions
<1>2. NoEntry.version = 0 /\ Versions \subseteq Nat
  BY BoundsAssumption DEF NoEntry, Versions
<1>3. \A v \in Versions : [version |-> v, overtaken |-> FALSE] \in Entry
  BY DEF Entry
<1>4. \A x \in Entry : [x EXCEPT !.overtaken = TRUE] \in Entry
  BY DEF Entry
<1>5. QED
  BY <1>1, <1>2, <1>3, <1>4

\* The failures of a step that may count one.
LEMMA Fails == TypeOK /\ Failing => failures' \in 0..MaxFailures
  BY BoundsAssumption DEF TypeOK, Failing

LEMMA Sets ==
    ASSUME TypeOK, NEW old, NEW new, NEW s \in SetJSON(old, new)
    PROVE  (s[1] = old \/ s[1] = new) /\ s[2] \in 0..MaxFailures
<1>1. failures \in 0..MaxFailures /\ (failures < MaxFailures => failures + 1 \in 0..MaxFailures)
  BY BoundsAssumption DEF TypeOK
<1>2. CASE s = <<new, failures>>
  BY <1>1, <1>2
<1>3. CASE failures < MaxFailures /\ s \in {old, new} \X {failures + 1}
  BY <1>1, <1>3
<1>4. QED
  BY <1>2, <1>3 DEF SetJSON

\* What a deletion leaves of the entries that readers hold.
LEMMA Deleted ==
    ASSUME TypeOK, NEW e \in Versions, Delete(e)
    PROVE  /\ fast' = NoEntry /\ read' \in [Readers -> Entry \cup {NoEntry}]
           /\ \A r \in Readers :
                 \/ read[r] = NoEntry /\ read'[r] = NoEntry
                 \/ /\ read[r] # NoEntry /\ read'[r] # NoEntry
                    /\ read'[r].version = read[r].version
                    /\ read'[r].overtaken = (read[r].overtaken \/ e > read[r].version)
<1>1. ASSUME NEW r \in Readers
      PROVE  /\ read'[r] \in Entry \cup {NoEntry}
             /\ \/ read[r] = NoEntry /\ read'[r] = NoEntry
                \/ /\ read[r] # NoEntry /\ read'[r] # NoEntry
                   /\ read'[r].version = read[r].version
                   /\ read'[r].overtaken = (read[r].overtaken \/ e > read[r].version)
  <2> DEFINE x == read[r]
  <2>1. x \in Entry \cup {NoEntry}
    BY DEF TypeOK
  <2>2. read'[r] = IF x # NoEntry /\ e > x.version THEN [x EXCEPT !.overtaken = TRUE] ELSE x
    BY DEF Delete
  <2> HIDE DEF x
  <2>3. CASE x = NoEntry
    BY <2>2, <2>3 DEF x
  <2>4. CASE x \in Entry /\ e > x.version
    <3> DEFINE y == [x EXCEPT !.overtaken = TRUE]
    <3>1. y \in Entry /\ y.version = x.version /\ y.overtaken = TRUE
      BY <2>4, Entries DEF Entry
    <3>2. read'[r] = y
      BY <2>2, <2>4, Entries
    <3> HIDE DEF y
    <3>3. QED
      BY <2>4, <3>1, <3>2, Entries DEF x
  <2>5. CASE x \in Entry /\ ~ (e > x.version)
    <3>1. read'[r] = x
      BY <2>2, <2>5
    <3>2. QED
      BY <2>5, <3>1, Entries DEF x
  <2>6. QED
    BY <2>1, <2>3, <2>4, <2>5
<1>2. fast' = NoEntry /\ read' = [r \in Readers |-> read'[r]]
  BY DEF Delete
<1>3. QED
  BY <1>1, <1>2

----------------------------------------------------------------------------
\* Steps

\* A step that keeps the row, its events and what readers hold.
LEMMA CacheStep ==
    ASSUME IInv, UNCHANGED rowVars, TypeOK', NoFallback',
           fast' = fast \/ fast' = NoEntry \/ \E r \in Readers : fast' = read[r],
           \A r \in Readers : read'[r] = read[r] \/ read'[r] = NoEntry
    PROVE  IInv'
<1>1. UNCHANGED <<service, version, events, lost>>
  BY DEF rowVars
<1>2. ASSUME NEW x, NEW y, y = x, Covered(x)
      PROVE  y.version < version' => \/ \E e \in events' : e > y.version
                                     \/ y.overtaken
                                     \/ lost' > y.version
  BY <1>1, <1>2 DEF Covered
<1>3. service' = "order" /\ fast' # NoEntry => Covered(fast)'
  BY <1>1, <1>2 DEF IInv, Covered
<1>4. service' = "order" => \A r \in Readers : read'[r] # NoEntry => Covered(read[r])'
  BY <1>1, <1>2 DEF IInv, Covered
<1>5. QED
  BY <1>3, <1>4 DEF IInv

LEMMA WritersKeep ==
    ASSUME IInv, ChangeOrder \/ EditProduct \/ MoveStock
    PROVE  IInv'
<1>1. CASE ChangeOrder
  <2>1. /\ service = "order" /\ service' = "order" /\ version \in Nat /\ version' = version + 1
        /\ version' \in Versions /\ events' = events \cup {version'}
        /\ UNCHANGED <<lost, fast, fallback, pc, read, failures>>
    BY <1>1, BoundsAssumption DEF ChangeOrder, cacheVars, readVars, IInv, TypeOK, Versions
  <2>2. TypeOK'
    BY <2>1 DEF IInv, TypeOK
  <2>3. ASSUME NEW x \in Entry
        PROVE  \E e \in events' : e > x.version \/ x.version >= version'
    BY <2>1, Entries
  <2>4. \A x \in Entry : x.version < version' => \E e \in events' : e > x.version
    BY <2>1, Entries
  <2>5. QED
    BY <2>1, <2>2, <2>4 DEF IInv, TypeOK, NoFallback, Covered
<1>2. CASE EditProduct
  <2>1. /\ service = "product" /\ version' = version + 1 /\ version' \in Versions
        /\ UNCHANGED <<service, events, lost, fast, fallback, pc, read, failures>>
    BY <1>2, BoundsAssumption DEF EditProduct, cacheVars, readVars, IInv, TypeOK, Versions
  <2>2. QED
    BY <2>1 DEF IInv, TypeOK, NoFallback
<1>3. CASE MoveStock
  <2>1. /\ service = "product" /\ events' = events \cup {version}
        /\ UNCHANGED <<service, version, lost, fast, fallback, pc, read, failures>>
    BY <1>3 DEF MoveStock, cacheVars, readVars
  <2>2. QED
    BY <2>1 DEF IInv, TypeOK, NoFallback
<1>4. QED
  BY <1>1, <1>2, <1>3

\* A reader's way to the row and back without an entry.
LEMMA LookupsKeep ==
    ASSUME IInv, NEW r \in Readers,
           GetJSON(r) \/ SelectFails(r) \/ staleFromCache(r) \/ Abandon(r)
    PROVE  IInv'
<1>0. TypeOK /\ failures \in 0..MaxFailures
  BY DEF IInv, TypeOK
<1>1. UNCHANGED rowVars /\ UNCHANGED cacheVars /\ failures' \in 0..MaxFailures
  BY <1>0, Fails DEF GetJSON, SelectFails, staleFromCache, Abandon
<1>2. UNCHANGED <<service, version, events, lost, fast, fallback>>
  BY <1>1 DEF rowVars, cacheVars
<1>3. /\ pc' \in [Readers -> {"idle", "select", "stale", "fill", "fill_fallback"}]
      /\ read' \in [Readers -> Entry \cup {NoEntry}]
      /\ \A u \in Readers : read'[u] = read[u] \/ read'[u] = NoEntry
      /\ \A u \in Readers : (read'[u] # NoEntry) = (pc'[u] \in {"fill", "fill_fallback"})
  <2>1. CASE Abandon(r)
    BY <1>0, <2>1 DEF Abandon, Goto, TypeOK
  <2>2. CASE SelectFails(r)
    BY <1>0, <2>2 DEF SelectFails, Goto, TypeOK
  <2>3. CASE staleFromCache(r)
    BY <1>0, <2>3 DEF staleFromCache, Goto, TypeOK
  <2>4. CASE GetJSON(r)
    BY <1>0, <2>4 DEF GetJSON, Goto, TypeOK
  <2>5. QED
    BY <2>1, <2>2, <2>3, <2>4
<1>4. TypeOK'
  BY <1>0, <1>1, <1>2, <1>3 DEF TypeOK
<1>5. NoFallback'
  <2>1. \A u \in Readers : pc'[u] = "fill_fallback" => pc[u] = "fill_fallback"
    BY <1>0 DEF GetJSON, SelectFails, staleFromCache, Abandon, Goto, TypeOK
  <2>2. QED
    BY <1>2, <2>1 DEF IInv, NoFallback
<1>6. QED
  BY <1>1, <1>2, <1>3, <1>4, <1>5, CacheStep

\* A fresh read is current.
LEMMA SelectKeeps ==
    ASSUME IInv, NEW r \in Readers, Select(r)
    PROVE  IInv'
<1> DEFINE x == [version |-> version, overtaken |-> FALSE]
<1>1. /\ UNCHANGED <<service, version, events, lost, fast, fallback, failures>>
      /\ read' = [read EXCEPT ![r] = x] /\ pc' = [pc EXCEPT ![r] = "fill"]
      /\ TypeOK /\ version \in Versions
  BY DEF Select, Goto, rowVars, cacheVars, IInv, TypeOK
<1>2. x \in Entry /\ x # NoEntry /\ x.version = version /\ version \in Nat
  BY <1>1, Entries
<1> HIDE DEF x
<1>3. TypeOK'
  BY <1>1, <1>2 DEF TypeOK
<1>4. \A u \in Readers : read'[u] = IF u = r THEN x ELSE read[u]
  BY <1>1 DEF TypeOK
<1>5. service' = "order" /\ fast' # NoEntry => Covered(fast)'
  BY <1>1 DEF IInv, Covered
<1>6. ASSUME NEW u \in Readers, service' = "order", read'[u] # NoEntry
      PROVE  Covered(read[u])'
  <2>1. CASE u = r
    <3>1. read'[u] = x /\ version' = version
      BY <1>1, <1>4, <2>1
    <3>2. ~ (x.version < version)
      BY <1>2
    <3>3. QED
      BY <3>1, <3>2 DEF Covered
  <2>2. CASE u # r
    <3>1. read'[u] = read[u]
      BY <1>4, <2>2
    <3>2. Covered(read[u])
      BY <1>1, <1>6, <3>1 DEF IInv
    <3>3. QED
      BY <1>1, <3>1, <3>2 DEF Covered
  <2>3. QED
    BY <2>1, <2>2
<1>7. NoFallback'
  BY <1>1 DEF IInv, NoFallback, TypeOK
<1>8. QED
  BY <1>3, <1>5, <1>6, <1>7 DEF IInv

LEMMA FillsKeep ==
    ASSUME IInv, NEW r \in Readers, FillOrder(r) \/ FillProduct(r) \/ FillFallback(r)
    PROVE  IInv'
<1>0. TypeOK
  BY DEF IInv
<1>1. CASE FillOrder(r) \/ FillProduct(r)
  <2>1. PICK s \in SetJSON(fast, read[r]) : fast' = s[1] /\ failures' = s[2]
    BY <1>1 DEF FillOrder, FillProduct
  <2>2. (fast' = fast \/ fast' = read[r]) /\ failures' \in 0..MaxFailures
    BY <1>0, <2>1, Sets
  <2>3. UNCHANGED rowVars /\ UNCHANGED <<service, version, events, lost, fallback>>
    BY <1>1 DEF FillOrder, FillProduct, rowVars
  <2>4. /\ pc' \in [Readers -> {"idle", "select", "stale", "fill", "fill_fallback"}]
        /\ read' \in [Readers -> Entry \cup {NoEntry}]
        /\ \A u \in Readers : read'[u] = read[u] \/ read'[u] = NoEntry
        /\ \A u \in Readers : (read'[u] # NoEntry) = (pc'[u] \in {"fill", "fill_fallback"})
    <3>1. CASE FillOrder(r)
      BY <1>0, <3>1 DEF FillOrder, Goto, TypeOK
    <3>2. CASE FillProduct(r)
      BY <1>0, <3>2 DEF FillProduct, Goto, TypeOK
    <3>3. QED
      BY <1>1, <3>1, <3>2
  <2>5. TypeOK'
    BY <1>0, <2>2, <2>3, <2>4 DEF TypeOK
  <2>6. NoFallback'
    BY <1>0, <1>1, <2>3 DEF IInv, NoFallback, FillOrder, FillProduct, Goto, TypeOK
  <2>7. QED
    BY <2>2, <2>3, <2>4, <2>5, <2>6, CacheStep
<1>2. CASE FillFallback(r)
  <2>1. PICK s \in SetJSON(fallback, read[r]) : fallback' = s[1] /\ failures' = s[2]
    BY <1>2 DEF FillFallback
  <2>2. (fallback' = fallback \/ fallback' = read[r]) /\ failures' \in 0..MaxFailures
    BY <1>0, <2>1, Sets
  <2>3. UNCHANGED rowVars /\ UNCHANGED <<service, version, events, lost, fast>>
    BY <1>2 DEF FillFallback, rowVars
  <2>4. /\ pc' \in [Readers -> {"idle", "select", "stale", "fill", "fill_fallback"}]
        /\ read' \in [Readers -> Entry \cup {NoEntry}]
        /\ \A u \in Readers : read'[u] = read[u] \/ read'[u] = NoEntry
        /\ \A u \in Readers : (read'[u] # NoEntry) = (pc'[u] \in {"fill", "fill_fallback"})
    BY <1>0, <1>2 DEF FillFallback, Goto, TypeOK
  <2>5. service = "product"
    BY <1>0, <1>2 DEF FillFallback, IInv, NoFallback, TypeOK
  <2>6. TypeOK' /\ NoFallback'
    BY <1>0, <2>2, <2>3, <2>4, <2>5 DEF TypeOK, NoFallback
  <2>7. QED
    BY <2>3, <2>4, <2>6, CacheStep
<1>3. QED
  BY <1>1, <1>2

\* An event is handled, for the first time or again.
LEMMA InvalidationsKeep ==
    ASSUME IInv, NEW e \in events, Delete(e), events' = events \ {e} \/ events' = events,
           UNCHANGED <<service, version, lost, fallback, pc>>, failures' \in 0..MaxFailures
    PROVE  IInv'
<1>0. TypeOK /\ e \in Versions /\ events \subseteq Nat /\ e \in Nat
  BY Entries DEF IInv, TypeOK
<1>1. /\ fast' = NoEntry /\ read' \in [Readers -> Entry \cup {NoEntry}]
      /\ \A r \in Readers :
            \/ read[r] = NoEntry /\ read'[r] = NoEntry
            \/ /\ read[r] # NoEntry /\ read'[r] # NoEntry
               /\ read'[r].version = read[r].version
               /\ read'[r].overtaken = (read[r].overtaken \/ e > read[r].version)
  BY <1>0, Deleted
<1>2. TypeOK' /\ NoFallback'
  BY <1>0, <1>1 DEF TypeOK, IInv, NoFallback
<1>3. ASSUME NEW r \in Readers, service' = "order", read'[r] # NoEntry
      PROVE  Covered(read[r])'
  <2>1. /\ Covered(read[r]) /\ read'[r].version = read[r].version
        /\ read'[r].overtaken = (read[r].overtaken \/ e > read[r].version)
    BY <1>1, <1>3 DEF IInv
  <2>2. QED
    BY <2>1 DEF Covered
<1>4. QED
  BY <1>1, <1>2, <1>3 DEF IInv

\* An event that goes to the DLQ is remembered as lost.
LEMMA GiveUpKeeps ==
    ASSUME IInv, GiveUp
    PROVE  IInv'
<1>0. TypeOK /\ events \subseteq Versions /\ lost \in Nat /\ Versions \subseteq Nat
  BY Entries DEF IInv, TypeOK
<1>1. PICK e \in events : events' = events \ {e} /\ lost' = IF e > lost THEN e ELSE lost
  BY DEF GiveUp
<1>2. /\ UNCHANGED <<service, version, fast, fallback, pc, read>> /\ failures' \in 0..MaxFailures
      /\ e \in Nat /\ lost' \in Nat /\ e <= lost' /\ lost <= lost' /\ lost' \in {0} \cup Versions
  BY <1>0, <1>1, Fails DEF GiveUp, cacheVars, readVars, TypeOK
<1>3. TypeOK' /\ NoFallback'
  BY <1>0, <1>1, <1>2 DEF TypeOK, IInv, NoFallback
<1>4. ASSUME NEW x \in Entry, Covered(x)
      PROVE  x.version < version => \/ \E f \in events' : f > x.version
                                    \/ x.overtaken
                                    \/ lost' > x.version
  <2> SUFFICES ASSUME x.version < version, ~ x.overtaken, ~ (lost' > x.version)
               PROVE  \E f \in events' : f > x.version
    OBVIOUS
  <2>1. x.version \in Nat
    BY Entries
  <2>2. PICK f \in events : f > x.version
    BY <1>0, <1>2, <1>4, <2>1 DEF Covered
  <2>3. f # e
    BY <1>2, <2>1, <2>2
  <2>4. QED
    BY <1>1, <2>2, <2>3
<1>5. service' = "order" /\ fast' # NoEntry => Covered(fast)'
  <2> SUFFICES ASSUME service' = "order", fast' # NoEntry
               PROVE  Covered(fast)'
    OBVIOUS
  <2>1. fast' = fast /\ fast \in Entry /\ Covered(fast) /\ version' = version
    BY <1>0, <1>2 DEF IInv, TypeOK
  <2>2. QED
    BY <1>4, <2>1 DEF Covered
<1>6. ASSUME NEW r \in Readers, service' = "order", read'[r] # NoEntry
      PROVE  Covered(read[r])'
  <2>1. read'[r] = read[r] /\ read[r] \in Entry /\ Covered(read[r]) /\ version' = version
    BY <1>0, <1>2, <1>6 DEF IInv, TypeOK
  <2>2. QED
    BY <1>4, <2>1 DEF Covered
<1>7. QED
  BY <1>3, <1>5, <1>6 DEF IInv

LEMMA ExpiriesKeep ==
    ASSUME IInv, Expire \/ ExpireFallback
    PROVE  IInv'
<1>0. UNCHANGED rowVars /\ UNCHANGED readVars /\ failures' = failures
      /\ (fast' = fast \/ fast' = NoEntry) /\ (fallback' = fallback \/ fallback' = NoEntry)
  BY DEF Expire, ExpireFallback
<1>1. UNCHANGED <<service, version, events, lost, pc, read>>
  BY <1>0 DEF rowVars, readVars
<1>2. TypeOK' /\ NoFallback'
  BY <1>0, <1>1 DEF IInv, TypeOK, NoFallback
<1>3. QED
  BY <1>0, <1>1, <1>2, CacheStep

----------------------------------------------------------------------------
\* The invariant

LEMMA InvInit == Init => IInv
<1> SUFFICES ASSUME Init
             PROVE  IInv
  OBVIOUS
<1>1. TypeOK
  BY BoundsAssumption DEF Init, TypeOK, Versions
<1>2. QED
  BY <1>1 DEF Init, IInv, NoFallback

LEMMA InvStep == IInv /\ [Next]_vars => IInv'
<1> SUFFICES ASSUME IInv, [Next]_vars
             PROVE  IInv'
  OBVIOUS
<1>1. CASE ChangeOrder \/ EditProduct \/ MoveStock
  BY <1>1, WritersKeep
<1>2. ASSUME NEW r \in Readers, GetByID(r)
      PROVE  IInv'
  BY <1>2, LookupsKeep, SelectKeeps, FillsKeep DEF GetByID
<1>3. CASE Invalidate
  <2>1. PICK e \in events : Delete(e) /\ events' = events \ {e}
    BY <1>3 DEF Invalidate
  <2>2. UNCHANGED <<service, version, lost, fallback, pc>> /\ failures' \in 0..MaxFailures
    BY <1>3 DEF Invalidate, IInv, TypeOK
  <2>3. QED
    BY <2>1, <2>2, InvalidationsKeep
<1>4. CASE InvalidateAgain
  <2>1. PICK e \in events : Delete(e)
    BY <1>4 DEF InvalidateAgain
  <2>2. /\ UNCHANGED <<service, version, lost, fallback, pc>> /\ events' = events
        /\ failures' \in 0..MaxFailures
    BY <1>4, Fails DEF InvalidateAgain, rowVars, IInv
  <2>3. QED
    BY <2>1, <2>2, InvalidationsKeep
<1>5. CASE GiveUp
  BY <1>5, GiveUpKeeps
<1>6. CASE Expire \/ ExpireFallback
  BY <1>6, ExpiriesKeep
<1>7. CASE UNCHANGED vars
  <2>1. UNCHANGED rowVars /\ UNCHANGED <<fast, fallback, pc, read, failures>>
    BY <1>7 DEF vars, cacheVars, readVars
  <2>2. UNCHANGED <<service, version, events, lost>>
    BY <2>1 DEF rowVars
  <2>3. TypeOK' /\ NoFallback'
    BY <2>1, <2>2 DEF IInv, TypeOK, NoFallback
  <2>4. QED
    BY <2>1, <2>3, CacheStep
<1>8. QED
  BY <1>1, <1>2, <1>3, <1>4, <1>5, <1>6, <1>7 DEF Next

\* Every reachable state has the invariant.
THEOREM SpecInv == Spec => []IInv
<1>1. QED
  BY InvInit, InvStep, PTL DEF Spec

----------------------------------------------------------------------------
\* What is proved

\* Every variable keeps its type, a reader holds an entry exactly while it fills the
\* cache, and an order never gets a fallback entry.
THEOREM SpecTypeOK == Spec => []TypeOK
<1>1. IInv => TypeOK
  BY DEF IInv
<1>2. QED
  BY <1>1, SpecInv, PTL

\* Whatever reads and invalidations overlap, an entry of the order cache that is behind the
\* database has an event on its way that deletes it, was overtaken by one while it was
\* read, or the event is in the DLQ (service/order.go, consumer/cache.go).
THEOREM SpecStaleEntryIsInvalidated == Spec => []StaleEntryIsInvalidated
<1>1. IInv => StaleEntryIsInvalidated
  BY DEF IInv, Covered, StaleEntryIsInvalidated
<1>2. QED
  BY <1>1, SpecInv, PTL
=============================================================================
