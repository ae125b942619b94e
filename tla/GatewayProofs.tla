---------------------------- MODULE GatewayProofs ----------------------------
(***************************************************************************)
(* Theorems about Gateway, for any clients, bursts, numbers of buckets,    *)
(* attempts, thresholds and troubles: its types, that the rate limiter     *)
(* keeps its limits (LimitHolds), and that only troubles trip a breaker    *)
(* (TrippedByTroubles).                                                    *)
(***************************************************************************)
EXTENDS Gateway, FiniteSetTheorems, TLAPS

----------------------------------------------------------------------------
\* The inductive invariant

\* The tokens of a client that kept its bucket are those it has and those it took.
BucketOK(c) ==
    debt[c] = IF c \in Known \ evicted THEN Burst - limiters[c] ELSE 0

LimitInv ==
    /\ limiters \in [Known -> 0..Burst] /\ IsFiniteSet(Known)
    /\ Cardinality(Known) <= MaxClients
    /\ \A c \in Clients : BucketOK(c)

\* A request that got to l, whose context is cancelled if g and whose answer is k, will
\* count as failed at breaker n although nothing goes wrong any more: its trouble is behind
\* it. A save that failed makes the order service's answer a 5xx, and the calls to the
\* inventory service under a cancelled request fail.
Doomed(n, l, g, k) ==
    \/ /\ n = "order" /\ ~g
       /\ l \in {"release", "releasing"} \/ (l = "reply" /\ k = "5xx")
    \/ n = "inventory_reserve" /\ g /\ l \in {"reserve", "reserving"}
    \/ n = "inventory_release" /\ g /\ l = "releasing"

Owes(n, c) == Doomed(n, pc[c], gone[c], code[c])

Owed(n) == {c \in Clients : Owes(n, c)}

\* Every failure that a breaker counted or will count is a trouble of its own.
Account(n) ==
    /\ breaker[n].state = "closed"
    /\ IsFiniteSet(Owed(n))
    /\ breaker[n].failures + Cardinality(Owed(n)) <= troubles

TripInv ==
    /\ \A c \in Clients : gone[c] => pc[c] \in InOrderService \cup {"reply"}
    /\ troubles >= FailureThreshold \/ \A n \in Names : Account(n)

IInv == TypeOK /\ LimitInv /\ TripInv

----------------------------------------------------------------------------
\* Breakers

LEMMA Breakers ==
    ASSUME NEW b \in BreakerOf(Clients), NEW c \in Clients
    PROVE  /\ \A state \in {"closed", "open", "half_open"} :
                 Fresh(state) \in BreakerOf(Clients) /\ Fresh(state).state = state /\ Fresh(state).failures = 0
           /\ Admitted(b, c) \in BreakerOf(Clients)
           /\ Report(b, c, TRUE) \in BreakerOf(Clients) /\ Report(b, c, FALSE) \in BreakerOf(Clients)
           /\ b.failures \in Nat
           /\ b.state = "closed" =>
                 /\ Admits(b)
                 /\ Admitted(b, c).state = "closed" /\ Admitted(b, c).failures = b.failures
                 /\ Report(b, c, TRUE).state = "closed" /\ Report(b, c, TRUE).failures <= b.failures
                 /\ \/ /\ Report(b, c, FALSE).state = "closed"
                       /\ Report(b, c, FALSE).failures <= b.failures + 1
                    \/ b.failures + 1 >= FailureThreshold
<1>0. b.failures \in 0..FailureThreshold /\ b.calls \in SUBSET Clients /\ FailureThreshold \in Nat \ {0}
      /\ b.state \in {"closed", "open", "half_open"}
  BY ThresholdAssumption DEF BreakerOf
<1>1. \A state \in {"closed", "open", "half_open"} :
          Fresh(state) \in BreakerOf(Clients) /\ Fresh(state).state = state /\ Fresh(state).failures = 0
  BY <1>0 DEF Fresh, BreakerOf
<1>2. Admitted(b, c) \in BreakerOf(Clients) /\ Admitted(b, c).state = b.state
      /\ Admitted(b, c).failures = b.failures
  BY <1>0 DEF Admitted, BreakerOf
<1>3. Succeeded(b, c) \in BreakerOf(Clients)
      /\ (b.state = "closed" => Succeeded(b, c).state = "closed" /\ Succeeded(b, c).failures = 0)
  <2> DEFINE d == [b EXCEPT !.calls = @ \ {c}]
             e == [d EXCEPT !.failures = 0]
  <2>1. d \in BreakerOf(Clients) /\ d.state = b.state
    BY <1>0 DEF BreakerOf
  <2> HIDE DEF d
  <2>2. e \in BreakerOf(Clients) /\ e.state = b.state /\ e.failures = 0
    BY <1>0, <2>1 DEF BreakerOf
  <2>3. Succeeded(b, c) = IF b.state = "half_open" THEN Fresh("closed") ELSE e
    BY DEF Succeeded, d
  <2> HIDE DEF e
  <2>4. QED
    BY <1>1, <2>2, <2>3
<1>4. /\ Failed(b, c) \in BreakerOf(Clients)
      /\ b.state = "closed" => \/ Failed(b, c).state = "closed" /\ Failed(b, c).failures = b.failures + 1
                               \/ b.failures + 1 >= FailureThreshold
  <2> DEFINE d == [b EXCEPT !.calls = @ \ {c}]
             e == [d EXCEPT !.failures = b.failures + 1]
  <2>1. d \in BreakerOf(Clients) /\ d.state = b.state
    BY <1>0 DEF BreakerOf
  <2> HIDE DEF d
  <2>2. ~ (b.failures + 1 >= FailureThreshold) =>
            e \in BreakerOf(Clients) /\ e.state = b.state /\ e.failures = b.failures + 1
    BY <1>0, <2>1 DEF BreakerOf
  <2>3. Failed(b, c) = IF b.state = "half_open" \/ b.failures + 1 >= FailureThreshold
                       THEN Fresh("open") ELSE e
    BY DEF Failed, d
  <2> HIDE DEF e
  <2>4. QED
    BY <1>1, <2>2, <2>3
<1>5. /\ Report(b, c, TRUE) = b \/ Report(b, c, TRUE) = Succeeded(b, c)
      /\ Report(b, c, FALSE) = b \/ Report(b, c, FALSE) = Failed(b, c)
  BY DEF Report
<1>6. /\ Report(b, c, TRUE) \in BreakerOf(Clients)
      /\ b.state = "closed" => Report(b, c, TRUE).state = "closed" /\ Report(b, c, TRUE).failures <= b.failures
  <2> DEFINE r == Report(b, c, TRUE)
  <2>1. r = b \/ r = Succeeded(b, c)
    BY <1>5
  <2> HIDE DEF r
  <2>2. r \in BreakerOf(Clients) /\ (b.state = "closed" => r.state = "closed" /\ r.failures <= b.failures)
    BY <1>0, <1>3, <2>1
  <2>3. QED
    BY <2>2 DEF r
<1>7. /\ Report(b, c, FALSE) \in BreakerOf(Clients)
      /\ b.state = "closed" => \/ /\ Report(b, c, FALSE).state = "closed"
                                  /\ Report(b, c, FALSE).failures <= b.failures + 1
                               \/ b.failures + 1 >= FailureThreshold
  <2> DEFINE r == Report(b, c, FALSE)
  <2>1. r = b \/ r = Failed(b, c)
    BY <1>5
  <2> HIDE DEF r
  <2>2. /\ r \in BreakerOf(Clients)
        /\ b.state = "closed" => \/ r.state = "closed" /\ r.failures <= b.failures + 1
                                 \/ b.failures + 1 >= FailureThreshold
    BY <1>0, <1>4, <2>1
  <2>3. QED
    BY <2>2 DEF r
<1>8. b.state = "closed" => Admits(b)
  BY DEF Admits
<1>9. b.failures \in Nat
  BY <1>0
<1>10. QED
  BY <1>1, <1>2, <1>6, <1>7, <1>8, <1>9

\* What a breaker may become when no failure is reported to it, and when one is.
Calm(b, c) == {b, Admitted(b, c), Report(b, c, TRUE)}

Charged(b, c) == {Report(b, c, FALSE)}

LEMMA CalmBreaker ==
    ASSUME NEW b \in BreakerOf(Clients), NEW c \in Clients, NEW r \in Calm(b, c)
    PROVE  /\ r \in BreakerOf(Clients) /\ r.failures \in Nat /\ b.failures \in Nat
           /\ b.state = "closed" => r.state = "closed" /\ r.failures <= b.failures
<1>1. r = b \/ r = Admitted(b, c) \/ r = Report(b, c, TRUE)
  BY DEF Calm
<1>2. b.failures \in Nat
  BY Breakers
<1>3. r \in BreakerOf(Clients) /\ (b.state = "closed" => r.state = "closed" /\ r.failures <= b.failures)
  <2>1. CASE r = b
    BY <1>2, <2>1
  <2>2. CASE r = Admitted(b, c)
    <3> DEFINE s == Admitted(b, c)
    <3>1. s \in BreakerOf(Clients) /\ (b.state = "closed" => s.state = "closed" /\ s.failures = b.failures)
      BY Breakers
    <3> HIDE DEF s
    <3>2. r = s
      BY <2>2 DEF s
    <3>3. QED
      BY <1>2, <3>1, <3>2
  <2>3. CASE r = Report(b, c, TRUE)
    <3> DEFINE s == Report(b, c, TRUE)
    <3>1. s \in BreakerOf(Clients) /\ (b.state = "closed" => s.state = "closed" /\ s.failures <= b.failures)
      BY Breakers
    <3> HIDE DEF s
    <3>2. r = s
      BY <2>3 DEF s
    <3>3. QED
      BY <3>1, <3>2
  <2>4. QED
    BY <1>1, <2>1, <2>2, <2>3
<1>4. r.failures \in Nat
  BY <1>3, Breakers
<1>5. QED
  BY <1>2, <1>3, <1>4

LEMMA FailedBreaker ==
    ASSUME NEW b \in BreakerOf(Clients), NEW c \in Clients, NEW r \in Charged(b, c)
    PROVE  /\ r \in BreakerOf(Clients) /\ r.failures \in Nat /\ b.failures \in Nat
           /\ b.state = "closed" => \/ r.state = "closed" /\ r.failures <= b.failures + 1
                                    \/ b.failures + 1 >= FailureThreshold
<1> DEFINE s == Report(b, c, FALSE)
<1>1. /\ s \in BreakerOf(Clients)
      /\ b.state = "closed" => \/ s.state = "closed" /\ s.failures <= b.failures + 1
                               \/ b.failures + 1 >= FailureThreshold
  BY Breakers
<1> HIDE DEF s
<1>2. r = s
  BY DEF s, Charged
<1>3. r \in BreakerOf(Clients)
  BY <1>1, <1>2
<1>4. r.failures \in Nat /\ b.failures \in Nat
  BY <1>3, Breakers
<1>5. QED
  BY <1>1, <1>2, <1>4

----------------------------------------------------------------------------
\* The limiter

LEMMA Extremes ==
    ASSUME NEW a \in Nat, NEW b \in Nat
    PROVE  /\ Min({a, b}) = IF a <= b THEN a ELSE b
           /\ Max({a, b}) = IF a >= b THEN a ELSE b
<1>1. Min({a, b}) = IF a <= b THEN a ELSE b
  <2> DEFINE m == IF a <= b THEN a ELSE b
  <2>1. m \in {a, b} /\ \A y \in {a, b} : m <= y
    OBVIOUS
  <2>2. \A x \in {a, b} : (\A y \in {a, b} : x <= y) => x = m
    OBVIOUS
  <2> HIDE DEF m
  <2>3. Min({a, b}) \in {a, b} /\ \A y \in {a, b} : Min({a, b}) <= y
    BY <2>1 DEF Min
  <2>4. Min({a, b}) = m
    BY <2>2, <2>3
  <2>5. QED
    BY <2>4 DEF m
<1>2. Max({a, b}) = IF a >= b THEN a ELSE b
  <2> DEFINE m == IF a >= b THEN a ELSE b
  <2>1. m \in {a, b} /\ \A y \in {a, b} : m >= y
    OBVIOUS
  <2>2. \A x \in {a, b} : (\A y \in {a, b} : x >= y) => x = m
    OBVIOUS
  <2> HIDE DEF m
  <2>3. Max({a, b}) \in {a, b} /\ \A y \in {a, b} : Max({a, b}) >= y
    BY <2>1 DEF Max
  <2>4. Max({a, b}) = m
    BY <2>2, <2>3
  <2>5. QED
    BY <2>4 DEF m
<1>3. QED
  BY <1>1, <1>2

\* An eviction drops at least one bucket, if there is one.
LEMMA Evictions ==
    ASSUME IsFiniteSet(Known), NEW kept \in EvictOldestClients
    PROVE  /\ kept \subseteq Known /\ IsFiniteSet(kept)
           /\ Cardinality(Known) \in Nat /\ Cardinality(kept) \in Nat
           /\ Cardinality(kept) <= Cardinality(Known)
           /\ Cardinality(Known) > 0 => Cardinality(kept) < Cardinality(Known)
<1> DEFINE n == Cardinality(Known)
<1>1. PICK dropped \in kSubset(EvictCount, Known) : kept = Known \ dropped
  BY DEF EvictOldestClients
<1>2. dropped \subseteq Known /\ Cardinality(dropped) = EvictCount
  BY DEF kSubset
<1>3. n \in Nat /\ kept \subseteq Known /\ IsFiniteSet(kept) /\ IsFiniteSet(dropped)
  BY <1>1, <1>2, FS_CardinalityType, FS_Subset
<1>4. Cardinality(kept) = n - Cardinality(Known \cap dropped) /\ Cardinality(kept) \in Nat
  BY <1>1, <1>3, FS_Difference, FS_CardinalityType
<1>5. Known \cap dropped = dropped
  BY <1>2
<1>6. Cardinality(kept) = n - EvictCount
  BY <1>2, <1>4, <1>5
<1> HIDE DEF n
<1>7. EvictCount \in Nat /\ (n > 0 => EvictCount > 0)
  <2>1. n \div 10 \in Nat /\ MinEvict \in Nat \ {0}
    BY <1>3, LimiterAssumption
  <2> DEFINE m == Max({n \div 10, MinEvict})
  <2>2. m \in Nat /\ m > 0
    BY <2>1, Extremes
  <2>3. EvictCount = Min({m, n})
    BY DEF EvictCount, n
  <2> HIDE DEF m
  <2>4. QED
    BY <1>3, <2>2, <2>3, Extremes
<1>8. QED
  BY <1>3, <1>4, <1>6, <1>7 DEF n

\* The limiter's part of the types.
Buckets == /\ LimitInv /\ Known \subseteq Clients /\ evicted \subseteq Clients
           /\ debt \in [Clients -> 0..(Burst + 1)]

LEMMA BucketFacts ==
    ASSUME Buckets, NEW c \in Clients
    PROVE  /\ Burst \in Nat \ {0} /\ debt[c] \in Nat
           /\ c \in Known => limiters[c] \in 0..Burst
           /\ c \in Known \ evicted => debt[c] = Burst - limiters[c]
           /\ c \notin Known \ evicted => debt[c] = 0
  BY LimiterAssumption DEF Buckets, LimitInv, BucketOK

LEMMA AllowKeeps ==
    ASSUME Buckets, NEW c \in Clients, Allow(c)
    PROVE  Buckets'
<1>1. PICK kept \in IF c \notin Known /\ Cardinality(Known) >= MaxClients THEN EvictOldestClients ELSE {Known} :
          /\ Bucket(c, kept)[c] > 0
          /\ limiters' = [Bucket(c, kept) EXCEPT ![c] = @ - 1]
          /\ evicted' = evicted \cup (Known \ kept)
          /\ debt' = [d \in Clients |-> IF d \in evicted' THEN 0
                                       ELSE IF d = c THEN Min({debt[d] + 1, Burst + 1})
                                       ELSE debt[d]]
  BY DEF Allow
<1>2. /\ IsFiniteSet(Known) /\ Cardinality(Known) \in Nat /\ Cardinality(Known) <= MaxClients
      /\ MaxClients \in Nat \ {0} /\ Burst \in Nat \ {0}
  BY LimiterAssumption, FS_CardinalityType DEF Buckets, LimitInv
<1>3. /\ kept \subseteq Known /\ IsFiniteSet(kept) /\ Cardinality(kept) \in Nat
      /\ Cardinality(kept) <= Cardinality(Known)
      /\ c \notin kept => Cardinality(kept) < MaxClients
  <2>1. CASE c \notin Known /\ Cardinality(Known) >= MaxClients
    <3>1. kept \in EvictOldestClients
      BY <1>1, <2>1
    <3>2. QED
      BY <1>2, <2>1, <3>1, Evictions
  <2>2. CASE ~ (c \notin Known /\ Cardinality(Known) >= MaxClients)
    <3>1. kept = Known
      BY <1>1, <2>2
    <3>2. QED
      BY <1>2, <2>2, <3>1
  <2>3. QED
    BY <2>1, <2>2
<1> DEFINE b == Bucket(c, kept)
<1>4. /\ b \in [kept \cup {c} -> 0..Burst]
      /\ \A d \in kept : b[d] = limiters[d]
      /\ b[c] = IF c \in Known THEN limiters[c] ELSE Burst
  BY <1>2, <1>3 DEF Bucket, Buckets, LimitInv
<1> HIDE DEF b
<1>5. limiters' = [b EXCEPT ![c] = b[c] - 1] /\ b[c] > 0
  BY <1>1 DEF b
<1>6. /\ limiters' \in [kept \cup {c} -> 0..Burst] /\ Known' = kept \cup {c}
      /\ limiters'[c] = b[c] - 1 /\ \A d \in kept \ {c} : limiters'[d] = limiters[d]
  BY <1>2, <1>4, <1>5 DEF Known
<1>7. IsFiniteSet(Known') /\ Cardinality(Known') <= MaxClients
  <2>1. /\ IsFiniteSet(kept \cup {c})
        /\ Cardinality(kept \cup {c}) = IF c \in kept THEN Cardinality(kept) ELSE Cardinality(kept) + 1
    BY <1>3, FS_AddElement
  <2>2. Cardinality(kept \cup {c}) <= MaxClients
    BY <1>2, <1>3, <2>1
  <2>3. QED
    BY <1>6, <2>1, <2>2
<1>8. ASSUME NEW d \in Clients
      PROVE  /\ debt'[d] \in 0..(Burst + 1)
             /\ debt'[d] = IF d \in Known' \ evicted' THEN Burst - limiters'[d] ELSE 0
  <2>1. debt'[d] = IF d \in evicted' THEN 0 ELSE IF d = c THEN Min({debt[d] + 1, Burst + 1}) ELSE debt[d]
    BY <1>1
  <2>2. CASE d \in evicted'
    BY <1>2, <2>1, <2>2
  <2>3. CASE d \notin evicted' /\ d = c
    <3>1. d \notin evicted /\ d \in Known'
      BY <1>1, <1>6, <2>3
    <3>2. debt[d] + 1 = Burst - limiters'[d] /\ debt[d] + 1 <= Burst /\ debt[d] \in Nat
      <4>1. limiters'[d] = b[d] - 1 /\ b[d] > 0 /\ b[d] \in 0..Burst
        BY <1>4, <1>5, <1>6, <2>3
      <4>2. b[d] = IF d \in Known THEN limiters[d] ELSE Burst
        BY <1>4, <2>3
      <4>3. debt[d] = Burst - b[d]
        BY <1>2, <3>1, <4>2, BucketFacts
      <4>4. QED
        BY <1>2, <4>1, <4>3
    <3>3. Min({debt[d] + 1, Burst + 1}) = debt[d] + 1
      <4> DEFINE x == debt[d] + 1
                 y == Burst + 1
      <4>1. x \in Nat /\ y \in Nat /\ x <= y
        BY <1>2, <3>2
      <4> HIDE DEF x, y
      <4>2. Min({x, y}) = x
        BY <4>1, Extremes
      <4>3. QED
        BY <4>2 DEF x, y
    <3>4. QED
      BY <1>2, <2>1, <2>3, <3>1, <3>2, <3>3
  <2>4. CASE d \notin evicted' /\ d # c
    <3>1. d \notin evicted /\ (d \in Known' <=> d \in Known)
      BY <1>1, <1>3, <1>6, <2>4
    <3>2. d \in Known => limiters'[d] = limiters[d]
      BY <1>1, <1>6, <2>4
    <3>3. debt[d] = debt'[d] /\ debt[d] \in 0..(Burst + 1)
      BY <2>1, <2>4 DEF Buckets
    <3>4. QED
      BY <2>4, <3>1, <3>2, <3>3, BucketFacts
  <2>5. QED
    BY <2>2, <2>3, <2>4
<1>9. debt' \in [Clients -> 0..(Burst + 1)] /\ \A d \in Clients : BucketOK(d)'
  <2>1. debt' = [d \in Clients |-> debt'[d]]
    BY <1>1
  <2>2. debt' \in [Clients -> 0..(Burst + 1)]
    BY <1>8, <2>1
  <2>3. QED
    BY <1>8, <2>2 DEF BucketOK
<1>10. Known' \subseteq Clients /\ evicted' \subseteq Clients
  BY <1>1, <1>3, <1>6 DEF Buckets
<1>11. limiters' \in [Known' -> 0..Burst]
  BY <1>6
<1>12. QED
  BY <1>7, <1>9, <1>10, <1>11 DEF Buckets, LimitInv

LEMMA CleanupKeeps ==
    ASSUME Buckets, Cleanup
    PROVE  Buckets'
<1>1. PICK kept \in EvictOldestClients :
          /\ limiters' = [d \in kept |-> limiters[d]]
          /\ evicted' = evicted \cup (Known \ kept)
          /\ debt' = [d \in Clients |-> IF d \in evicted' THEN 0 ELSE debt[d]]
  BY DEF Cleanup, Restrict
<1>2. /\ kept \subseteq Known /\ IsFiniteSet(kept) /\ Cardinality(kept) \in Nat
      /\ Cardinality(Known) \in Nat /\ Cardinality(kept) <= Cardinality(Known)
      /\ Cardinality(Known) <= MaxClients /\ MaxClients \in Nat /\ Known \subseteq Clients
  BY Evictions, LimiterAssumption DEF Buckets, LimitInv
<1>3. Known' = kept /\ limiters' \in [Known' -> 0..Burst]
  <2>1. Known' = kept
    BY <1>1 DEF Known
  <2>2. \A d \in kept : limiters[d] \in 0..Burst
    BY <1>2 DEF Buckets, LimitInv
  <2>3. QED
    BY <1>1, <2>1, <2>2
<1>4. ASSUME NEW d \in Clients
      PROVE  /\ debt'[d] \in 0..(Burst + 1)
             /\ debt'[d] = IF d \in Known' \ evicted' THEN Burst - limiters'[d] ELSE 0
  <2>1. debt'[d] = IF d \in evicted' THEN 0 ELSE debt[d]
    BY <1>1
  <2>2. Burst \in Nat /\ debt[d] \in 0..(Burst + 1)
    BY BucketFacts DEF Buckets
  <2>3. CASE d \in evicted'
    BY <2>1, <2>2, <2>3
  <2>4. CASE d \notin evicted'
    <3>1. d \notin evicted /\ (d \in Known' <=> d \in Known)
      BY <1>1, <1>2, <1>3, <2>4
    <3>2. d \in Known => limiters'[d] = limiters[d]
      BY <1>1, <1>3, <3>1
    <3>3. QED
      BY <2>1, <2>2, <2>4, <3>1, <3>2, BucketFacts
  <2>5. QED
    BY <2>3, <2>4
<1>5. debt' \in [Clients -> 0..(Burst + 1)] /\ \A d \in Clients : BucketOK(d)'
  <2>1. debt' = [d \in Clients |-> debt'[d]]
    BY <1>1
  <2>2. debt' \in [Clients -> 0..(Burst + 1)]
    BY <1>4, <2>1
  <2>3. QED
    BY <1>4, <2>2 DEF BucketOK
<1>6. /\ Known' \subseteq Clients /\ evicted' \subseteq Clients
      /\ IsFiniteSet(Known') /\ Cardinality(Known') <= MaxClients
  BY <1>1, <1>2, <1>3 DEF Buckets
<1>7. QED
  BY <1>3, <1>5, <1>6 DEF Buckets, LimitInv

LEMMA RefillKeeps ==
    ASSUME Buckets, NEW c \in Clients, Refill(c)
    PROVE  Buckets'
<1>1. /\ c \in Known /\ limiters[c] < Burst /\ evicted' = evicted
      /\ limiters' = [limiters EXCEPT ![c] = @ + 1]
      /\ debt' = [debt EXCEPT ![c] = Max({@ - 1, 0})]
  BY DEF Refill, Gain
<1>2. limiters \in [Known -> 0..Burst] /\ debt \in [Clients -> 0..(Burst + 1)] /\ Burst \in Nat
  BY LimiterAssumption DEF Buckets, LimitInv
<1>3. /\ Known' = Known /\ limiters' \in [Known -> 0..Burst] /\ limiters'[c] = limiters[c] + 1
      /\ \A d \in Known \ {c} : limiters'[d] = limiters[d]
  <2>1. limiters[c] + 1 \in 0..Burst
    BY <1>1, <1>2
  <2>2. limiters' \in [Known -> 0..Burst]
    BY <1>1, <1>2, <2>1
  <2>3. DOMAIN limiters' = Known
    BY <2>2
  <2>4. QED
    BY <1>1, <1>2, <2>2, <2>3 DEF Known
<1>4. ASSUME NEW d \in Clients
      PROVE  /\ debt'[d] \in 0..(Burst + 1)
             /\ debt'[d] = IF d \in Known' \ evicted' THEN Burst - limiters'[d] ELSE 0
  <2>1. CASE d # c
    BY <1>1, <1>2, <1>3, <2>1, BucketFacts
  <2>2. CASE d = c /\ d \in evicted
    <3>1. debt[c] = 0
      BY <2>2, BucketFacts
    <3>2. Max({0 - 1, 0}) = 0
      <4>1. \A x \in {0 - 1, 0} : (\A y \in {0 - 1, 0} : x >= y) => x = 0
        OBVIOUS
      <4>2. 0 \in {0 - 1, 0} /\ \A y \in {0 - 1, 0} : 0 >= y
        OBVIOUS
      <4>3. Max({0 - 1, 0}) \in {0 - 1, 0} /\ \A y \in {0 - 1, 0} : Max({0 - 1, 0}) >= y
        BY <4>2 DEF Max
      <4>4. QED
        BY <4>1, <4>3
    <3>3. debt'[c] = Max({debt[c] - 1, 0})
      BY <1>1, <1>2
    <3>4. debt'[c] = 0
      BY <3>1, <3>2, <3>3, Zenon
    <3>5. QED
      BY <1>1, <1>2, <2>2, <3>4
  <2>3. CASE d = c /\ d \notin evicted
    <3>1. debt[c] = Burst - limiters[c] /\ debt[c] - 1 \in Nat /\ limiters[c] \in 0..Burst
      BY <1>1, <1>2, <2>3, BucketFacts
    <3>2. debt'[c] = Max({debt[c] - 1, 0})
      BY <1>1, <1>2
    <3>3. debt'[c] = debt[c] - 1
      <4> DEFINE x == debt[c] - 1
      <4> HIDE DEF x
      <4>1. debt'[c] = Max({x, 0}) /\ x \in Nat /\ x >= 0
        BY <3>1, <3>2 DEF x
      <4>2. debt'[c] = x
        BY <4>1, Extremes
      <4>3. QED
        BY <4>2 DEF x
    <3>4. QED
      BY <1>1, <1>2, <1>3, <2>3, <3>1, <3>3
  <2>4. QED
    BY <2>1, <2>2, <2>3
<1>5. debt' \in [Clients -> 0..(Burst + 1)] /\ \A d \in Clients : BucketOK(d)'
  <2>1. debt' = [d \in Clients |-> debt'[d]]
    BY <1>1, <1>2
  <2>2. debt' \in [Clients -> 0..(Burst + 1)]
    BY <1>4, <2>1
  <2>3. QED
    BY <1>4, <2>2 DEF BucketOK
<1>6. QED
  BY <1>1, <1>3, <1>5 DEF Buckets, LimitInv

----------------------------------------------------------------------------
\* What a step makes of one request and of one breaker

Labels == {"idle", "create", "read", "reply"} \cup InOrderService

Codes == {"none", "2xx", "4xx", "5xx"}

\* The request of c goes on at l, cancelled if g, with a attempts and answer k.
Moves(c, l, g, a, k) ==
    /\ pc' = [pc EXCEPT ![c] = l] /\ gone' = [gone EXCEPT ![c] = g]
    /\ attempt' = [attempt EXCEPT ![c] = a] /\ code' = [code EXCEPT ![c] = k]

LEMMA MovesTo ==
    ASSUME TypeOK, NEW c \in Clients, NEW l, NEW g, NEW a, NEW k, Moves(c, l, g, a, k)
    PROVE  \A d \in Clients : /\ pc'[d] = IF d = c THEN l ELSE pc[d]
                              /\ gone'[d] = IF d = c THEN g ELSE gone[d]
                              /\ code'[d] = IF d = c THEN k ELSE code[d]
  BY DEF TypeOK, Moves

LEMMA MovesTyped ==
    ASSUME TypeOK, NEW c \in Clients, NEW l \in Labels, NEW g \in BOOLEAN, NEW a \in 0..MaxAttempts,
           NEW k \in Codes, Moves(c, l, g, a, k)
    PROVE  /\ pc' \in [Clients -> Labels] /\ gone' \in [Clients -> BOOLEAN]
           /\ attempt' \in [Clients -> 0..MaxAttempts] /\ code' \in [Clients -> Codes]
<1>1. /\ pc \in [Clients -> Labels] /\ gone \in [Clients -> BOOLEAN]
      /\ attempt \in [Clients -> 0..MaxAttempts] /\ code \in [Clients -> Codes]
  BY DEF TypeOK, Labels, Codes
<1>2. QED
  BY <1>1 DEF Moves

\* Only what c owes can change, by one.
LEMMA OwedChanges ==
    ASSUME NEW n, NEW c \in Clients, IsFiniteSet(Owed(n)),
           \A d \in Clients \ {c} : Owes(n, d)' = Owes(n, d)
    PROVE  /\ IsFiniteSet(Owed(n)') /\ Cardinality(Owed(n)) \in Nat /\ Cardinality(Owed(n)') \in Nat
           /\ ~ Owes(n, c)' => Cardinality(Owed(n)') <= Cardinality(Owed(n))
           /\ ~ Owes(n, c)' /\ Owes(n, c) => Cardinality(Owed(n)') + 1 <= Cardinality(Owed(n))
           /\ Owes(n, c) => Cardinality(Owed(n)') <= Cardinality(Owed(n))
           /\ Cardinality(Owed(n)') <= Cardinality(Owed(n)) + 1
<1> DEFINE S == Owed(n)
           T == {d \in Clients : Owes(n, d)'}
<1>1. T = Owed(n)'
  BY DEF Owed
<1>2. T = (IF Owes(n, c)' THEN S \cup {c} ELSE S \ {c})
  <2>1. \A d \in Clients \ {c} : d \in T <=> d \in S
    BY DEF Owed
  <2>2. c \in T <=> Owes(n, c)'
    OBVIOUS
  <2>3. S \subseteq Clients /\ T \subseteq Clients
    BY DEF Owed
  <2> HIDE DEF S, T
  <2>4. QED
    BY <2>1, <2>2, <2>3
<1>3. c \in S <=> Owes(n, c)
  BY DEF Owed
<1>4. IsFiniteSet(S) /\ Cardinality(S) \in Nat
  BY FS_CardinalityType
<1> HIDE DEF S, T
<1>5. CASE Owes(n, c)'
  <2>1. T = S \cup {c}
    BY <1>2, <1>5
  <2>2. IsFiniteSet(S \cup {c}) /\ Cardinality(S \cup {c}) = IF c \in S THEN Cardinality(S) ELSE Cardinality(S) + 1
    BY <1>4, FS_AddElement
  <2>3. IsFiniteSet(T) /\ Cardinality(T) = IF c \in S THEN Cardinality(S) ELSE Cardinality(S) + 1
    BY <2>1, <2>2, Zenon
  <2>4. QED
    BY <1>1, <1>3, <1>4, <1>5, <2>3 DEF S
<1>6. CASE ~ Owes(n, c)'
  <2>1. T = S \ {c}
    BY <1>2, <1>6
  <2>2. /\ IsFiniteSet(S \ {c}) /\ Cardinality(S \ {c}) \in Nat
        /\ Cardinality(S \ {c}) = IF c \in S THEN Cardinality(S) - 1 ELSE Cardinality(S)
    BY <1>4, FS_RemoveElement, FS_CardinalityType
  <2>3. /\ IsFiniteSet(T) /\ Cardinality(T) \in Nat
        /\ Cardinality(T) = IF c \in S THEN Cardinality(S) - 1 ELSE Cardinality(S)
    BY <2>1, <2>2, Zenon
  <2>4. QED
    BY <1>1, <1>3, <1>4, <1>6, <2>3 DEF S
<1>7. QED
  BY <1>5, <1>6

\* One breaker's account, when it hears nothing, lets c in, or hears of c's success,
LEMMA AccountKept ==
    ASSUME TypeOK, NEW n \in Names, NEW c \in Clients, Account(n), troubles \in Nat,
           \A d \in Clients \ {c} : Owes(n, d)' = Owes(n, d),
           troubles' = troubles \/ troubles' = troubles + 1,
           breaker'[n] \in Calm(breaker[n], c),
           Owes(n, c)' => Owes(n, c) \/ troubles' = troubles + 1
    PROVE  Account(n)'
<1>1. breaker[n] \in BreakerOf(Clients) /\ breaker[n].state = "closed"
  BY DEF TypeOK, Account
<1>2. breaker[n].failures \in Nat /\ breaker'[n].failures \in Nat
      /\ breaker'[n].state = "closed" /\ breaker'[n].failures <= breaker[n].failures
  BY <1>1, CalmBreaker
<1> DEFINE m == Cardinality(Owed(n))
           k == Cardinality(Owed(n)')
<1>3. /\ IsFiniteSet(Owed(n)') /\ m \in Nat /\ k \in Nat
      /\ ~ Owes(n, c)' => k <= m
      /\ Owes(n, c) => k <= m
      /\ k <= m + 1
  BY OwedChanges DEF Account
<1>4. breaker[n].failures + m <= troubles
  BY DEF Account
<1> HIDE DEF m, k
<1>5. k <= m \/ (k <= m + 1 /\ troubles' = troubles + 1)
  BY <1>3
<1>6. breaker'[n].failures + k <= troubles'
  <2>1. CASE k <= m
    BY <1>2, <1>3, <1>4, <2>1
  <2>2. CASE k <= m + 1 /\ troubles' = troubles + 1
    BY <1>2, <1>3, <1>4, <2>2
  <2>3. QED
    BY <1>5, <2>1, <2>2
<1>7. QED
  BY <1>2, <1>3, <1>6 DEF Account, k

\* and when it hears of c's failure, which is a trouble of now or an earlier one.
LEMMA AccountCharged ==
    ASSUME TypeOK, NEW n \in Names, NEW c \in Clients, Account(n), troubles \in Nat,
           \A d \in Clients \ {c} : Owes(n, d)' = Owes(n, d),
           troubles' = troubles \/ troubles' = troubles + 1,
           breaker'[n] \in Charged(breaker[n], c),
           ~ Owes(n, c)', Owes(n, c) \/ troubles' = troubles + 1
    PROVE  Account(n)' \/ troubles' >= FailureThreshold
<1>1. breaker[n] \in BreakerOf(Clients) /\ breaker[n].state = "closed"
  BY DEF TypeOK, Account
<1>2. /\ breaker[n].failures \in Nat /\ breaker'[n].failures \in Nat
      /\ \/ breaker'[n].state = "closed" /\ breaker'[n].failures <= breaker[n].failures + 1
         \/ breaker[n].failures + 1 >= FailureThreshold
  BY <1>1, FailedBreaker
<1> DEFINE m == Cardinality(Owed(n))
           k == Cardinality(Owed(n)')
<1>3. /\ IsFiniteSet(Owed(n)') /\ m \in Nat /\ k \in Nat
      /\ k <= m
      /\ Owes(n, c) => k + 1 <= m
  BY OwedChanges DEF Account
<1>4. breaker[n].failures + m <= troubles
  BY DEF Account
<1> HIDE DEF m, k
<1>5. breaker[n].failures + 1 + k <= troubles'
  <2>1. CASE Owes(n, c)
    BY <1>2, <1>3, <1>4, <2>1
  <2>2. CASE troubles' = troubles + 1
    BY <1>2, <1>3, <1>4, <2>2
  <2>3. QED
    BY <2>1, <2>2
<1>6. CASE breaker'[n].state = "closed" /\ breaker'[n].failures <= breaker[n].failures + 1
  <2>1. breaker'[n].failures + k <= troubles'
    BY <1>2, <1>3, <1>5, <1>6
  <2>2. QED
    BY <1>3, <1>6, <2>1 DEF Account, k
<1>7. CASE breaker[n].failures + 1 >= FailureThreshold
  BY <1>2, <1>3, <1>5, <1>7, ThresholdAssumption
<1>8. QED
  BY <1>2, <1>6, <1>7

----------------------------------------------------------------------------
\* Steps of a request

Untripped == troubles < FailureThreshold

LEMMA AllClosed ==
    ASSUME TypeOK, TripInv, Untripped
    PROVE  /\ troubles \in Nat
           /\ \A n \in Names : Account(n) /\ breaker[n].state = "closed" /\ Admits(breaker[n])
<1>1. troubles \in Nat /\ FailureThreshold \in Nat
  BY ThresholdAssumption, TroublesAssumption DEF TypeOK
<1>2. \A n \in Names : Account(n)
  BY <1>1 DEF TripInv, Untripped
<1>3. QED
  BY <1>1, <1>2 DEF Account, Admits

\* What every step of a request has in common: the request moves on, one breaker may
\* hear of it, and every failure that is then counted or still to be counted was
\* owed before or is the trouble of this step.
LEMMA RequestStep ==
    ASSUME IInv, NEW c \in Clients, UNCHANGED limiterVars,
           NEW l \in Labels, NEW g \in BOOLEAN, NEW a \in 0..MaxAttempts, NEW k \in Codes,
           Moves(c, l, g, a, k), g => l \in InOrderService \cup {"reply"},
           troubles' \in 0..MaxTroubles, troubles' = troubles \/ troubles' = troubles + 1,
           NEW n0 \in Names, NEW b, breaker' = [breaker EXCEPT ![n0] = b],
           b \in Calm(breaker[n0], c) \cup Charged(breaker[n0], c),
           Untripped => \A n \in Names : Doomed(n, l, g, k) => Owes(n, c) \/ troubles' = troubles + 1,
           \/ b \in Calm(breaker[n0], c)
           \/ Untripped => ~ Doomed(n0, l, g, k) /\ (Owes(n0, c) \/ troubles' = troubles + 1)
    PROVE  IInv'
<1>1. TypeOK /\ LimitInv /\ TripInv
  BY DEF IInv
<1>2. breaker \in [Names -> BreakerOf(Clients)] /\ b \in BreakerOf(Clients)
  <2>1. breaker \in [Names -> BreakerOf(Clients)]
    BY <1>1 DEF TypeOK
  <2>2. breaker[n0] \in BreakerOf(Clients)
    BY <2>1
  <2>3. QED
    BY <2>1, <2>2, CalmBreaker, FailedBreaker
<1>3. TypeOK'
  <2>1. breaker' \in [Names -> BreakerOf(Clients)]
    BY <1>2
  <2>2. /\ pc' \in [Clients -> Labels] /\ gone' \in [Clients -> BOOLEAN]
        /\ attempt' \in [Clients -> 0..MaxAttempts] /\ code' \in [Clients -> Codes]
    BY <1>1, MovesTyped
  <2>3. QED
    BY <1>1, <2>1, <2>2 DEF TypeOK, Labels, Codes, limiterVars, Known
<1>4. LimitInv'
  BY <1>1 DEF LimitInv, BucketOK, Known, limiterVars
<1>5. \A d \in Clients : /\ pc'[d] = IF d = c THEN l ELSE pc[d]
                         /\ gone'[d] = IF d = c THEN g ELSE gone[d]
                         /\ code'[d] = IF d = c THEN k ELSE code[d]
  BY <1>1, MovesTo
<1>6. \A d \in Clients : gone'[d] => pc'[d] \in InOrderService \cup {"reply"}
  BY <1>1, <1>5 DEF TripInv
<1>7. ASSUME NEW n \in Names
      PROVE  /\ Owes(n, c)' = Doomed(n, l, g, k)
             /\ \A d \in Clients \ {c} : Owes(n, d)' = Owes(n, d)
  BY <1>5 DEF Owes, Doomed
<1>8. troubles' >= FailureThreshold \/ \A n \in Names : Account(n)'
  <2>1. CASE Untripped
    <3>1. troubles \in Nat /\ \A n \in Names : Account(n)
      BY <1>1, <2>1, AllClosed
    <3>2. ASSUME NEW n \in Names, b \in Calm(breaker[n0], c) \/ n # n0
          PROVE  Account(n)'
      <4>1. breaker'[n] \in Calm(breaker[n], c)
        BY <1>2, <3>2 DEF Calm
      <4>2. Owes(n, c)' => Owes(n, c) \/ troubles' = troubles + 1
        BY <1>7, <2>1
      <4>3. \A d \in Clients \ {c} : Owes(n, d)' = Owes(n, d)
        BY <1>7
      <4>4. Account(n)
        BY <3>1
      <4>5. QED
        BY <1>1, <3>1, <4>1, <4>2, <4>3, <4>4, AccountKept
    <3>3. ASSUME b \notin Calm(breaker[n0], c)
          PROVE  Account(n0)' \/ troubles' >= FailureThreshold
      <4>1. breaker'[n0] \in Charged(breaker[n0], c)
        BY <1>2, <3>3
      <4>2. ~ Owes(n0, c)' /\ (Owes(n0, c) \/ troubles' = troubles + 1)
        BY <1>7, <2>1, <3>3
      <4>3. \A d \in Clients \ {c} : Owes(n0, d)' = Owes(n0, d)
        BY <1>7
      <4>4. Account(n0)
        BY <3>1
      <4>5. QED
        BY <1>1, <3>1, <4>1, <4>2, <4>3, <4>4, AccountCharged
    <3>4. QED
      BY <3>2, <3>3
  <2>2. CASE ~ Untripped
    <3>1. troubles \in Nat /\ FailureThreshold \in Nat
      BY <1>1, ThresholdAssumption, TroublesAssumption DEF TypeOK
    <3>2. QED
      BY <2>2, <3>1 DEF Untripped
  <2>3. QED
    BY <2>1, <2>2
<1>9. TripInv'
  BY <1>6, <1>8 DEF TripInv
<1>10. QED
  BY <1>3, <1>4, <1>9 DEF IInv

LEMMA Unmoved ==
    ASSUME TypeOK, NEW c \in Clients
    PROVE  /\ gone = [gone EXCEPT ![c] = gone[c]] /\ attempt = [attempt EXCEPT ![c] = attempt[c]]
           /\ code = [code EXCEPT ![c] = code[c]] /\ pc = [pc EXCEPT ![c] = pc[c]]
           /\ \A n \in Names : /\ breaker = [breaker EXCEPT ![n] = breaker[n]]
                               /\ breaker[n] \in Calm(breaker[n], c)
                               /\ Admitted(breaker[n], c) \in Calm(breaker[n], c)
                               /\ Report(breaker[n], c, TRUE) \in Calm(breaker[n], c)
                               /\ Report(breaker[n], c, FALSE) \in Charged(breaker[n], c)
           /\ pc[c] \in Labels /\ gone[c] \in BOOLEAN /\ attempt[c] \in 0..MaxAttempts /\ code[c] \in Codes
           /\ troubles \in 0..MaxTroubles
  BY DEF TypeOK, Calm, Charged, Labels, Codes

LEMMA TroubleCounts ==
    ASSUME TypeOK, NEW kind, Trouble(kind)
    PROVE  troubles' \in 0..MaxTroubles /\ troubles' = troubles + 1
  BY TroublesAssumption DEF TypeOK, Trouble

LEMMA InvProxyToService ==
    ASSUME IInv, NEW c \in Clients, ProxyToService(c)
    PROVE  IInv'
<1>1. TypeOK /\ TripInv
  BY DEF IInv
<1>2. /\ pc[c] \in {"create", "read"} /\ UNCHANGED <<limiterVars, handlerVars, troubles>>
      /\ \/ ~ Admits(breaker["order"]) /\ Goto(c, "idle") /\ UNCHANGED breaker
         \/ /\ breaker' = [breaker EXCEPT !["order"] = Admitted(breaker["order"], c)]
            /\ Goto(c, Handlers[pc[c]])
  BY DEF ProxyToService, Handlers
<1>3. ~ gone[c]
  BY <1>1, <1>2 DEF TripInv, InOrderService
<1>4. PICK l \in {"idle", "reserve", "reading"} : Goto(c, l)
  BY <1>2 DEF Handlers
<1>5. Moves(c, l, gone[c], attempt[c], code[c]) /\ l \in Labels
  BY <1>1, <1>2, <1>4, Unmoved DEF Moves, Goto, handlerVars, Labels, InOrderService
<1>6. \A n \in Names : ~ Doomed(n, l, gone[c], code[c])
  BY <1>3, <1>4 DEF Doomed
<1>7. PICK r \in Calm(breaker["order"], c) : breaker' = [breaker EXCEPT !["order"] = r]
  BY <1>1, <1>2, Unmoved DEF Names
<1>8. /\ UNCHANGED limiterVars /\ troubles' = troubles /\ troubles' \in 0..MaxTroubles
      /\ gone[c] \in BOOLEAN /\ attempt[c] \in 0..MaxAttempts /\ code[c] \in Codes
      /\ "order" \in Names
  BY <1>1, <1>2, Unmoved DEF Names
<1>9. QED
  BY <1>3, <1>5, <1>6, <1>7, <1>8, RequestStep

LEMMA InvRead ==
    ASSUME IInv, NEW c \in Clients, Read(c)
    PROVE  IInv'
<1>1. TypeOK
  BY DEF IInv
<1>2. PICK k \in {"2xx", "4xx", "5xx"} :
          /\ Answer(c, k)
          /\ \/ k \in {"2xx", "4xx"} /\ UNCHANGED troubles
             \/ gone[c] /\ UNCHANGED troubles
             \/ Trouble("fault")
  BY DEF Read
<1>3. UNCHANGED <<limiterVars, breaker, gone, attempt>>
  BY DEF Read
<1>4. /\ troubles' \in 0..MaxTroubles
      /\ troubles' = troubles \/ troubles' = troubles + 1
      /\ k = "5xx" /\ ~ gone[c] => troubles' = troubles + 1
  BY <1>1, <1>2, TroubleCounts, Unmoved
<1>5. Moves(c, "reply", gone[c], attempt[c], k) /\ "reply" \in Labels /\ k \in Codes
  BY <1>1, <1>2, <1>3, Unmoved DEF Moves, Answer, Goto, Labels, Codes
<1>6. \A n \in Names : Doomed(n, "reply", gone[c], k) => troubles' = troubles + 1
  BY <1>4 DEF Doomed
<1>7. /\ breaker["order"] \in Calm(breaker["order"], c) /\ breaker' = [breaker EXCEPT !["order"] = breaker["order"]]
      /\ "order" \in Names
  BY <1>1, <1>3, Unmoved DEF Names
<1>8. UNCHANGED limiterVars /\ gone[c] \in BOOLEAN /\ attempt[c] \in 0..MaxAttempts
  BY <1>1, <1>3, Unmoved
<1>9. QED
  BY <1>4, <1>5, <1>6, <1>7, <1>8, RequestStep

\* Execute lets the call in while no breaker is tripped.
LEMMA Executes ==
    ASSUME IInv, NEW c \in Clients, NEW n \in Names, NEW l, Execute(c, n, l)
    PROVE  /\ \E r \in Calm(breaker[n], c) : breaker' = [breaker EXCEPT ![n] = r]
           /\ \/ Goto(c, l) /\ UNCHANGED code
              \/ Answer(c, "5xx") /\ ~ Untripped
<1>1. TypeOK /\ TripInv
  BY DEF IInv
<1>2. Untripped => Admits(breaker[n])
  BY <1>1, AllClosed
<1>3. CASE ~ Admits(breaker[n]) /\ Answer(c, "5xx") /\ UNCHANGED breaker
  BY <1>1, <1>2, <1>3, Unmoved
<1>4. CASE /\ Admits(breaker[n])
           /\ breaker' = [breaker EXCEPT ![n] = Admitted(breaker[n], c)]
           /\ Goto(c, l) /\ UNCHANGED code
  BY <1>1, <1>4, Unmoved
<1>5. QED
  BY <1>3, <1>4 DEF Execute

LEMMA InvReserve ==
    ASSUME IInv, NEW c \in Clients, Reserve(c)
    PROVE  IInv'
<1>1. TypeOK
  BY DEF IInv
<1>2. /\ pc[c] = "reserve" /\ Execute(c, "inventory_reserve", "reserving")
      /\ UNCHANGED <<limiterVars, gone, attempt, troubles>> /\ "inventory_reserve" \in Names
  BY DEF Reserve, Names
<1>3. PICK r \in Calm(breaker["inventory_reserve"], c) : breaker' = [breaker EXCEPT !["inventory_reserve"] = r]
  BY <1>2, Executes
<1>4. \/ Goto(c, "reserving") /\ UNCHANGED code
      \/ Answer(c, "5xx") /\ ~ Untripped
  BY <1>2, Executes
<1>5. /\ UNCHANGED limiterVars /\ troubles' = troubles /\ troubles' \in 0..MaxTroubles
      /\ gone[c] \in BOOLEAN /\ attempt[c] \in 0..MaxAttempts /\ code[c] \in Codes
  BY <1>1, <1>2, Unmoved
<1>6. CASE Goto(c, "reserving") /\ UNCHANGED code
  <2>1. /\ Moves(c, "reserving", gone[c], attempt[c], code[c]) /\ "reserving" \in Labels
        /\ "reserving" \in InOrderService
    BY <1>1, <1>2, <1>6, Unmoved DEF Moves, Goto, Labels, InOrderService
  <2>2. \A n \in Names : Doomed(n, "reserving", gone[c], code[c]) => Owes(n, c)
    BY <1>2 DEF Doomed, Owes
  <2>3. QED
    BY <1>2, <1>3, <1>5, <2>1, <2>2, RequestStep
<1>7. CASE Answer(c, "5xx") /\ ~ Untripped
  <2>1. Moves(c, "reply", gone[c], attempt[c], "5xx") /\ "reply" \in Labels /\ "5xx" \in Codes
    BY <1>1, <1>2, <1>7, Unmoved DEF Moves, Answer, Goto, Labels, Codes
  <2>2. QED
    BY <1>2, <1>3, <1>5, <1>7, <2>1, RequestStep
<1>8. QED
  BY <1>4, <1>6, <1>7

LEMMA InvReserved ==
    ASSUME IInv, NEW c \in Clients, Reserved(c)
    PROVE  IInv'
<1>1. TypeOK
  BY DEF IInv
<1>2. /\ pc[c] = "reserving" /\ UNCHANGED limiterVars /\ UNCHANGED <<gone, attempt>>
      /\ gone[c] \in BOOLEAN /\ attempt[c] \in 0..MaxAttempts /\ code[c] \in Codes
      /\ troubles \in 0..MaxTroubles /\ "inventory_reserve" \in Names
  BY <1>1, Unmoved DEF Reserved, Names
<1> DEFINE b == breaker["inventory_reserve"]
<1>3. /\ Report(b, c, TRUE) \in Calm(b, c)
      /\ Report(b, c, FALSE) \in Charged(b, c)
  BY <1>1, <1>2, Unmoved
<1>4. CASE Executed(c, "inventory_reserve", TRUE) /\ Goto(c, "save") /\ UNCHANGED <<code, troubles>>
  <2>1. PICK r \in Calm(b, c) : breaker' = [breaker EXCEPT !["inventory_reserve"] = r]
    BY <1>3, <1>4 DEF Executed
  <2>2. /\ Moves(c, "save", gone[c], attempt[c], code[c]) /\ "save" \in Labels
        /\ "save" \in InOrderService
    BY <1>1, <1>2, <1>4, Unmoved DEF Moves, Goto, Labels, InOrderService
  <2>3. \A n \in Names : ~ Doomed(n, "save", gone[c], code[c])
    BY DEF Doomed
  <2>4. QED
    BY <1>2, <1>4, <2>1, <2>2, <2>3, RequestStep
<1>5. ASSUME NEW k \in {"4xx", "5xx"}, Answer(c, k), Executed(c, "inventory_reserve", FALSE),
             troubles' \in 0..MaxTroubles, troubles' = troubles \/ troubles' = troubles + 1,
             gone[c] \/ troubles' = troubles + 1
      PROVE  IInv'
  <2>1. PICK r \in Charged(b, c) : breaker' = [breaker EXCEPT !["inventory_reserve"] = r]
    BY <1>3, <1>5 DEF Executed
  <2>2. Moves(c, "reply", gone[c], attempt[c], k) /\ "reply" \in Labels /\ k \in Codes
    BY <1>1, <1>2, <1>5, Unmoved DEF Moves, Answer, Goto, Labels, Codes
  <2>3. \A n \in Names : Doomed(n, "reply", gone[c], k) => troubles' = troubles + 1
    BY <1>2, <1>5 DEF Doomed
  <2>4. /\ ~ Doomed("inventory_reserve", "reply", gone[c], k)
        /\ Owes("inventory_reserve", c) \/ troubles' = troubles + 1
    BY <1>2, <1>5 DEF Doomed, Owes
  <2>5. QED
    BY <1>2, <1>5, <2>1, <2>2, <2>3, <2>4, RequestStep
<1>6. CASE /\ Executed(c, "inventory_reserve", FALSE)
           /\ \E kind \in DOMAIN Failure : Trouble(kind) /\ Answer(c, Failure[kind])
  <2>1. PICK k \in {"4xx", "5xx"} : Answer(c, k)
    BY <1>6 DEF Failure
  <2>2. troubles' \in 0..MaxTroubles /\ troubles' = troubles + 1
    BY <1>1, <1>6, TroubleCounts
  <2>3. QED
    BY <1>5, <1>6, <2>1, <2>2
<1>7. CASE /\ gone[c] /\ Executed(c, "inventory_reserve", FALSE)
           /\ Answer(c, "5xx") /\ UNCHANGED troubles
  BY <1>2, <1>5, <1>7
<1>8. QED
  BY <1>4, <1>6, <1>7 DEF Reserved

LEMMA InvSave ==
    ASSUME IInv, NEW c \in Clients, Save(c)
    PROVE  IInv'
<1>1. TypeOK
  BY DEF IInv
<1>2. /\ UNCHANGED limiterVars /\ UNCHANGED <<breaker, gone>>
      /\ gone[c] \in BOOLEAN /\ attempt[c] \in 0..MaxAttempts /\ code[c] \in Codes
      /\ troubles \in 0..MaxTroubles /\ 1 \in 0..MaxAttempts
  <2>1. UNCHANGED limiterVars /\ UNCHANGED <<breaker, gone>>
    BY DEF Save
  <2>2. 1 \in 0..MaxAttempts
    BY AttemptsAssumption
  <2>3. QED
    BY <1>1, <2>1, <2>2, Unmoved
<1>3. /\ breaker["order"] \in Calm(breaker["order"], c) /\ breaker' = [breaker EXCEPT !["order"] = breaker["order"]]
      /\ "order" \in Names
  BY <1>1, <1>2, Unmoved DEF Names
<1>4. ASSUME NEW status \in {"2xx", "4xx"}, Answer(c, status), UNCHANGED <<attempt, troubles>>
      PROVE  IInv'
  <2>1. Moves(c, "reply", gone[c], attempt[c], status) /\ "reply" \in Labels /\ status \in Codes
    BY <1>1, <1>2, <1>4, Unmoved DEF Moves, Answer, Goto, Labels, Codes
  <2>2. \A n \in Names : ~ Doomed(n, "reply", gone[c], status)
    BY <1>4 DEF Doomed
  <2>3. troubles' \in 0..MaxTroubles /\ troubles' = troubles
    BY <1>2, <1>4
  <2>4. UNCHANGED limiterVars /\ gone[c] \in BOOLEAN /\ attempt[c] \in 0..MaxAttempts
    BY <1>2
  <2>5. QED
    BY <1>3, <2>1, <2>2, <2>3, <2>4, RequestStep
<1>5. CASE /\ IF gone[c] THEN UNCHANGED troubles ELSE Trouble("fault")
           /\ attempt' = [attempt EXCEPT ![c] = 1]
           /\ Goto(c, "release") /\ UNCHANGED code
  <2>1. /\ Moves(c, "release", gone[c], 1, code[c]) /\ "release" \in Labels
        /\ "release" \in InOrderService
    BY <1>1, <1>2, <1>5, Unmoved DEF Moves, Goto, Labels, InOrderService
  <2>2. /\ troubles' \in 0..MaxTroubles
        /\ troubles' = troubles \/ troubles' = troubles + 1
        /\ ~ gone[c] => troubles' = troubles + 1
    BY <1>1, <1>2, <1>5, TroubleCounts
  <2>3. \A n \in Names : Doomed(n, "release", gone[c], code[c]) => troubles' = troubles + 1
    BY <2>2 DEF Doomed
  <2>4. QED
    BY <1>2, <1>3, <2>1, <2>2, <2>3, RequestStep
<1>6. CASE /\ Answer(c, "5xx") /\ UNCHANGED attempt
           /\ IF gone[c] THEN UNCHANGED troubles ELSE Trouble("fault")
  <2>1. Moves(c, "reply", gone[c], attempt[c], "5xx") /\ "reply" \in Labels /\ "5xx" \in Codes
    BY <1>1, <1>2, <1>6, Unmoved DEF Moves, Answer, Goto, Labels, Codes
  <2>2. /\ troubles' \in 0..MaxTroubles
        /\ troubles' = troubles \/ troubles' = troubles + 1
        /\ ~ gone[c] => troubles' = troubles + 1
    BY <1>1, <1>2, <1>6, TroubleCounts
  <2>3. \A n \in Names : Doomed(n, "reply", gone[c], "5xx") => troubles' = troubles + 1
    BY <2>2 DEF Doomed
  <2>4. UNCHANGED limiterVars /\ gone[c] \in BOOLEAN /\ attempt[c] \in 0..MaxAttempts
    BY <1>2
  <2>5. QED
    BY <1>3, <2>1, <2>2, <2>3, <2>4, RequestStep
<1>7. QED
  BY <1>4, <1>5, <1>6 DEF Save

LEMMA InvRelease ==
    ASSUME IInv, NEW c \in Clients, Release(c)
    PROVE  IInv'
<1>1. TypeOK
  BY DEF IInv
<1>2. /\ pc[c] = "release" /\ UNCHANGED limiterVars /\ UNCHANGED <<gone, attempt, troubles>>
      /\ gone[c] \in BOOLEAN /\ attempt[c] \in 0..MaxAttempts /\ code[c] \in Codes
      /\ troubles \in 0..MaxTroubles /\ "inventory_release" \in Names
  BY <1>1, Unmoved DEF Release, Names
<1>3. /\ \E r \in Calm(breaker["inventory_release"], c) : breaker' = [breaker EXCEPT !["inventory_release"] = r]
      /\ \/ Answer(c, "5xx") /\ (gone[c] \/ ~ Untripped)
         \/ ~ gone[c] /\ Goto(c, "releasing") /\ UNCHANGED code
  <2>1. CASE gone[c] /\ Answer(c, "5xx") /\ UNCHANGED breaker
    BY <1>1, <1>2, <2>1, Unmoved
  <2>2. CASE ~ gone[c] /\ Execute(c, "inventory_release", "releasing")
    BY <1>2, <2>2, Executes
  <2>3. QED
    BY <2>1, <2>2 DEF Release
<1>4. PICK r \in Calm(breaker["inventory_release"], c) : breaker' = [breaker EXCEPT !["inventory_release"] = r]
  BY <1>3
<1>5. CASE Answer(c, "5xx") /\ (gone[c] \/ ~ Untripped)
  <2>1. Moves(c, "reply", gone[c], attempt[c], "5xx") /\ "reply" \in Labels /\ "5xx" \in Codes
    BY <1>1, <1>2, <1>5, Unmoved DEF Moves, Answer, Goto, Labels, Codes
  <2>2. Untripped => \A n \in Names : ~ Doomed(n, "reply", gone[c], "5xx")
    BY <1>5 DEF Doomed
  <2>3. troubles' \in 0..MaxTroubles /\ troubles' = troubles
    BY <1>2
  <2>4. QED
    BY <1>2, <1>4, <2>1, <2>2, <2>3, RequestStep
<1>6. CASE ~ gone[c] /\ Goto(c, "releasing") /\ UNCHANGED code
  <2>1. /\ Moves(c, "releasing", gone[c], attempt[c], code[c]) /\ "releasing" \in Labels
        /\ "releasing" \in InOrderService
    BY <1>1, <1>2, <1>6, Unmoved DEF Moves, Goto, Labels, InOrderService
  <2>2. \A n \in Names : Doomed(n, "releasing", gone[c], code[c]) => Owes(n, c)
    BY <1>2, <1>6 DEF Doomed, Owes
  <2>3. troubles' \in 0..MaxTroubles /\ troubles' = troubles
    BY <1>2
  <2>4. QED
    BY <1>2, <1>4, <2>1, <2>2, <2>3, RequestStep
<1>7. QED
  BY <1>3, <1>5, <1>6

LEMMA InvReleased ==
    ASSUME IInv, NEW c \in Clients, Released(c)
    PROVE  IInv'
<1>1. TypeOK
  BY DEF IInv
<1>2. /\ pc[c] = "releasing" /\ UNCHANGED limiterVars /\ UNCHANGED gone
      /\ gone[c] \in BOOLEAN /\ attempt[c] \in 0..MaxAttempts /\ code[c] \in Codes
      /\ troubles \in 0..MaxTroubles /\ "inventory_release" \in Names
  BY <1>1, Unmoved DEF Released, Names
<1> DEFINE b == breaker["inventory_release"]
<1>3. /\ Report(b, c, TRUE) \in Calm(b, c)
      /\ Report(b, c, FALSE) \in Charged(b, c)
  BY <1>1, <1>2, Unmoved
<1>4. CASE /\ Executed(c, "inventory_release", TRUE) /\ Answer(c, "5xx")
           /\ UNCHANGED <<attempt, troubles>>
  <2>1. PICK r \in Calm(b, c) : breaker' = [breaker EXCEPT !["inventory_release"] = r]
    BY <1>3, <1>4 DEF Executed
  <2>2. Moves(c, "reply", gone[c], attempt[c], "5xx") /\ "reply" \in Labels /\ "5xx" \in Codes
    BY <1>1, <1>2, <1>4, Unmoved DEF Moves, Answer, Goto, Labels, Codes
  <2>3. \A n \in Names : Doomed(n, "reply", gone[c], "5xx") => Owes(n, c)
    BY <1>2 DEF Doomed, Owes
  <2>4. troubles' \in 0..MaxTroubles /\ troubles' = troubles
    BY <1>2, <1>4
  <2>5. QED
    BY <1>2, <2>1, <2>2, <2>3, <2>4, RequestStep
<1>5. CASE \E kind \in DOMAIN Failure :
             /\ Trouble(kind) \/ (gone[c] /\ UNCHANGED troubles)
             /\ Executed(c, "inventory_release", FALSE)
             /\ IF isRetryableInventoryError(Failure[kind]) /\ attempt[c] < MaxAttempts
                THEN /\ attempt' = [attempt EXCEPT ![c] = attempt[c] + 1]
                     /\ Goto(c, "release")
                     /\ UNCHANGED code
                ELSE Answer(c, "5xx") /\ UNCHANGED attempt
  <2>1. PICK r \in Charged(b, c) : breaker' = [breaker EXCEPT !["inventory_release"] = r]
    BY <1>3, <1>5 DEF Executed
  <2>2. /\ troubles' \in 0..MaxTroubles
        /\ troubles' = troubles \/ troubles' = troubles + 1
        /\ ~ gone[c] => troubles' = troubles + 1
    BY <1>1, <1>2, <1>5, TroubleCounts
  <2>3. Owes("inventory_release", c) \/ troubles' = troubles + 1
    BY <1>2, <2>2 DEF Owes, Doomed
  <2>4. CASE /\ attempt' = [attempt EXCEPT ![c] = attempt[c] + 1] /\ attempt[c] < MaxAttempts
             /\ Goto(c, "release") /\ UNCHANGED code
    <3>1. /\ Moves(c, "release", gone[c], attempt[c] + 1, code[c]) /\ "release" \in Labels
          /\ "release" \in InOrderService
      BY <1>1, <1>2, <2>4, Unmoved DEF Moves, Goto, Labels, InOrderService
    <3>2. \A n \in Names : Doomed(n, "release", gone[c], code[c]) => Owes(n, c)
      BY <1>2 DEF Doomed, Owes
    <3>3. ~ Doomed("inventory_release", "release", gone[c], code[c])
      BY DEF Doomed
    <3>4. attempt[c] + 1 \in 0..MaxAttempts
      BY <1>2, <2>4, AttemptsAssumption
    <3>5. QED
      BY <1>2, <2>1, <2>2, <2>3, <3>1, <3>2, <3>3, <3>4, RequestStep
  <2>5. CASE Answer(c, "5xx") /\ UNCHANGED attempt
    <3>1. Moves(c, "reply", gone[c], attempt[c], "5xx") /\ "reply" \in Labels /\ "5xx" \in Codes
      BY <1>1, <1>2, <2>5, Unmoved DEF Moves, Answer, Goto, Labels, Codes
    <3>2. \A n \in Names : Doomed(n, "reply", gone[c], "5xx") => Owes(n, c)
      BY <1>2 DEF Doomed, Owes
    <3>3. ~ Doomed("inventory_release", "reply", gone[c], "5xx")
      BY DEF Doomed
    <3>4. QED
      BY <1>2, <2>1, <2>2, <2>3, <3>1, <3>2, <3>3, RequestStep
  <2>6. QED
    BY <1>5, <2>4, <2>5
<1>6. QED
  BY <1>4, <1>5 DEF Released

LEMMA InvReply ==
    ASSUME IInv, NEW c \in Clients, Reply(c)
    PROVE  IInv'
<1>1. TypeOK
  BY DEF IInv
<1>2. /\ pc[c] = "reply" /\ UNCHANGED limiterVars /\ UNCHANGED troubles
      /\ 0 \in 0..MaxAttempts /\ troubles \in 0..MaxTroubles /\ "order" \in Names
  <2>1. pc[c] = "reply" /\ UNCHANGED limiterVars /\ UNCHANGED troubles
    BY DEF Reply
  <2>2. 0 \in 0..MaxAttempts
    BY AttemptsAssumption
  <2>3. QED
    BY <1>1, <2>1, <2>2, Unmoved DEF Names
<1> DEFINE b == breaker["order"]
<1>3. /\ b \in Calm(b, c) /\ Report(b, c, TRUE) \in Calm(b, c)
      /\ Report(b, c, FALSE) \in Charged(b, c)
  BY <1>1, <1>2, Unmoved
<1>4. Moves(c, "idle", FALSE, 0, "none") /\ "idle" \in Labels /\ "none" \in Codes
  BY DEF Reply, Moves, Goto, Labels, Codes
<1>5. \A n \in Names : ~ Doomed(n, "idle", FALSE, "none")
  BY DEF Doomed
<1>6. troubles' \in 0..MaxTroubles /\ troubles' = troubles
  BY <1>2
<1>7. \E r \in Calm(b, c) \cup Charged(b, c) :
          /\ breaker' = [breaker EXCEPT !["order"] = r]
          /\ r \in Calm(b, c) \/ Owes("order", c)
  <2>1. CASE gone[c]
    <3>1. breaker' = [breaker EXCEPT !["order"] = b]
      BY <2>1 DEF Reply
    <3>2. QED
      BY <1>3, <3>1
  <2>2. CASE ~ gone[c] /\ code[c] = "5xx"
    <3>1. breaker' = [breaker EXCEPT !["order"] = Report(b, c, FALSE)]
      BY <2>2 DEF Reply, CountsAsFailure
    <3>2. Owes("order", c)
      BY <1>2, <2>2 DEF Owes, Doomed
    <3>3. QED
      BY <1>3, <3>1, <3>2
  <2>3. CASE ~ gone[c] /\ code[c] # "5xx"
    <3>1. breaker' = [breaker EXCEPT !["order"] = Report(b, c, TRUE)]
      BY <2>3 DEF Reply, CountsAsFailure
    <3>2. QED
      BY <1>3, <3>1
  <2>4. QED
    BY <2>1, <2>2, <2>3
<1>8. PICK r \in Calm(b, c) \cup Charged(b, c) :
          /\ breaker' = [breaker EXCEPT !["order"] = r]
          /\ r \in Calm(b, c) \/ Owes("order", c)
  BY <1>7
<1>9. QED
  BY <1>2, <1>4, <1>5, <1>6, <1>8, RequestStep

LEMMA InvGiveUp ==
    ASSUME IInv, NEW c \in Clients, GiveUp(c)
    PROVE  IInv'
<1>1. TypeOK
  BY DEF IInv
<1>2. /\ pc[c] \in InOrderService /\ UNCHANGED limiterVars /\ UNCHANGED <<pc, attempt, code>>
      /\ pc[c] \in Labels /\ attempt[c] \in 0..MaxAttempts /\ code[c] \in Codes /\ "order" \in Names
  BY <1>1, Unmoved DEF GiveUp, Names
<1>3. troubles' \in 0..MaxTroubles /\ troubles' = troubles + 1
  BY <1>1, TroubleCounts DEF GiveUp
<1>4. Moves(c, pc[c], TRUE, attempt[c], code[c])
  BY <1>1, <1>2, Unmoved DEF Moves, GiveUp
<1>5. PICK r \in Charged(breaker["order"], c) : breaker' = [breaker EXCEPT !["order"] = r]
  BY <1>1, <1>2, Unmoved DEF GiveUp
<1>6. ~ Doomed("order", pc[c], TRUE, code[c])
  BY DEF Doomed
<1>7. QED
  BY <1>2, <1>3, <1>4, <1>5, <1>6, RequestStep

----------------------------------------------------------------------------
\* Steps of the limiter and of the breakers' clocks

\* The limiter's steps leave the breakers, and what is owed to them, alone.
LEMMA LimiterStep ==
    ASSUME IInv, Buckets', UNCHANGED <<breaker, handlerVars, troubles>>,
           pc' \in [Clients -> Labels],
           \A c \in Clients : pc'[c] = pc[c] \/ (pc[c] = "idle" /\ pc'[c] \in {"create", "read"})
    PROVE  IInv'
<1>1. TypeOK /\ TripInv
  BY DEF IInv
<1>2. TypeOK'
  BY <1>1 DEF TypeOK, Buckets, LimitInv, Labels, handlerVars
<1>3. \A c \in Clients : gone'[c] => pc'[c] \in InOrderService \cup {"reply"}
  BY <1>1 DEF TripInv, handlerVars, InOrderService
<1>4. ASSUME NEW n \in Names
      PROVE  Account(n)' = Account(n)
  <2>1. \A c \in Clients : Owes(n, c)' = Owes(n, c)
    BY DEF Owes, Doomed, handlerVars
  <2>2. Owed(n)' = Owed(n)
    BY <2>1 DEF Owed
  <2>3. QED
    BY <2>2 DEF Account
<1>5. TripInv'
  BY <1>1, <1>3, <1>4 DEF TripInv
<1>6. QED
  BY <1>2, <1>5 DEF IInv, Buckets

LEMMA InvBuckets ==
    ASSUME IInv
    PROVE  Buckets
  BY DEF IInv, TypeOK, Buckets

LEMMA InvLimiter ==
    ASSUME IInv, NEW c \in Clients,
           \/ \E kind \in DOMAIN Handlers : Request(c, kind)
           \/ AnsweredLocally(c) \/ Refill(c)
    PROVE  IInv'
<1>1. Buckets /\ TypeOK /\ pc \in [Clients -> Labels]
  BY InvBuckets DEF IInv, TypeOK, Labels
<1>2. CASE \E kind \in DOMAIN Handlers : Request(c, kind)
  <2>1. PICK kind \in {"create", "read"} : Request(c, kind)
    BY <1>2 DEF Handlers
  <2>2. Buckets' /\ UNCHANGED <<breaker, handlerVars, troubles>>
    BY <1>1, <2>1, AllowKeeps DEF Request
  <2>3. pc[c] = "idle" /\ pc' = [pc EXCEPT ![c] = kind] /\ kind \in Labels
    BY <2>1 DEF Request, Goto, Labels
  <2>4. pc' \in [Clients -> Labels]
    BY <1>1, <2>3
  <2>5. \A d \in Clients : pc'[d] = pc[d] \/ (pc[d] = "idle" /\ pc'[d] \in {"create", "read"})
    BY <1>1, <2>3
  <2>6. QED
    BY <2>2, <2>4, <2>5, LimiterStep
<1>3. CASE AnsweredLocally(c)
  <2>1. Buckets' /\ UNCHANGED <<breaker, handlerVars, troubles>> /\ UNCHANGED pc
    BY <1>1, <1>3, AllowKeeps DEF AnsweredLocally
  <2>2. QED
    BY <1>1, <2>1, LimiterStep
<1>4. CASE Refill(c)
  <2>1. Buckets' /\ UNCHANGED <<breaker, handlerVars, troubles>> /\ UNCHANGED pc
    BY <1>1, <1>4, RefillKeeps DEF Refill, Gain
  <2>2. QED
    BY <1>1, <2>1, LimiterStep
<1>5. QED
  BY <1>2, <1>3, <1>4

LEMMA InvCleanup ==
    ASSUME IInv, Cleanup
    PROVE  IInv'
<1>1. Buckets /\ pc \in [Clients -> Labels]
  BY InvBuckets DEF IInv, TypeOK, Labels
<1>2. Buckets' /\ UNCHANGED <<breaker, handlerVars, troubles>> /\ UNCHANGED pc
  BY <1>1, CleanupKeeps DEF Cleanup
<1>3. QED
  BY <1>1, <1>2, LimiterStep

LEMMA InvClocks ==
    ASSUME IInv, NEW n \in Names, OpenTimeout(n) \/ WindowEnds(n)
    PROVE  IInv'
<1>1. TypeOK /\ LimitInv /\ TripInv
  BY DEF IInv
<1>2. UNCHANGED <<limiterVars, pc, handlerVars, troubles>>
  BY DEF OpenTimeout, WindowEnds
<1>3. PICK state \in {"closed", "half_open"} :
          /\ breaker' = [breaker EXCEPT ![n] = Fresh(state)]
          /\ state = "half_open" => breaker[n].state = "open"
  BY DEF OpenTimeout, WindowEnds
<1>4. /\ \A s \in {"closed", "half_open"} : Fresh(s) \in BreakerOf(Clients)
      /\ Fresh("closed").state = "closed" /\ Fresh("closed").failures = 0
  BY ThresholdAssumption DEF Fresh, BreakerOf
<1>5. breaker \in [Names -> BreakerOf(Clients)] /\ breaker' \in [Names -> BreakerOf(Clients)]
  <2>1. breaker \in [Names -> BreakerOf(Clients)] /\ Fresh(state) \in BreakerOf(Clients)
    BY <1>1, <1>4 DEF TypeOK
  <2>2. QED
    BY <1>3, <2>1
<1>6. TypeOK'
  BY <1>1, <1>2, <1>5 DEF TypeOK, limiterVars, handlerVars, Known
<1>7. LimitInv'
  BY <1>1, <1>2 DEF LimitInv, BucketOK, limiterVars, Known
<1>8. ASSUME NEW m \in Names, Untripped
      PROVE  Account(m)'
  <2>1. troubles \in Nat /\ Account(m) /\ breaker[n].state = "closed"
    BY <1>1, <1>8, AllClosed
  <2>2. state = "closed"
    BY <1>3, <2>1
  <2>3. \A d \in Clients : Owes(m, d)' = Owes(m, d)
    BY <1>2 DEF Owes, handlerVars
  <2>4. Owed(m)' = Owed(m)
    BY <2>3 DEF Owed
  <2>5. IsFiniteSet(Owed(m)) /\ Cardinality(Owed(m)) \in Nat
    BY <2>1, FS_CardinalityType DEF Account
  <2>6. CASE m # n
    <3>1. breaker'[m] = breaker[m]
      BY <1>3, <1>5, <2>6
    <3>2. QED
      BY <1>2, <2>1, <2>4, <3>1 DEF Account
  <2>7. CASE m = n
    <3>1. breaker'[m] = Fresh("closed")
      BY <1>3, <1>5, <2>2, <2>7
    <3>2. breaker'[m].state = "closed" /\ breaker'[m].failures = 0
      BY <1>4, <3>1
    <3>3. breaker[m].failures \in Nat
      BY <1>5 DEF BreakerOf
    <3>4. breaker'[m].failures + Cardinality(Owed(m)) <= troubles'
      <4> DEFINE k == Cardinality(Owed(m))
      <4>1. k \in Nat /\ breaker[m].failures + k <= troubles
        BY <2>1, <2>5 DEF Account
      <4> HIDE DEF k
      <4>2. breaker'[m].failures + k <= troubles'
        BY <1>2, <2>1, <3>2, <3>3, <4>1
      <4>3. QED
        BY <4>2 DEF k
    <3>5. QED
      BY <2>4, <2>5, <3>2, <3>4, Zenon DEF Account
  <2>8. QED
    BY <2>6, <2>7
<1>9. troubles' >= FailureThreshold \/ \A m \in Names : Account(m)'
  <2>1. CASE Untripped
    BY <1>8, <2>1
  <2>2. CASE ~ Untripped
    <3>1. troubles \in Nat /\ FailureThreshold \in Nat
      BY <1>1, ThresholdAssumption, TroublesAssumption DEF TypeOK
    <3>2. QED
      BY <1>2, <2>2, <3>1 DEF Untripped
  <2>3. QED
    BY <2>1, <2>2
<1>10. TripInv'
  BY <1>1, <1>2, <1>9 DEF TripInv, handlerVars
<1>11. QED
  BY <1>6, <1>7, <1>10 DEF IInv

----------------------------------------------------------------------------
\* The theorems

LEMMA InvInit ==
    ASSUME Init
    PROVE  IInv
<1>1. Known = {} /\ Burst \in Nat \ {0} /\ MaxClients \in Nat \ {0}
  BY LimiterAssumption DEF Init, Known
<1>2. TypeOK
  <2>1. Fresh("closed") \in BreakerOf(Clients)
    BY ThresholdAssumption DEF Fresh, BreakerOf
  <2>2. breaker \in [Names -> BreakerOf(Clients)]
    BY <2>1 DEF Init
  <2>3. QED
    BY <1>1, <2>2, AttemptsAssumption, TroublesAssumption DEF Init, TypeOK
<1>3. LimitInv
  <2>1. IsFiniteSet({}) /\ Cardinality({}) = 0
    BY FS_EmptySet
  <2>2. limiters \in [Known -> 0..Burst]
    BY <1>1 DEF Init
  <2>3. IsFiniteSet(Known) /\ Cardinality(Known) = 0
    BY <1>1, <2>1, Zenon
  <2>4. \A c \in Clients : BucketOK(c)
    BY <1>1 DEF Init, BucketOK
  <2>5. QED
    BY <1>1, <2>2, <2>3, <2>4 DEF LimitInv
<1>4. ASSUME NEW n \in Names
      PROVE  Account(n)
  <2>1. Owed(n) = {}
    BY DEF Init, Owed, Owes, Doomed
  <2>2. IsFiniteSet(Owed(n)) /\ Cardinality(Owed(n)) = 0
    BY <2>1, FS_EmptySet, Zenon
  <2>3. breaker[n].state = "closed" /\ breaker[n].failures = 0 /\ troubles = 0
    BY DEF Init, Fresh
  <2>4. QED
    BY <2>2, <2>3 DEF Account
<1>5. TripInv
  BY <1>4 DEF Init, TripInv
<1>6. QED
  BY <1>2, <1>3, <1>5 DEF IInv

LEMMA InvStep ==
    ASSUME IInv, [Next]_vars
    PROVE  IInv'
<1>1. ASSUME NEW c \in Clients, Serve(c)
      PROVE  IInv'
  BY <1>1, InvProxyToService, InvRead, InvReserve, InvReserved, InvSave, InvRelease, InvReleased,
     InvReply DEF Serve
<1>2. ASSUME NEW c \in Clients, \/ \E kind \in DOMAIN Handlers : Request(c, kind)
                                \/ AnsweredLocally(c) \/ Refill(c)
      PROVE  IInv'
  BY <1>2, InvLimiter
<1>3. ASSUME NEW c \in Clients, GiveUp(c)
      PROVE  IInv'
  BY <1>3, InvGiveUp
<1>4. CASE Cleanup
  BY <1>4, InvCleanup
<1>5. ASSUME NEW n \in Names, OpenTimeout(n) \/ WindowEnds(n)
      PROVE  IInv'
  BY <1>5, InvClocks
<1>6. CASE UNCHANGED vars
  <2>1. UNCHANGED <<limiters, debt, evicted, breaker, pc, gone, attempt, code, troubles>>
    BY <1>6 DEF vars, limiterVars, handlerVars
  <2>2. \A n \in Names : Account(n)' = Account(n)
    BY <2>1 DEF Account, Owed, Owes
  <2>3. QED
    BY <2>1, <2>2 DEF IInv, TypeOK, LimitInv, TripInv, BucketOK, Known
<1>7. QED
  BY <1>1, <1>2, <1>3, <1>4, <1>5, <1>6 DEF Next

\* Every reachable state has the invariant.
THEOREM SpecInv == Spec => []IInv
<1>1. Init => IInv
  BY InvInit
<1>2. IInv /\ [Next]_vars => IInv'
  BY InvStep
<1>3. QED
  BY <1>1, <1>2, PTL DEF Spec

\* Buckets hold between no and Burst tokens, breakers and requests are always in a state
\* the code has, and no more attempts are made than retryMaxAttempts.
THEOREM SpecTypeOK == Spec => []TypeOK
<1>1. IInv => TypeOK
  BY DEF IInv
<1>2. QED
  BY <1>1, SpecInv, PTL

\* The map of the limiter never outgrows MaxClients, whichever buckets an eviction picks,
\* and while its bucket is kept a client takes at most Burst tokens beyond those that
\* time gave back.
THEOREM SpecLimitHolds == Spec => []LimitHolds
<1>1. IInv => LimitHolds
  <2> SUFFICES ASSUME IInv PROVE LimitHolds
    OBVIOUS
  <2>1. Buckets
    BY InvBuckets
  <2>2. ASSUME NEW c \in Clients \ evicted
        PROVE  debt[c] <= Burst
    BY <2>1, BucketFacts
  <2>3. QED
    BY <2>1, <2>2 DEF LimitHolds, Buckets, LimitInv
<1>2. QED
  BY <1>1, SpecInv, PTL

\* No breaker leaves the closed state before FailureThreshold troubles of any kind, and
\* until then each has counted a trouble at most once: answers that the system gives on
\* purpose trip nothing. What an open breaker adds at the one before it comes later.
THEOREM SpecTrippedByTroubles == Spec => []TrippedByTroubles
<1>1. IInv => TrippedByTroubles
  <2> SUFFICES ASSUME IInv, troubles < FailureThreshold PROVE TrippedByTroubles
    BY ThresholdAssumption, TroublesAssumption DEF TrippedByTroubles, IInv, TypeOK
  <2>1. \A n \in Names : Account(n) /\ breaker[n].state = "closed"
    BY AllClosed DEF IInv, Untripped
  <2>2. ASSUME NEW n \in Names PROVE breaker[n].failures <= troubles
    <3>1. Cardinality(Owed(n)) \in Nat
      BY <2>1, FS_CardinalityType DEF Account
    <3>2. breaker[n].failures \in Nat
      BY ThresholdAssumption DEF IInv, TypeOK, BreakerOf
    <3>3. troubles \in Nat
      BY TroublesAssumption DEF IInv, TypeOK
    <3>4. QED
      BY <2>1, <3>1, <3>2, <3>3 DEF Account
  <2>3. QED
    BY <2>1, <2>2 DEF TrippedByTroubles
<1>2. QED
  BY <1>1, SpecInv, PTL
=============================================================================
