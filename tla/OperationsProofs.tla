-------------------------- MODULE OperationsProofs --------------------------
(***************************************************************************)
(* Theorems about how the system is run.                                   *)
(*                                                                         *)
(* Lifecycle, for any requests, any pool of two connections or more and    *)
(* any number of troubles: its types, among them that the pool never lends *)
(* more than it has, and that main takes nothing away from a goroutine     *)
(* that uses it (EveryPartHasItsOthers).                                   *)
(*                                                                         *)
(* Canary, for any weights set by hand and any number of commands that     *)
(* fail: its types, that routed traffic has pods, and what a promotion may *)
(* give a faulty canary. The script and a replica share nothing.           *)
(***************************************************************************)
EXTENDS Lifecycle, Canary, FiniteSetTheorems, SequenceTheorems, TLAPS

----------------------------------------------------------------------------
\* The inductive invariant

\* What is left of main's list s after its first i parts.
Rest(s, i) == [j \in 1..(Len(s) - i) |-> s[i + j]]

TodoOK ==
    /\ phase \in {"down", "serving"} => todo = <<>>
    /\ phase = "starting" => \E i \in 0..Len(MainOf[service]) : todo = Rest(MainOf[service], i)
    /\ phase = "stopping" => \E i \in 0..Len(ShutdownOf[service]) : todo = Rest(ShutdownOf[service], i)

Pending(part) == part \in ToSet(todo)

Core == {"db", "publisher", "relay", "events"}

Runs(c) == consumer[c] \in {"idle", "busy"}

\* A service other than the gateway runs all it has.
Up == service # "gateway" =>
          /\ Core \subseteq open /\ ~quit
          /\ Runs("events") /\ ("redis" \in open => Runs("invalidation"))

\* Who uses what, at any time.
UsesOK ==
    /\ batch => "relay" \in open
    /\ "relay" \in open => {"db", "publisher"} \subseteq open
    /\ \A c \in Consumers : Runs(c) => {c, IF c = "events" THEN "db" ELSE "redis"} \subseteq open
    /\ open \subseteq ToSet(MainOf[service]) \cup {"http"}

\* What is started by now: all but what main's list still has.
StartingOK ==
    /\ service # "gateway" =>
          /\ \A part \in Core : Pending(part) \/ part \in open
          /\ Pending("events") \/ Runs("events")
    /\ "redis" \in open => Pending("invalidation") \/ Runs("invalidation")
    /\ open \cap {"server", "http"} # {} \/ serving # {} => todo = <<>>

\* What is stopped by now: nothing as long as requests may come, and then part by part.
StoppingOK ==
    /\ Pending("http") => Up
    /\ ~Pending("http") => open \cap {"server", "http"} = {} /\ (serving # {} => forced)
    /\ ~Pending("consumers") => \A c \in Consumers : ~Runs(c)
    /\ ~Pending("relay") => "relay" \notin open
    /\ quit => ~Pending("http")

PhaseOK ==
    /\ phase = "down" => open = {} /\ serving = {}
    /\ phase = "starting" => StartingOK
    /\ phase = "serving" => Up
    /\ phase = "stopping" => StoppingOK

IInv == TypeOK /\ TodoOK /\ UsesOK /\ PhaseOK

----------------------------------------------------------------------------
\* main's lists

LEMMA RestFacts ==
    ASSUME NEW T, NEW s \in Seq(T), NEW i \in 0..Len(s)
    PROVE  /\ Rest(s, 0) = s
           /\ Rest(s, i) = <<>> <=> i = Len(s)
           /\ Rest(s, i) # <<>> =>
                 /\ Head(Rest(s, i)) = s[i + 1] /\ i + 1 \in 0..Len(s)
                 /\ Tail(Rest(s, i)) = Rest(s, i + 1)
                 /\ ToSet(Rest(s, i)) = ToSet(Tail(Rest(s, i))) \cup {Head(Rest(s, i))}
           /\ ToSet(Rest(s, i)) = {s[k] : k \in (i + 1)..Len(s)}
<1> DEFINE n == Len(s)
           r == Rest(s, i)
<1>1. n \in Nat /\ i \in Nat /\ i <= n /\ s = [j \in 1..n |-> s[j]] /\ \A k \in 1..n : s[k] \in T
  OBVIOUS
<1>2. r = [j \in 1..(n - i) |-> s[i + j]]
  BY DEF Rest
<1> HIDE DEF n, r
<1>3. r \in Seq(T) /\ Len(r) = n - i /\ \A j \in 1..(n - i) : r[j] = s[i + j]
  <2>1. n - i \in Nat /\ \A j \in 1..(n - i) : s[i + j] \in T
    BY <1>1
  <2>2. r \in [1..(n - i) -> T]
    BY <1>2, <2>1
  <2>3. QED
    BY <1>2, <2>1, <2>2
<1>4. Rest(s, 0) = s
  BY <1>1 DEF Rest, n
<1>5. r = <<>> <=> i = n
  BY <1>1, <1>3
<1>6. ToSet(r) = {s[k] : k \in (i + 1)..n}
  <2>1. ASSUME NEW x \in ToSet(r)
        PROVE  x \in {s[k] : k \in (i + 1)..n}
    <3>1. PICK j \in 1..(n - i) : x = s[i + j]
      BY <1>3 DEF ToSet
    <3>2. i + j \in (i + 1)..n
      BY <1>1, <3>1
    <3>3. QED
      BY <3>1, <3>2
  <2>2. ASSUME NEW k \in (i + 1)..n
        PROVE  s[k] \in ToSet(r)
    <3>1. k - i \in 1..(n - i) /\ i + (k - i) = k
      BY <1>1
    <3>2. r[k - i] = s[k] /\ k - i \in DOMAIN r
      BY <1>3, <3>1
    <3>3. QED
      BY <3>2 DEF ToSet
  <2>3. QED
    BY <2>1, <2>2
<1>7. ASSUME r # <<>>
      PROVE  /\ Head(r) = s[i + 1] /\ i + 1 \in 0..n /\ Tail(r) = Rest(s, i + 1)
             /\ ToSet(r) = ToSet(Tail(r)) \cup {Head(r)}
  <2>1. i < n /\ Head(r) = s[i + 1] /\ i + 1 \in 0..n
    <3>1. i < n
      BY <1>1, <1>5, <1>7
    <3>2. 1 \in 1..(n - i) /\ i + 1 \in 0..n
      BY <1>1, <3>1
    <3>3. r[1] = s[i + 1] /\ Head(r) = r[1]
      BY <1>3, <3>2, HeadTailProperties
    <3>4. QED
      BY <3>1, <3>2, <3>3
  <2>2. Tail(r) = Rest(s, i + 1)
    <3>1. /\ Tail(r) \in Seq(T) /\ Len(Tail(r)) = Len(r) - 1
          /\ \A j \in 1..(Len(r) - 1) : Tail(r)[j] = r[j + 1]
      BY <1>3, <1>7, HeadTailProperties
    <3>2. Len(r) - 1 = n - (i + 1)
      BY <1>1, <1>3
    <3>3. \A j \in 1..(n - (i + 1)) : r[j + 1] = s[(i + 1) + j]
      <4> SUFFICES ASSUME NEW j \in 1..(n - (i + 1)) PROVE r[j + 1] = s[(i + 1) + j]
        OBVIOUS
      <4>1. j + 1 \in 1..(n - i) /\ i + (j + 1) = (i + 1) + j
        BY <1>1
      <4>2. r[j + 1] = s[i + (j + 1)]
        BY <1>3, <4>1
      <4>3. QED
        BY <4>1, <4>2
    <3> DEFINE u == Rest(s, i + 1)
    <3>4. u = [j \in 1..(n - (i + 1)) |-> s[(i + 1) + j]]
      BY DEF Rest, n
    <3>5. n - (i + 1) \in Nat /\ \A j \in 1..(n - (i + 1)) : s[(i + 1) + j] \in T
      BY <1>1, <2>1
    <3> HIDE DEF u
    <3>6. u \in [1..(n - (i + 1)) -> T]
      BY <3>4, <3>5
    <3>7. u \in Seq(T) /\ Len(u) = n - (i + 1) /\ \A j \in 1..(n - (i + 1)) : u[j] = s[(i + 1) + j]
      BY <3>4, <3>5, <3>6, SMTT(30)
    <3>8. Tail(r) = u
      BY <3>1, <3>2, <3>3, <3>7, SeqEqual
    <3>9. QED
      BY <3>8 DEF u
  <2>3. Tail(r) \in Seq(T) /\ Len(Tail(r)) = Len(r) - 1 /\ \A j \in 1..(Len(r) - 1) : Tail(r)[j] = r[j + 1]
    BY <1>3, <1>7
  <2>4. ToSet(r) = ToSet(Tail(r)) \cup {Head(r)}
    <3>1. ASSUME NEW x \in ToSet(r) PROVE x \in ToSet(Tail(r)) \cup {Head(r)}
      <4>1. PICK j \in 1..(n - i) : x = r[j]
        BY <1>3 DEF ToSet
      <4>2. CASE j = 1
        BY <1>3, <1>7, <4>1, <4>2
      <4>3. CASE j # 1
        <5>1. j - 1 \in 1..(Len(r) - 1) /\ (j - 1) + 1 = j
          BY <1>1, <1>3, <4>3
        <5>2. Tail(r)[j - 1] = x /\ j - 1 \in DOMAIN Tail(r)
          BY <2>3, <4>1, <5>1
        <5>3. QED
          BY <5>2 DEF ToSet
      <4>4. QED
        BY <4>2, <4>3
    <3>2. ASSUME NEW x \in ToSet(Tail(r)) PROVE x \in ToSet(r)
      <4>1. PICK j \in 1..(Len(r) - 1) : x = Tail(r)[j]
        BY <2>3 DEF ToSet
      <4>2. j + 1 \in DOMAIN r /\ x = r[j + 1]
        BY <1>1, <1>3, <2>3, <4>1
      <4>3. QED
        BY <4>2 DEF ToSet
    <3>3. Head(r) \in ToSet(r)
      <4>1. 1 \in DOMAIN r /\ Head(r) = r[1]
        BY <1>1, <1>3, <2>1
      <4>2. QED
        BY <4>1 DEF ToSet
    <3>4. QED
      BY <3>1, <3>2, <3>3
  <2>5. QED
    BY <2>1, <2>2, <2>4
<1>8. QED
  BY <1>4, <1>5, <1>6, <1>7 DEF r, n

\* Everything a list names comes once.
LEMMA MainLists ==
    /\ OrderMain \in Seq(Parts) /\ Len(OrderMain) = 8
    /\ PaymentMain \in Seq(Parts) /\ Len(PaymentMain) = 6
    /\ GatewayMain \in Seq(Parts) /\ Len(GatewayMain) = 3
  BY DEF OrderMain, PaymentMain, GatewayMain, Parts, Consumers

LEMMA ShutdownLists ==
    /\ OrderShutdown \in Seq(Parts \cup {"consumers"}) /\ Len(OrderShutdown) = 8
    /\ PaymentShutdown \in Seq(Parts \cup {"consumers"}) /\ Len(PaymentShutdown) = 6
    /\ GatewayShutdown \in Seq(Parts \cup {"consumers"}) /\ Len(GatewayShutdown) = 2
  BY DEF OrderShutdown, PaymentShutdown, GatewayShutdown, Parts, Consumers

Starts == {OrderMain, PaymentMain, GatewayMain}
Stops == {OrderShutdown, PaymentShutdown, GatewayShutdown}

\* Of a list's rest and of what follows its first part.
LEMMA RestSets ==
    ASSUME NEW T, NEW s \in Seq(T), NEW i \in 0..Len(s), NEW t, t = Rest(s, i), t # <<>>
    PROVE  /\ Head(t) = s[i + 1] /\ i + 1 \in 1..Len(s)
           /\ Tail(t) = <<>> <=> i + 1 = Len(s)
           /\ ToSet(t) = {s[k] : k \in (i + 1)..Len(s)}
           /\ ToSet(Tail(t)) = {s[k] : k \in (i + 2)..Len(s)}
           /\ ToSet(s) = {s[k] : k \in 1..Len(s)}
<1>1. /\ Head(t) = s[i + 1] /\ i + 1 \in 0..Len(s) /\ Tail(t) = Rest(s, i + 1)
      /\ ToSet(t) = {s[k] : k \in (i + 1)..Len(s)}
  BY RestFacts
<1> DEFINE u == Rest(s, i + 1)
<1>2. (u = <<>> <=> i + 1 = Len(s)) /\ ToSet(u) = {s[k] : k \in ((i + 1) + 1)..Len(s)}
  BY <1>1, RestFacts
<1>3. (i + 1) + 1 = i + 2 /\ i + 1 \in 1..Len(s)
  BY <1>1
<1>4. ToSet(s) = {s[k] : k \in 1..Len(s)}
  BY DEF ToSet
<1> HIDE DEF u
<1>5. Tail(t) = u
  BY <1>1 DEF u
<1>6. QED
  BY <1>1, <1>2, <1>3, <1>4, <1>5

\* The order in which things are started.
LEMMA StartOrder ==
    ASSUME NEW s \in Starts, NEW i \in 0..Len(s), NEW t, t = Rest(s, i), t # <<>>
    PROVE  /\ Head(t) = "relay" => "db" \notin ToSet(t) /\ "publisher" \notin ToSet(t)
           /\ Head(t) = "events" => "db" \notin ToSet(t)
           /\ Head(t) = "server" => Tail(t) = <<>>
           /\ Head(t) = "redis" => "invalidation" \in ToSet(Tail(t))
           /\ Head(t) \in ToSet(s)
<1>1. s \in Seq(Parts) /\ Len(s) \in Nat
  BY MainLists DEF Starts
<1>2. /\ Head(t) = s[i + 1] /\ i + 1 \in 1..Len(s)
      /\ Tail(t) = <<>> <=> i + 1 = Len(s)
      /\ ToSet(t) = {s[k] : k \in (i + 1)..Len(s)}
      /\ ToSet(Tail(t)) = {s[k] : k \in (i + 2)..Len(s)}
      /\ ToSet(s) = {s[k] : k \in 1..Len(s)}
  BY <1>1, RestSets
<1>3. /\ \A k \in 1..Len(s) : /\ s[k] = "db" => k = 1
                              /\ s[k] \in {"relay", "events"} => k > 1
                              /\ s[k] = "server" => k = Len(s)
      /\ \A k, l \in 1..Len(s) : s[k] = "publisher" /\ s[l] = "relay" => k < l
      /\ \A k \in 1..Len(s) : s[k] = "redis" => \E l \in (k + 1)..Len(s) : s[l] = "invalidation"
  <2>1. CASE s = OrderMain
    <3>1. Len(s) = 8
      BY <2>1, MainLists
    <3>2. /\ s[1] = "db" /\ s[2] = "redis" /\ s[3] = "publisher" /\ s[4] = "relay" /\ s[5] = "events"
          /\ s[6] = "invalidation" /\ s[7] = "signals" /\ s[8] = "server"
      BY <2>1 DEF OrderMain
    <3>3. \A k \in 1..8 : k \in {1, 2, 3, 4, 5, 6, 7, 8}
      OBVIOUS
    <3>4. \A k \in 1..8 : /\ s[k] = "db" => k = 1
                          /\ s[k] \in {"relay", "events"} => k > 1
                          /\ s[k] = "server" => k = 8
                          /\ s[k] = "publisher" => k = 3
                          /\ s[k] = "relay" => k = 4
                          /\ s[k] = "redis" => k = 2
      BY <3>2, <3>3
    <3>5. 6 \in (2 + 1)..8
      OBVIOUS
    <3>6. QED
      BY <3>1, <3>2, <3>4, <3>5
  <2>2. CASE s = PaymentMain
    <3>1. Len(s) = 6
      BY <2>2, MainLists
    <3>2. /\ s[1] = "db" /\ s[2] = "publisher" /\ s[3] = "relay" /\ s[4] = "events"
          /\ s[5] = "signals" /\ s[6] = "server"
      BY <2>2 DEF PaymentMain
    <3>3. \A k \in 1..6 : k \in {1, 2, 3, 4, 5, 6}
      OBVIOUS
    <3>4. \A k \in 1..6 : /\ s[k] = "db" => k = 1
                          /\ s[k] \in {"relay", "events"} => k > 1
                          /\ s[k] = "server" => k = 6
                          /\ s[k] = "publisher" => k = 2
                          /\ s[k] = "relay" => k = 3
                          /\ s[k] # "redis"
      BY <3>2, <3>3
    <3>5. QED
      BY <3>1, <3>4
  <2>3. CASE s = GatewayMain
    <3>1. Len(s) = 3
      BY <2>3, MainLists
    <3>2. s[1] = "limiter" /\ s[2] = "signals" /\ s[3] = "server"
      BY <2>3 DEF GatewayMain
    <3>3. \A k \in 1..3 : k \in {1, 2, 3}
      OBVIOUS
    <3>4. \A k \in 1..3 : /\ s[k] \notin {"db", "events", "publisher", "relay", "redis"}
                          /\ s[k] = "server" => k = 3
      BY <3>2, <3>3
    <3>5. QED
      BY <3>1, <3>4
  <2>4. QED
    BY <2>1, <2>2, <2>3 DEF Starts
<1>4. ASSUME NEW x \in ToSet(t)
      PROVE  \E k \in 1..Len(s) : k >= i + 1 /\ s[k] = x
  BY <1>1, <1>2
<1>5. ASSUME Head(t) = "relay"
      PROVE  "db" \notin ToSet(t) /\ "publisher" \notin ToSet(t)
  <2>1. i + 1 > 1
    BY <1>1, <1>2, <1>3, <1>5
  <2>2. QED
    BY <1>2, <1>3, <1>4, <1>5, <2>1
<1>6. Head(t) = "events" => "db" \notin ToSet(t)
  BY <1>2, <1>3, <1>4
<1>7. Head(t) = "server" => Tail(t) = <<>>
  BY <1>2, <1>3
<1>8. Head(t) = "redis" => "invalidation" \in ToSet(Tail(t))
  BY <1>2, <1>3
<1>9. Head(t) \in ToSet(s)
  BY <1>2
<1>10. QED
  BY <1>5, <1>6, <1>7, <1>8, <1>9

\* The order in which things are stopped.
LEMMA StopOrder ==
    ASSUME NEW s \in Stops, NEW i \in 0..Len(s), NEW t, t = Rest(s, i), t # <<>>
    PROVE  /\ "http" \in ToSet(Tail(t)) => s = GatewayShutdown
           /\ Head(t) \in {"events", "invalidation", "redis", "db"} => "consumers" \notin ToSet(t)
           /\ Head(t) \in {"publisher", "db"} => "relay" \notin ToSet(t)
           /\ Head(t) = "relay" => "http" \notin ToSet(t)
<1>1. s \in Seq(Parts \cup {"consumers"}) /\ Len(s) \in Nat
  BY ShutdownLists DEF Stops
<1>2. /\ Head(t) = s[i + 1] /\ i + 1 \in 1..Len(s)
      /\ ToSet(t) = {s[k] : k \in (i + 1)..Len(s)}
      /\ ToSet(Tail(t)) = {s[k] : k \in (i + 2)..Len(s)}
  BY <1>1, RestSets
<1>3. /\ \A k \in 1..Len(s) : s[k] = "http" => k = 1 \/ s = GatewayShutdown
      /\ \A k \in 1..Len(s) : s[k] = "relay" => s # GatewayShutdown /\ k > 1
      /\ \A k, l \in 1..Len(s) : /\ s[k] = "consumers" /\ s[l] \in {"events", "invalidation", "redis", "db"} => k < l
                                 /\ s[k] = "relay" /\ s[l] \in {"publisher", "db"} => k < l
  <2>1. CASE s = OrderShutdown
    <3>1. Len(s) = 8
      BY <2>1, ShutdownLists
    <3>2. /\ s[1] = "http" /\ s[2] = "consumers" /\ s[3] = "events" /\ s[4] = "invalidation"
          /\ s[5] = "relay" /\ s[6] = "publisher" /\ s[7] = "redis" /\ s[8] = "db"
      BY <2>1 DEF OrderShutdown
    <3>3. \A k \in 1..8 : k \in {1, 2, 3, 4, 5, 6, 7, 8}
      OBVIOUS
    <3>4. \A k \in 1..8 : /\ s[k] = "http" => k = 1
                          /\ s[k] = "consumers" => k = 2
                          /\ s[k] \in {"events", "invalidation", "redis", "db"} => k > 2
                          /\ s[k] = "relay" => k = 5
                          /\ s[k] \in {"publisher", "db"} => k > 5
      BY <3>2, <3>3
    <3>5. s # GatewayShutdown
      BY <3>2 DEF GatewayShutdown
    <3>6. QED
      BY <3>1, <3>4, <3>5
  <2>2. CASE s = PaymentShutdown
    <3>1. Len(s) = 6
      BY <2>2, ShutdownLists
    <3>2. /\ s[1] = "http" /\ s[2] = "consumers" /\ s[3] = "events"
          /\ s[4] = "relay" /\ s[5] = "publisher" /\ s[6] = "db"
      BY <2>2 DEF PaymentShutdown
    <3>3. \A k \in 1..6 : k \in {1, 2, 3, 4, 5, 6}
      OBVIOUS
    <3>4. \A k \in 1..6 : /\ s[k] = "http" => k = 1
                          /\ s[k] = "consumers" => k = 2
                          /\ s[k] \in {"events", "invalidation", "redis", "db"} => k > 2
                          /\ s[k] = "relay" => k = 4
                          /\ s[k] \in {"publisher", "db"} => k > 4
      BY <3>2, <3>3
    <3>5. s # GatewayShutdown
      BY <3>2 DEF GatewayShutdown
    <3>6. QED
      BY <3>1, <3>4, <3>5
  <2>3. CASE s = GatewayShutdown
    <3>1. Len(s) = 2
      BY <2>3, ShutdownLists
    <3>2. s[1] = "limiter" /\ s[2] = "http"
      BY <2>3 DEF GatewayShutdown
    <3>3. \A k \in 1..2 : s[k] \in {"limiter", "http"}
      <4>1. \A k \in 1..2 : k \in {1, 2}
        OBVIOUS
      <4>2. QED
        BY <3>2, <4>1
    <3>4. QED
      BY <2>3, <3>1, <3>3
  <2>4. QED
    BY <2>1, <2>2, <2>3 DEF Stops
<1>4. ASSUME NEW x \in ToSet(t)
      PROVE  \E k \in 1..Len(s) : k >= i + 1 /\ s[k] = x
  BY <1>1, <1>2
<1>5. "http" \in ToSet(Tail(t)) => s = GatewayShutdown
  BY <1>1, <1>2, <1>3
<1>6. Head(t) \in {"events", "invalidation", "redis", "db"} => "consumers" \notin ToSet(t)
  BY <1>2, <1>3, <1>4
<1>7. Head(t) \in {"publisher", "db"} => "relay" \notin ToSet(t)
  BY <1>2, <1>3, <1>4
<1>8. Head(t) = "relay" => "http" \notin ToSet(t)
  BY <1>2, <1>3, <1>4
<1>9. QED
  BY <1>5, <1>6, <1>7, <1>8

----------------------------------------------------------------------------
\* The pool

LEMMA OutIsFinite ==
    /\ IsFiniteSet(Workers \X {1, 2})
    /\ IsFiniteSet(Out) /\ Cardinality(Out) \in Nat
<1>1. IsFiniteSet({"events"} \cup {"relay"}) /\ IsFiniteSet({1} \cup {2})
  BY FS_Singleton, FS_AddElement
<1>2. Workers = Requests \cup ({"events"} \cup {"relay"}) /\ {1, 2} = {1} \cup {2}
  BY DEF Workers
<1>3. IsFiniteSet(Requests \cup ({"events"} \cup {"relay"}))
  BY <1>1, RequestsAssumption, FS_Union
<1>4. IsFiniteSet(Workers) /\ IsFiniteSet({1, 2})
  BY <1>1, <1>2, <1>3, Zenon
<1>5. IsFiniteSet(Workers \X {1, 2})
  BY <1>4, FS_Product
<1>6. Out \in SUBSET (Workers \X {1, 2})
  BY DEF Out
<1>7. QED
  BY <1>5, <1>6, FS_Subset, FS_CardinalityType

Lends == held \in [Workers -> 0..2] /\ Pool \in 0..PoolSize

LEMMA GivesBackKeeps ==
    ASSUME Lends, NEW g, GivesBack(g)
    PROVE  Lends'
<1>1. held' \in [Workers -> 0..2] /\ \A w \in Workers : held'[w] <= held[w]
  <2>1. held \in [Workers -> 0..2] /\ held' = [held EXCEPT ![g] = 0]
    BY DEF Lends, GivesBack
  <2>2. 0 \in 0..2
    OBVIOUS
  <2>3. held' \in [Workers -> 0..2] /\ \A w \in Workers : held'[w] = 0 \/ held'[w] = held[w]
    BY <2>1, <2>2
  <2>4. \A w \in Workers : held[w] \in 0..2
    BY <2>1
  <2>5. QED
    BY <2>3, <2>4
<1>2. Out' \in SUBSET Out
  <2> SUFFICES ASSUME NEW w \in Workers, NEW k \in {1, 2}, k <= held'[w]
               PROVE  k <= held[w]
    BY DEF Out
  <2>1. held'[w] \in 0..2 /\ held[w] \in 0..2 /\ held'[w] <= held[w]
    BY <1>1 DEF Lends
  <2>2. QED
    BY <2>1
<1>3. Cardinality(Out') <= Cardinality(Out) /\ Cardinality(Out') \in Nat /\ Cardinality(Out) \in Nat
  BY <1>2, OutIsFinite, FS_Subset, FS_CardinalityType
<1>4. Pool = PoolSize - Cardinality(Out) /\ Pool' = PoolSize - Cardinality(Out')
  BY DEF Pool
<1>5. Pool' \in 0..PoolSize
  <2> DEFINE m == Cardinality(Out)
             n == Cardinality(Out')
  <2> HIDE DEF m, n
  <2>1. m \in Nat /\ n \in Nat /\ n <= m /\ PoolSize - m >= 0 /\ Pool' = PoolSize - n /\ PoolSize \in Nat
    BY <1>3, <1>4, PoolAssumption DEF m, n, Lends
  <2>2. QED
    BY <2>1
<1>6. QED
  BY <1>1, <1>5 DEF Lends

LEMMA ConnectKeeps ==
    ASSUME Lends, NEW g \in Workers, held[g] < Needs(g), Pool > 0, held' = [held EXCEPT ![g] = held[g] + 1]
    PROVE  Lends'
<1>1. Needs(g) <= 2 /\ Needs(g) \in Nat
  BY DEF Needs
<1>2. held[g] \in {0, 1} /\ held' \in [Workers -> 0..2]
      /\ \A w \in Workers : held'[w] = IF w = g THEN held[g] + 1 ELSE held[w]
  BY <1>1 DEF Lends
<1>3. Out' = Out \cup {<<g, held[g] + 1>>}
  <2>1. Out' = {k \in Workers \X {1, 2} : k[2] <= held'[k[1]]}
    BY DEF Out, Workers
  <2>2. ASSUME NEW w \in Workers, NEW k \in {1, 2}
        PROVE  k <= held'[w] <=> k <= held[w] \/ (w = g /\ k = held[g] + 1)
    <3>1. held[w] \in {0, 1, 2}
      BY DEF Lends
    <3>2. QED
      BY <1>2, <3>1
  <2>3. <<g, held[g] + 1>> \in Workers \X {1, 2}
    BY <1>2
  <2>4. QED
    BY <2>1, <2>2, <2>3 DEF Out
<1>4. Cardinality(Out') \in Nat /\ Cardinality(Out') <= Cardinality(Out) + 1 /\ Cardinality(Out) \in Nat
  <2> DEFINE T == Out \cup {<<g, held[g] + 1>>}
  <2>1. IsFiniteSet(Out) /\ Cardinality(Out) \in Nat
    BY OutIsFinite
  <2>2. Cardinality(T) = Cardinality(Out) \/ Cardinality(T) = Cardinality(Out) + 1
    BY <2>1, FS_AddElement
  <2>3. Cardinality(T) \in Nat /\ Cardinality(T) <= Cardinality(Out) + 1
    BY <2>1, <2>2
  <2>4. QED
    BY <1>3, <2>1, <2>3
<1>5. Pool' \in 0..PoolSize
  <2> DEFINE m == Cardinality(Out)
             n == Cardinality(Out')
  <2> HIDE DEF m, n
  <2>1. /\ m \in Nat /\ n \in Nat /\ n <= m + 1 /\ PoolSize \in Nat
        /\ PoolSize - m > 0 /\ Pool' = PoolSize - n
    BY <1>4, PoolAssumption DEF m, n, Pool
  <2>2. QED
    BY <2>1
<1>6. QED
  BY <1>2, <1>5 DEF Lends

----------------------------------------------------------------------------
\* Steps of main

LEMMA Services ==
    ASSUME TypeOK
    PROVE  /\ service \in {"order", "inventory", "payment", "gateway"}
           /\ MainOf[service] \in Starts /\ MainOf[service] \in Seq(Parts \cup {"consumers"})
           /\ ShutdownOf[service] \in Stops /\ ShutdownOf[service] \in Seq(Parts \cup {"consumers"})
           /\ ShutdownOf[service] = GatewayShutdown => service = "gateway"
           /\ service = "gateway" => ToSet(MainOf[service]) = {"limiter", "signals", "server"}
           /\ service # "gateway" => Core \subseteq ToSet(MainOf[service])
           /\ "http" \in ToSet(ShutdownOf[service])
           /\ service # "gateway" => {"consumers", "relay"} \subseteq ToSet(ShutdownOf[service])
<1>1. service \in {"order", "inventory", "payment", "gateway"}
  BY DEF TypeOK, MainOf
<1>2. /\ MainOf["order"] = OrderMain /\ MainOf["inventory"] = OrderMain
      /\ MainOf["payment"] = PaymentMain /\ MainOf["gateway"] = GatewayMain
  BY DEF MainOf, InventoryMain
<1>3. /\ ShutdownOf["order"] = OrderShutdown /\ ShutdownOf["inventory"] = OrderShutdown
      /\ ShutdownOf["payment"] = PaymentShutdown /\ ShutdownOf["gateway"] = GatewayShutdown
  BY DEF ShutdownOf, InventoryShutdown
<1>4. OrderShutdown[1] # GatewayShutdown[1] /\ PaymentShutdown[1] # GatewayShutdown[1]
  BY DEF OrderShutdown, PaymentShutdown, GatewayShutdown
<1>5. MainOf[service] \in Starts /\ ShutdownOf[service] \in Stops
  BY <1>1, <1>2, <1>3 DEF Starts, Stops
<1>6. ShutdownOf[service] = GatewayShutdown => service = "gateway"
  BY <1>1, <1>3, <1>4
<1>7. /\ MainOf[service] \in Seq(Parts \cup {"consumers"})
      /\ ShutdownOf[service] \in Seq(Parts \cup {"consumers"})
  <2>1. \A s \in Seq(Parts) : s \in Seq(Parts \cup {"consumers"})
    OBVIOUS
  <2>2. QED
    BY <1>5, <2>1, MainLists, ShutdownLists DEF Starts, Stops
<1>8. ToSet(GatewayMain) = {"limiter", "signals", "server"}
  <2>1. ToSet(GatewayMain) = {GatewayMain[k] : k \in 1..3}
    BY MainLists DEF ToSet
  <2>2. GatewayMain[1] = "limiter" /\ GatewayMain[2] = "signals" /\ GatewayMain[3] = "server"
    BY DEF GatewayMain
  <2>3. 1..3 = {1, 2, 3}
    OBVIOUS
  <2>4. QED
    BY <2>1, <2>2, <2>3
<1>9. Core \subseteq ToSet(OrderMain) /\ Core \subseteq ToSet(PaymentMain)
  <2>1. /\ OrderMain[1] = "db" /\ OrderMain[3] = "publisher" /\ OrderMain[4] = "relay" /\ OrderMain[5] = "events"
        /\ PaymentMain[1] = "db" /\ PaymentMain[2] = "publisher" /\ PaymentMain[3] = "relay"
        /\ PaymentMain[4] = "events"
    BY DEF OrderMain, PaymentMain
  <2>2. 1..8 = DOMAIN OrderMain /\ 1..6 = DOMAIN PaymentMain
    BY MainLists
  <2>3. {1, 2, 3, 4, 5} \subseteq 1..8 /\ {1, 2, 3, 4} \subseteq 1..6
    OBVIOUS
  <2>4. QED
    BY <2>1, <2>2, <2>3 DEF Core, ToSet
<1>10. /\ service = "gateway" => ToSet(MainOf[service]) = {"limiter", "signals", "server"}
       /\ service # "gateway" => Core \subseteq ToSet(MainOf[service])
  BY <1>1, <1>2, <1>8, <1>9
<1>11. /\ {"http", "consumers", "relay"} \subseteq ToSet(OrderShutdown)
       /\ {"http", "consumers", "relay"} \subseteq ToSet(PaymentShutdown)
       /\ "http" \in ToSet(GatewayShutdown)
  <2>1. /\ OrderShutdown[1] = "http" /\ OrderShutdown[2] = "consumers" /\ OrderShutdown[5] = "relay"
        /\ PaymentShutdown[1] = "http" /\ PaymentShutdown[2] = "consumers" /\ PaymentShutdown[4] = "relay"
        /\ GatewayShutdown[2] = "http"
    BY DEF OrderShutdown, PaymentShutdown, GatewayShutdown
  <2>2. 1..8 = DOMAIN OrderShutdown /\ 1..6 = DOMAIN PaymentShutdown /\ 1..2 = DOMAIN GatewayShutdown
    BY ShutdownLists
  <2>3. {1, 2, 5} \subseteq 1..8 /\ {1, 2, 4} \subseteq 1..6 /\ 2 \in 1..2
    OBVIOUS
  <2>4. QED
    BY <2>1, <2>2, <2>3 DEF ToSet
<1>12. /\ "http" \in ToSet(ShutdownOf[service])
       /\ service # "gateway" => {"consumers", "relay"} \subseteq ToSet(ShutdownOf[service])
  BY <1>1, <1>3, <1>11
<1>13. QED
  BY <1>1, <1>5, <1>6, <1>7, <1>10, <1>12

\* main goes on to the next part, when it starts
LEMMA NextStart ==
    ASSUME TypeOK, TodoOK, phase = "starting", todo # <<>>, todo' = Tail(todo), UNCHANGED <<service, phase>>
    PROVE  /\ TodoOK' /\ ToSet(todo') \subseteq Parts \cup {"consumers"}
           /\ \A part : Pending(part) <=> Pending(part)' \/ part = Head(todo)
           /\ Head(todo) = "relay" => ~Pending("db") /\ ~Pending("publisher")
           /\ Head(todo) = "events" => ~Pending("db")
           /\ Head(todo) = "server" => todo' = <<>>
           /\ Head(todo) = "redis" => Pending("invalidation")'
           /\ Head(todo) \in ToSet(MainOf[service])
<1>1. PICK i \in 0..Len(MainOf[service]) : todo = Rest(MainOf[service], i)
  BY DEF TodoOK
<1> DEFINE s == MainOf[service]
<1>2. s \in Starts /\ s \in Seq(Parts \cup {"consumers"})
  BY Services
<1>3. MainOf[service]' = s
  OBVIOUS
<1> HIDE DEF s
<1>4. i \in 0..Len(s) /\ todo = Rest(s, i)
  BY <1>1 DEF s
<1>5. i + 1 \in 0..Len(s) /\ todo' = Rest(s, i + 1) /\ ToSet(todo) = ToSet(todo') \cup {Head(todo)}
  <2>1. /\ i + 1 \in 0..Len(s) /\ Tail(Rest(s, i)) = Rest(s, i + 1)
        /\ ToSet(Rest(s, i)) = ToSet(Tail(Rest(s, i))) \cup {Head(Rest(s, i))}
    <3> DEFINE T == Parts \cup {"consumers"}
    <3>1. s \in Seq(T) /\ i \in 0..Len(s) /\ Rest(s, i) # <<>>
      BY <1>2, <1>4
    <3> HIDE DEF T
    <3>2. QED
      BY <3>1, RestFacts
  <2>2. QED
    BY <1>4, <2>1
<1>6. TodoOK'
  BY <1>3, <1>5 DEF TodoOK
<1>7. ToSet(todo') \subseteq Parts \cup {"consumers"}
  BY <1>5 DEF TypeOK
<1>8. \A part : Pending(part) <=> Pending(part)' \/ part = Head(todo)
  BY <1>5 DEF Pending
<1>9. /\ Head(todo) = "relay" => "db" \notin ToSet(todo) /\ "publisher" \notin ToSet(todo)
      /\ Head(todo) = "events" => "db" \notin ToSet(todo)
      /\ Head(todo) = "server" => Tail(todo) = <<>>
      /\ Head(todo) = "redis" => "invalidation" \in ToSet(Tail(todo))
      /\ Head(todo) \in ToSet(s)
  BY <1>2, <1>4, StartOrder
<1>10. QED
  BY <1>6, <1>7, <1>8, <1>9 DEF Pending, s

\* and when it stops.
LEMMA NextStop ==
    ASSUME TypeOK, TodoOK, phase = "stopping", todo # <<>>, todo' = Tail(todo), UNCHANGED <<service, phase>>
    PROVE  /\ TodoOK' /\ ToSet(todo') \subseteq Parts \cup {"consumers"}
           /\ \A part : Pending(part) <=> Pending(part)' \/ part = Head(todo)
           /\ Pending("http")' => service = "gateway"
           /\ Head(todo) \in {"events", "invalidation", "redis", "db"} => ~Pending("consumers")
           /\ Head(todo) \in {"publisher", "db"} => ~Pending("relay")
<1>1. PICK i \in 0..Len(ShutdownOf[service]) : todo = Rest(ShutdownOf[service], i)
  BY DEF TodoOK
<1> DEFINE s == ShutdownOf[service]
<1>2. s \in Stops /\ s \in Seq(Parts \cup {"consumers"}) /\ (s = GatewayShutdown => service = "gateway")
  BY Services
<1>3. ShutdownOf[service]' = s
  OBVIOUS
<1> HIDE DEF s
<1>4. i \in 0..Len(s) /\ todo = Rest(s, i)
  BY <1>1 DEF s
<1>5. i + 1 \in 0..Len(s) /\ todo' = Rest(s, i + 1) /\ ToSet(todo) = ToSet(todo') \cup {Head(todo)}
  <2>1. /\ i + 1 \in 0..Len(s) /\ Tail(Rest(s, i)) = Rest(s, i + 1)
        /\ ToSet(Rest(s, i)) = ToSet(Tail(Rest(s, i))) \cup {Head(Rest(s, i))}
    <3> DEFINE T == Parts \cup {"consumers"}
    <3>1. s \in Seq(T) /\ i \in 0..Len(s) /\ Rest(s, i) # <<>>
      BY <1>2, <1>4
    <3> HIDE DEF T
    <3>2. QED
      BY <3>1, RestFacts
  <2>2. QED
    BY <1>4, <2>1
<1>6. TodoOK'
  BY <1>3, <1>5 DEF TodoOK
<1>7. ToSet(todo') \subseteq Parts \cup {"consumers"}
  BY <1>5 DEF TypeOK
<1>8. \A part : Pending(part) <=> Pending(part)' \/ part = Head(todo)
  BY <1>5 DEF Pending
<1>9. /\ "http" \in ToSet(Tail(todo)) => s = GatewayShutdown
      /\ Head(todo) \in {"events", "invalidation", "redis", "db"} => "consumers" \notin ToSet(todo)
      /\ Head(todo) \in {"publisher", "db"} => "relay" \notin ToSet(todo)
  BY <1>2, <1>4, StopOrder
<1>10. QED
  BY <1>2, <1>6, <1>7, <1>8, <1>9 DEF Pending

\* The relay's stop comes after the listener's.
LEMMA RelayStops ==
    ASSUME TypeOK, TodoOK, Stopping("relay")
    PROVE  ~Pending("http")
<1>1. PICK i \in 0..Len(ShutdownOf[service]) : todo = Rest(ShutdownOf[service], i)
  BY DEF TodoOK, Stopping
<1>2. todo # <<>> /\ Head(todo) = "relay"
  BY DEF Stopping
<1>3. QED
  BY <1>1, <1>2, Services, StopOrder DEF Pending

LEMMA NothingPending ==
    ASSUME todo = <<>>
    PROVE  \A part : ~Pending(part)
  BY DEF Pending, ToSet

LEMMA InvExit ==
    ASSUME IInv, Exit, troubles' \in 0..MaxTroubles
    PROVE  IInv'
<1>1. TypeOK
  BY DEF IInv
<1>2. /\ phase' = "down" /\ todo' = <<>> /\ open' = {} /\ serving' = {} /\ batch' = FALSE
      /\ consumer' = [c \in Consumers |-> "off"] /\ held' = [g \in Workers |-> 0]
      /\ quit' = FALSE /\ done' = 0 /\ forced' = FALSE /\ service' = service /\ outages' = outages
  BY DEF Exit
<1>3. Lends'
  <2>1. Out' = {}
    BY <1>2 DEF Out
  <2>2. Cardinality(Out') = 0
    BY <2>1, FS_EmptySet, Zenon
  <2>3. Pool' = PoolSize - 0
    <3>1. Pool' = PoolSize - Cardinality(Out')
      BY DEF Pool
    <3>2. QED
      BY <2>2, <3>1, Zenon
  <2>4. Pool' \in 0..PoolSize
    BY <2>3, PoolAssumption
  <2>5. held' \in [Workers -> 0..2]
    BY <1>2
  <2>6. QED
    BY <2>4, <2>5 DEF Lends
<1>4. ToSet(todo') = {}
  BY <1>2 DEF ToSet
<1>5. TypeOK'
  <2>1. service' \in DOMAIN MainOf /\ outages' \subseteq Dependencies
    BY <1>1, <1>2 DEF TypeOK
  <2>2. consumer' \in [Consumers -> {"off", "idle", "busy", "cancelled"}]
    BY <1>2
  <2>3. quit' \in BOOLEAN /\ forced' \in BOOLEAN /\ batch' \in BOOLEAN /\ ~ (quit' \/ forced')
    BY <1>2, Zenon
  <2>4. done' \in 0..1
    <3>1. done' = 0
      BY <1>2
    <3>2. QED
      BY <3>1
  <2>5. QED
    BY <1>2, <1>3, <1>4, <2>1, <2>2, <2>3, <2>4 DEF TypeOK, Lends
<1>6. TodoOK'
  BY <1>2 DEF TodoOK
<1>7. UsesOK'
  BY <1>2 DEF UsesOK, Runs
<1>8. PhaseOK'
  BY <1>2 DEF PhaseOK
<1>9. QED
  BY <1>5, <1>6, <1>7, <1>8 DEF IInv

\* A part is started, or main does without it.
LEMMA StartingStep ==
    ASSUME IInv, NEW part \in Parts \ {"http"}, Starting(part), NEW started \in BOOLEAN,
           open' = (IF started THEN open \cup {part} ELSE open),
           started \/ part \notin Core,
           consumer' = (IF part \in Consumers /\ started
                        THEN [consumer EXCEPT ![part] = "idle"] ELSE consumer),
           part = "invalidation" => (started <=> "redis" \in open)
    PROVE  IInv'
<1>1. TypeOK /\ TodoOK /\ UsesOK /\ PhaseOK
  BY DEF IInv
<1>2. /\ phase = "starting" /\ todo # <<>> /\ Head(todo) = part /\ todo' = Tail(todo)
      /\ UNCHANGED <<service, phase>> /\ UNCHANGED <<quit, done, forced>>
      /\ UNCHANGED <<serving, batch, held, outages, troubles>>
  BY DEF Starting, flagVars
<1>3. /\ TodoOK' /\ ToSet(todo') \subseteq Parts \cup {"consumers"}
      /\ \A p : Pending(p) <=> Pending(p)' \/ p = part
      /\ part = "relay" => ~Pending("db") /\ ~Pending("publisher")
      /\ part = "events" => ~Pending("db")
      /\ part = "server" => todo' = <<>>
      /\ part = "redis" => Pending("invalidation")'
      /\ part \in ToSet(MainOf[service])
  BY <1>1, <1>2, NextStart
<1>4. StartingOK
  BY <1>1, <1>2 DEF PhaseOK
<1>5. part \in Core \cup {"redis", "invalidation"} => service # "gateway"
  BY <1>1, <1>3, Services DEF Core
<1>6. TypeOK'
  <2>1. consumer' \in [Consumers -> {"off", "idle", "busy", "cancelled"}]
    BY <1>1 DEF TypeOK
  <2>2. Pool' = Pool
    BY <1>2 DEF Pool, Out
  <2>3. QED
    BY <1>1, <1>2, <1>3, <2>1, <2>2 DEF TypeOK
<1>7. \A c \in Consumers : Runs(c)' <=> Runs(c) \/ (c = part /\ started)
  BY <1>1 DEF Runs, TypeOK
<1>8. UsesOK'
  <2>1. "relay" \in open' => {"db", "publisher"} \subseteq open'
    BY <1>1, <1>3, <1>4, <1>5 DEF UsesOK, StartingOK, Core
  <2>2. ASSUME NEW c \in Consumers, Runs(c)'
        PROVE  {c, IF c = "events" THEN "db" ELSE "redis"} \subseteq open'
    <3>1. CASE Runs(c)
      BY <1>1, <2>2, <3>1 DEF UsesOK
    <3>2. CASE c = part /\ started
      BY <1>3, <1>4, <1>5, <2>2, <3>2 DEF Consumers, StartingOK, Core
    <3>3. QED
      BY <1>7, <2>2, <3>1, <3>2
  <2>3. QED
    BY <1>1, <1>2, <1>3, <2>1, <2>2 DEF UsesOK
<1>9. StartingOK'
  <2>1. service' # "gateway" => /\ \A p \in Core : Pending(p)' \/ p \in open'
                                /\ Pending("events")' \/ Runs("events")'
    BY <1>2, <1>3, <1>4, <1>7 DEF StartingOK, Core, Consumers
  <2>2. "redis" \in open' => Pending("invalidation")' \/ Runs("invalidation")'
    BY <1>3, <1>4, <1>7 DEF StartingOK, Consumers
  <2>3. open' \cap {"server", "http"} # {} \/ serving' # {} => todo' = <<>>
    BY <1>2, <1>3, <1>4 DEF StartingOK, Parts, Consumers
  <2>4. QED
    BY <2>1, <2>2, <2>3 DEF StartingOK
<1>10. PhaseOK'
  BY <1>2, <1>9 DEF PhaseOK
<1>11. QED
  BY <1>3, <1>6, <1>8, <1>10 DEF IInv

LEMMA InvStarting ==
    ASSUME IInv, Start \/ NewPostgresConnection \/ NewRedisConnection \/ \E c \in Consumers : StartConsumer(c)
    PROVE  IInv'
<1>1. TypeOK
  BY DEF IInv
<1>2. CASE Start
  <2>1. PICK part \in {"publisher", "relay", "limiter", "signals", "server"} :
            Starting(part) /\ open' = open \cup {part} /\ UNCHANGED consumer
    BY <1>2 DEF Start
  <2>2. part \in Parts \ {"http"} /\ part \notin Consumers
    BY DEF Parts, Consumers
  <2>3. QED
    BY <2>1, <2>2, StartingStep DEF Consumers
<1>3. CASE NewPostgresConnection
  <2>1. CASE "db" \notin outages /\ Starting("db") /\ open' = open \cup {"db"} /\ UNCHANGED consumer
    <3>1. "db" \in Parts \ {"http"} /\ "db" \notin Consumers
      BY DEF Parts, Consumers
    <3>2. QED
      BY <2>1, <3>1, StartingStep
  <2>2. CASE Exit /\ UNCHANGED troubles
    <3>1. troubles' \in 0..MaxTroubles
      BY <1>1, <2>2 DEF TypeOK
    <3>2. QED
      BY <2>2, <3>1, InvExit
  <2>3. QED
    BY <1>3, <2>1, <2>2 DEF NewPostgresConnection
<1>4. CASE NewRedisConnection
  <2> DEFINE started == "redis" \notin outages
  <2>1. /\ Starting("redis") /\ UNCHANGED consumer /\ started \in BOOLEAN
        /\ open' = IF started THEN open \cup {"redis"} ELSE open
    BY <1>4 DEF NewRedisConnection
  <2>2. "redis" \in Parts \ {"http"} /\ "redis" \notin Consumers /\ "redis" \notin Core
    BY DEF Parts, Consumers, Core
  <2> HIDE DEF started
  <2>3. QED
    BY <2>1, <2>2, StartingStep
<1>5. ASSUME NEW c \in Consumers, StartConsumer(c)
      PROVE  IInv'
  <2> DEFINE started == ~ (c = "invalidation" /\ "redis" \notin open)
  <2>1. /\ Starting(c) /\ started \in BOOLEAN
        /\ open' = (IF started THEN open \cup {c} ELSE open)
        /\ consumer' = (IF c \in Consumers /\ started THEN [consumer EXCEPT ![c] = "idle"] ELSE consumer)
    BY <1>5 DEF StartConsumer
  <2>2. /\ c \in Parts \ {"http"} /\ (started \/ c \notin Core)
        /\ c = "invalidation" => (started <=> "redis" \in open)
    BY DEF Parts, Consumers, Core
  <2> HIDE DEF started
  <2>3. QED
    BY <2>1, <2>2, StartingStep
<1>6. QED
  BY <1>2, <1>3, <1>4, <1>5

LEMMA InvBoot ==
    ASSUME IInv, Boot
    PROVE  IInv'
<1>1. TypeOK /\ UsesOK /\ PhaseOK
  BY DEF IInv
<1>2. /\ phase = "down" /\ phase' = "starting" /\ todo' = MainOf[service] /\ service' = service
      /\ UNCHANGED open /\ UNCHANGED <<serving, consumer, batch, held>> /\ UNCHANGED <<quit, done, forced>>
      /\ UNCHANGED <<outages, troubles>>
  BY DEF Boot, workVars, flagVars
<1>3. /\ MainOf[service] \in Seq(Parts \cup {"consumers"})
      /\ service # "gateway" => Core \subseteq ToSet(MainOf[service])
  BY <1>1, Services
<1>4. TodoOK'
  <2> DEFINE s == MainOf[service]
  <2>1. s = Rest(s, 0) /\ 0 \in 0..Len(s)
    BY <1>3, RestFacts
  <2>2. todo' = s /\ MainOf[service]' = s
    BY <1>2
  <2> HIDE DEF s
  <2>3. \E i \in 0..Len(s) : todo' = Rest(s, i)
    BY <2>1, <2>2
  <2>4. QED
    BY <1>2, <2>2, <2>3 DEF TodoOK
<1>5. TypeOK'
  <2>1. ToSet(todo') \subseteq Parts \cup {"consumers"}
    BY <1>2, <1>3 DEF ToSet
  <2>2. Pool' = Pool
    BY <1>2 DEF Pool, Out
  <2>3. QED
    BY <1>1, <1>2, <2>1, <2>2 DEF TypeOK
<1>6. UsesOK'
  BY <1>1, <1>2 DEF UsesOK, Runs
<1>7. open = {} /\ serving = {}
  BY <1>1, <1>2 DEF PhaseOK
<1>8. service' # "gateway" => \A part \in Core : Pending(part)'
  BY <1>2, <1>3 DEF Pending
<1>9. StartingOK'
  BY <1>2, <1>7, <1>8 DEF StartingOK, Core
<1>10. PhaseOK'
  BY <1>2, <1>9 DEF PhaseOK
<1>11. QED
  BY <1>4, <1>5, <1>6, <1>10 DEF IInv

LEMMA InvAwait ==
    ASSUME IInv, Await
    PROVE  IInv'
<1>1. TypeOK /\ TodoOK /\ UsesOK /\ PhaseOK
  BY DEF IInv
<1>2. /\ phase = "starting" /\ todo = <<>> /\ phase' = "serving" /\ UNCHANGED <<service, todo>>
      /\ UNCHANGED open /\ UNCHANGED <<serving, consumer, batch, held>> /\ UNCHANGED <<quit, done, forced>>
      /\ UNCHANGED <<outages, troubles>>
  BY DEF Await, workVars, flagVars
<1>3. TypeOK'
  <2>1. Pool' = Pool
    BY <1>2 DEF Pool, Out
  <2>2. QED
    BY <1>1, <1>2, <2>1 DEF TypeOK
<1>4. TodoOK' /\ UsesOK'
  BY <1>1, <1>2 DEF TodoOK, UsesOK, Runs
<1>5. Up'
  <2>1. StartingOK /\ \A part : ~Pending(part)
    BY <1>1, <1>2, NothingPending DEF PhaseOK
  <2>2. ~ quit
    BY <1>1, <1>2 DEF TypeOK
  <2>3. QED
    BY <1>2, <2>1, <2>2 DEF StartingOK, Up, Runs
<1>6. PhaseOK'
  BY <1>2, <1>5 DEF PhaseOK
<1>7. QED
  BY <1>3, <1>4, <1>6 DEF IInv

LEMMA InvBeginShutdown ==
    ASSUME IInv, BeginShutdown
    PROVE  IInv'
<1>1. TypeOK /\ UsesOK /\ PhaseOK
  BY DEF IInv
<1>2. /\ phase = "serving" /\ phase' = "stopping" /\ todo' = ShutdownOf[service] /\ service' = service
      /\ UNCHANGED open /\ UNCHANGED <<serving, consumer, batch, held>> /\ UNCHANGED <<quit, forced>>
      /\ done' = 0 /\ UNCHANGED <<outages, troubles>>
  BY DEF BeginShutdown, workVars
<1>3. /\ ShutdownOf[service] \in Seq(Parts \cup {"consumers"})
      /\ "http" \in ToSet(ShutdownOf[service])
      /\ service # "gateway" => {"consumers", "relay"} \subseteq ToSet(ShutdownOf[service])
      /\ service = "gateway" => ToSet(MainOf[service]) = {"limiter", "signals", "server"}
  BY <1>1, Services
<1>4. TodoOK'
  <2> DEFINE s == ShutdownOf[service]
  <2>1. s = Rest(s, 0) /\ 0 \in 0..Len(s)
    BY <1>3, RestFacts
  <2>2. todo' = s /\ ShutdownOf[service]' = s
    BY <1>2
  <2> HIDE DEF s
  <2>3. \E i \in 0..Len(s) : todo' = Rest(s, i)
    BY <2>1, <2>2
  <2>4. QED
    BY <1>2, <2>2, <2>3 DEF TodoOK
<1>5. TypeOK'
  <2>1. ToSet(todo') \subseteq Parts \cup {"consumers"}
    BY <1>2, <1>3 DEF ToSet
  <2>2. Pool' = Pool
    BY <1>2 DEF Pool, Out
  <2>3. QED
    BY <1>1, <1>2, <2>1, <2>2 DEF TypeOK
<1>6. UsesOK'
  BY <1>1, <1>2 DEF UsesOK, Runs
<1>7. /\ Pending("http")'
      /\ service # "gateway" => Pending("consumers")' /\ Pending("relay")'
  BY <1>2, <1>3 DEF Pending
<1>8. service = "gateway" => "relay" \notin open /\ \A c \in Consumers : ~Runs(c)
  BY <1>1, <1>3 DEF UsesOK, Consumers
<1>9. Up' /\ ~ quit'
  BY <1>1, <1>2 DEF PhaseOK, Up, Runs, TypeOK
<1>10. StoppingOK'
  BY <1>2, <1>7, <1>8, <1>9 DEF StoppingOK, Runs
<1>11. PhaseOK'
  BY <1>2, <1>10 DEF PhaseOK
<1>12. QED
  BY <1>4, <1>5, <1>6, <1>11 DEF IInv

LEMMA InvCloseListener ==
    ASSUME IInv, CloseListener
    PROVE  IInv'
<1>1. TypeOK /\ TodoOK /\ UsesOK /\ PhaseOK
  BY DEF IInv
<1>2. /\ phase = "stopping" /\ todo # <<>> /\ Head(todo) = "http" /\ open' = open \ {"server", "http"}
      /\ UNCHANGED <<service, phase, todo>> /\ UNCHANGED <<serving, consumer, batch, held>>
      /\ UNCHANGED <<quit, done, forced>> /\ UNCHANGED <<outages, troubles>>
  BY DEF CloseListener, Stopping, mainVars, workVars, flagVars
<1>3. TypeOK'
  <2>1. Pool' = Pool
    BY <1>2 DEF Pool, Out
  <2>2. QED
    BY <1>1, <1>2, <2>1 DEF TypeOK
<1>4. TodoOK' /\ UsesOK'
  BY <1>1, <1>2 DEF TodoOK, UsesOK, Runs, Consumers
<1>5. StoppingOK
  BY <1>1, <1>2 DEF PhaseOK
<1>6. StoppingOK'
  BY <1>2, <1>5 DEF StoppingOK, Up, Core, Runs, Pending
<1>7. PhaseOK'
  BY <1>2, <1>6 DEF PhaseOK
<1>8. QED
  BY <1>3, <1>4, <1>7 DEF IInv

\* main goes on to the next part to stop.
LEMMA InvDrain ==
    ASSUME IInv, Drain
    PROVE  IInv'
<1>1. TypeOK /\ TodoOK /\ UsesOK /\ PhaseOK
  BY DEF IInv
<1>2. /\ phase = "stopping" /\ todo # <<>> /\ Head(todo) = "http" /\ todo' = Tail(todo)
      /\ open \cap {"server", "http"} = {} /\ forced' = (serving # {})
      /\ UNCHANGED <<service, phase>> /\ UNCHANGED open /\ UNCHANGED <<serving, consumer, batch, held>>
      /\ UNCHANGED <<quit, done>> /\ UNCHANGED <<outages, troubles>>
  BY DEF Drain, Stopping, workVars
<1>3. /\ TodoOK' /\ ToSet(todo') \subseteq Parts \cup {"consumers"}
      /\ \A part : Pending(part) <=> Pending(part)' \/ part = "http"
      /\ Pending("http")' => service = "gateway"
  BY <1>1, <1>2, NextStop
<1>4. StoppingOK /\ Pending("http")
  BY <1>1, <1>2, <1>3 DEF PhaseOK
<1>5. forced' \in BOOLEAN
  BY <1>2
<1>6. TypeOK'
  <2>1. Pool' = Pool
    BY <1>2 DEF Pool, Out
  <2>2. QED
    BY <1>1, <1>2, <1>3, <1>5, <2>1 DEF TypeOK
<1>7. UsesOK'
  BY <1>1, <1>2 DEF UsesOK, Runs
<1>8. StoppingOK'
  <2>1. Pending("http")' => Up'
    BY <1>2, <1>3 DEF Up
  <2>2. open' \cap {"server", "http"} = {} /\ (serving' # {} => forced')
    BY <1>2
  <2>3. ~Pending("consumers")' => \A c \in Consumers : ~Runs(c)'
    BY <1>2, <1>3, <1>4 DEF StoppingOK, Runs
  <2>4. ~Pending("relay")' => "relay" \notin open'
    BY <1>2, <1>3, <1>4 DEF StoppingOK
  <2>5. ~ quit'
    BY <1>2, <1>4 DEF StoppingOK
  <2>6. QED
    BY <2>1, <2>2, <2>3, <2>4, <2>5 DEF StoppingOK
<1>9. PhaseOK'
  BY <1>2, <1>8 DEF PhaseOK
<1>10. QED
  BY <1>3, <1>6, <1>7, <1>9 DEF IInv

LEMMA InvStopConsumers ==
    ASSUME IInv, StopConsumers
    PROVE  IInv'
<1>1. TypeOK /\ TodoOK /\ UsesOK /\ PhaseOK
  BY DEF IInv
<1>2. /\ phase = "stopping" /\ todo # <<>> /\ Head(todo) = "consumers" /\ todo' = Tail(todo)
      /\ consumer' = [c \in Consumers |-> IF consumer[c] = "busy" THEN "cancelled" ELSE "off"]
      /\ UNCHANGED <<service, phase>> /\ UNCHANGED open /\ UNCHANGED <<serving, batch, held>>
      /\ UNCHANGED <<quit, done, forced>> /\ UNCHANGED <<outages, troubles>>
  BY DEF StopConsumers, Stopping, flagVars
<1>3. /\ TodoOK' /\ ToSet(todo') \subseteq Parts \cup {"consumers"}
      /\ \A part : Pending(part) <=> Pending(part)' \/ part = "consumers"
      /\ Pending("http")' => service = "gateway"
  BY <1>1, <1>2, NextStop
<1>4. StoppingOK
  BY <1>1, <1>2 DEF PhaseOK
<1>5. \A c \in Consumers : ~Runs(c)'
  BY <1>2 DEF Runs
<1>6. TypeOK'
  <2>1. Pool' = Pool
    BY <1>2 DEF Pool, Out
  <2>2. consumer' \in [Consumers -> {"off", "idle", "busy", "cancelled"}]
    BY <1>2
  <2>3. QED
    BY <1>1, <1>2, <1>3, <2>1, <2>2 DEF TypeOK
<1>7. UsesOK'
  BY <1>1, <1>2, <1>5 DEF UsesOK
<1>8. StoppingOK'
  BY <1>2, <1>3, <1>4, <1>5 DEF StoppingOK, Up
<1>9. PhaseOK'
  BY <1>2, <1>8 DEF PhaseOK
<1>10. QED
  BY <1>3, <1>6, <1>7, <1>9 DEF IInv

LEMMA InvClose ==
    ASSUME IInv, Close
    PROVE  IInv'
<1>1. TypeOK /\ TodoOK /\ UsesOK /\ PhaseOK
  BY DEF IInv
<1>2. PICK part \in {"events", "invalidation", "publisher", "redis", "db", "limiter"} :
          /\ phase = "stopping" /\ todo # <<>> /\ Head(todo) = part /\ todo' = Tail(todo)
          /\ open' = open \ {part}
          /\ UNCHANGED <<service, phase>> /\ UNCHANGED <<serving, consumer, batch, held>>
          /\ UNCHANGED <<quit, done, forced>> /\ UNCHANGED <<outages, troubles>>
  BY DEF Close, Stopping, workVars, flagVars
<1>3. /\ TodoOK' /\ ToSet(todo') \subseteq Parts \cup {"consumers"}
      /\ \A p : Pending(p) <=> Pending(p)' \/ p = part
      /\ Pending("http")' => service = "gateway"
      /\ part \in {"events", "invalidation", "redis", "db"} => ~Pending("consumers")
      /\ part \in {"publisher", "db"} => ~Pending("relay")
  BY <1>1, <1>2, NextStop
<1>4. StoppingOK
  BY <1>1, <1>2 DEF PhaseOK
<1>5. TypeOK'
  <2>1. Pool' = Pool
    BY <1>2 DEF Pool, Out
  <2>2. QED
    BY <1>1, <1>2, <1>3, <2>1 DEF TypeOK
<1>6. UsesOK'
  <2>1. "relay" \in open' => "relay" \in open /\ {"db", "publisher"} \subseteq open'
    BY <1>1, <1>2, <1>3, <1>4 DEF UsesOK, StoppingOK
  <2>2. batch' => "relay" \in open'
    BY <1>1, <1>2 DEF UsesOK
  <2>3. ASSUME NEW c \in Consumers, Runs(c)'
        PROVE  {c, IF c = "events" THEN "db" ELSE "redis"} \subseteq open'
    <3>1. Runs(c)
      BY <1>2, <2>3 DEF Runs
    <3>2. part \notin {"events", "invalidation", "redis", "db"}
      BY <1>3, <1>4, <3>1 DEF StoppingOK
    <3>3. QED
      BY <1>1, <1>2, <3>1, <3>2 DEF UsesOK, Consumers
  <2>4. open' \subseteq ToSet(MainOf[service])' \cup {"http"}
    BY <1>1, <1>2 DEF UsesOK
  <2>5. QED
    BY <2>1, <2>2, <2>3, <2>4 DEF UsesOK
<1>7. StoppingOK'
  BY <1>2, <1>3, <1>4 DEF StoppingOK, Up, Runs
<1>8. PhaseOK'
  BY <1>2, <1>7 DEF PhaseOK
<1>9. QED
  BY <1>3, <1>5, <1>6, <1>8 DEF IInv

LEMMA InvStopRelay ==
    ASSUME IInv, StopRelay
    PROVE  IInv'
<1>1. TypeOK /\ TodoOK /\ UsesOK /\ PhaseOK
  BY DEF IInv
<1>2. /\ phase = "stopping" /\ todo # <<>> /\ Head(todo) = "relay" /\ quit' = TRUE
      /\ UNCHANGED <<service, phase>> /\ UNCHANGED open /\ UNCHANGED <<serving, consumer, batch, held>>
      /\ UNCHANGED <<done, forced>> /\ UNCHANGED <<outages, troubles>>
  BY DEF StopRelay, Stopping, workVars
<1>3. StoppingOK /\ ~ Pending("http")
  BY <1>1, <1>2, RelayStops DEF PhaseOK, Stopping
<1>4. /\ TodoOK' /\ ToSet(todo') \subseteq Parts \cup {"consumers"} /\ ~ Pending("http")'
      /\ \A part : part # "relay" => (Pending(part) <=> Pending(part)')
      /\ Pending("relay")' \/ "relay" \notin open
  <2>1. CASE UNCHANGED todo
    <3>1. \A part : Pending(part) <=> Pending(part)'
      BY <2>1 DEF Pending
    <3>2. TodoOK'
      BY <1>1, <1>2, <2>1 DEF TodoOK
    <3>3. QED
      BY <1>1, <1>3, <2>1, <3>1, <3>2 DEF TypeOK, StoppingOK
  <2>2. CASE "relay" \notin open /\ todo' = Tail(todo)
    BY <1>1, <1>2, <1>3, <2>2, NextStop
  <2>3. QED
    BY <2>1, <2>2 DEF StopRelay
<1>5. TypeOK'
  <2>1. Pool' = Pool
    BY <1>2 DEF Pool, Out
  <2>2. quit' \in BOOLEAN
    BY <1>2
  <2>3. QED
    BY <1>1, <1>2, <1>4, <2>1, <2>2 DEF TypeOK
<1>6. UsesOK'
  BY <1>1, <1>2 DEF UsesOK, Runs
<1>7. StoppingOK'
  BY <1>2, <1>3, <1>4 DEF StoppingOK, Runs
<1>8. PhaseOK'
  BY <1>2, <1>7 DEF PhaseOK
<1>9. QED
  BY <1>4, <1>5, <1>6, <1>8 DEF IInv

----------------------------------------------------------------------------
\* Steps of the goroutines, of signals and of dependencies

\* Work begins and ends where main lets it.
LEMMA WorkStep ==
    ASSUME IInv, UNCHANGED <<service, phase, todo>>, UNCHANGED open, UNCHANGED <<quit, forced>>, TypeOK',
           \A c \in Consumers : Runs(c)' <=> Runs(c), serving' \subseteq serving, batch' => "relay" \in open
    PROVE  IInv'
<1>1. TypeOK /\ TodoOK /\ UsesOK /\ PhaseOK
  BY DEF IInv
<1>2. TodoOK'
  BY <1>1 DEF TodoOK
<1>3. UsesOK'
  BY <1>1 DEF UsesOK
<1>4. PhaseOK'
  BY <1>1 DEF PhaseOK, StartingOK, StoppingOK, Up, Pending, Consumers
<1>5. QED
  BY <1>2, <1>3, <1>4 DEF IInv

LEMMA InvListen ==
    ASSUME IInv, Listen
    PROVE  IInv'
<1>1. TypeOK /\ TodoOK /\ UsesOK /\ PhaseOK
  BY DEF IInv
<1>2. CASE Exit /\ Trouble
  <2>1. troubles' \in 0..MaxTroubles
    BY <1>1, <1>2, TroublesAssumption DEF TypeOK, Trouble
  <2>2. QED
    BY <1>2, <2>1, InvExit
<1>3. CASE /\ "server" \in open /\ open' = (open \ {"server"}) \cup {"http"}
           /\ UNCHANGED <<mainVars, workVars, flagVars, outages, troubles>>
  <2>1. /\ UNCHANGED <<service, phase, todo>> /\ UNCHANGED <<serving, consumer, batch, held>>
        /\ UNCHANGED <<quit, done, forced>> /\ UNCHANGED <<outages, troubles>>
    BY <1>3 DEF mainVars, workVars, flagVars
  <2>2. TypeOK'
    <3>1. Pool' = Pool
      BY <2>1 DEF Pool, Out
    <3>2. open' \subseteq Parts
      BY <1>1, <1>3 DEF TypeOK, Parts
    <3>3. QED
      BY <1>1, <2>1, <3>1, <3>2 DEF TypeOK
  <2>3. TodoOK' /\ UsesOK'
    BY <1>1, <1>3, <2>1 DEF TodoOK, UsesOK, Runs, Consumers
  <2>4. phase # "down" /\ (phase = "stopping" => Pending("http"))
    BY <1>1, <1>3 DEF PhaseOK, StoppingOK
  <2>5. PhaseOK'
    BY <1>1, <1>3, <2>1, <2>4 DEF PhaseOK, StartingOK, StoppingOK, Up, Pending, Runs, Core
  <2>6. QED
    BY <2>2, <2>3, <2>5 DEF IInv
<1>4. QED
  BY <1>2, <1>3 DEF Listen

LEMMA InvAccept ==
    ASSUME IInv, NEW q \in Requests, Accept(q)
    PROVE  IInv'
<1>1. TypeOK /\ TodoOK /\ UsesOK /\ PhaseOK
  BY DEF IInv
<1>2. /\ "http" \in open /\ serving' = serving \cup {q} /\ UNCHANGED <<service, phase, todo>> /\ UNCHANGED open
      /\ UNCHANGED <<consumer, batch, held>> /\ UNCHANGED <<quit, done, forced>>
      /\ UNCHANGED <<outages, troubles>>
  BY DEF Accept, mainVars, flagVars
<1>3. TypeOK'
  <2>1. Pool' = Pool
    BY <1>2 DEF Pool, Out
  <2>2. QED
    BY <1>1, <1>2, <2>1 DEF TypeOK
<1>4. TodoOK' /\ UsesOK'
  BY <1>1, <1>2 DEF TodoOK, UsesOK, Runs
<1>5. phase # "down" /\ (phase = "stopping" => Pending("http"))
  BY <1>1, <1>2 DEF PhaseOK, StoppingOK
<1>6. PhaseOK'
  BY <1>1, <1>2, <1>5 DEF PhaseOK, StartingOK, StoppingOK, Up, Pending, Runs
<1>7. QED
  BY <1>3, <1>4, <1>6 DEF IInv

LEMMA PoolUnchanged ==
    ASSUME UNCHANGED held
    PROVE  Pool' = Pool
  BY DEF Pool, Out

\* Whoever gives its connections back, or takes one, does so within the pool.
LEMMA InvConnections ==
    ASSUME IInv,
           \/ \E q \in Requests : Answer(q)
           \/ \E g \in Workers : Connect(g)
           \/ \E c \in Consumers : EndMessage(c)
           \/ RetryMessage \/ EndBatch
    PROVE  IInv'
<1>1. TypeOK /\ UsesOK /\ Lends
  BY DEF IInv, TypeOK, Lends
<1>2. ASSUME NEW q \in Requests, Answer(q)
      PROVE  IInv'
  <2>1. /\ UNCHANGED <<service, phase, todo>> /\ UNCHANGED open /\ UNCHANGED <<quit, done, forced>>
        /\ serving' = serving \ {q} /\ UNCHANGED <<consumer, batch>> /\ UNCHANGED <<outages, troubles>>
        /\ GivesBack(q)
    BY <1>2 DEF Answer, mainVars, flagVars
  <2>2. TypeOK'
    <3>1. Lends'
      BY <1>1, <2>1, GivesBackKeeps
    <3>2. QED
      BY <1>1, <2>1, <3>1 DEF TypeOK, Lends
  <2>3. QED
    BY <1>1, <2>1, <2>2, WorkStep DEF UsesOK, Runs
<1>3. ASSUME NEW g \in Workers, Connect(g)
      PROVE  IInv'
  <2>1. /\ UNCHANGED <<service, phase, todo>> /\ UNCHANGED open /\ UNCHANGED <<quit, done, forced>>
        /\ UNCHANGED <<serving, consumer, batch>> /\ UNCHANGED <<outages, troubles>>
        /\ held[g] < Needs(g) /\ Pool > 0 /\ held' = [held EXCEPT ![g] = held[g] + 1]
    BY <1>3 DEF Connect, mainVars, flagVars
  <2>2. TypeOK'
    <3>1. Lends'
      BY <1>1, <2>1, ConnectKeeps
    <3>2. QED
      BY <1>1, <2>1, <3>1 DEF TypeOK, Lends
  <2>3. QED
    BY <1>1, <2>1, <2>2, WorkStep DEF UsesOK, Runs
<1>4. ASSUME NEW c \in Consumers, EndMessage(c)
      PROVE  IInv'
  <2>1. /\ UNCHANGED <<service, phase, todo>> /\ UNCHANGED open /\ UNCHANGED <<quit, done, forced>>
        /\ UNCHANGED <<serving, batch>> /\ UNCHANGED <<outages, troubles>>
        /\ consumer[c] \in {"busy", "cancelled"}
        /\ consumer' = [consumer EXCEPT ![c] = IF consumer[c] = "busy" THEN "idle" ELSE "off"]
        /\ GivesBack(c) \/ UNCHANGED held
    BY <1>4 DEF EndMessage, mainVars, flagVars
  <2>2. Lends'
    BY <1>1, <2>1, GivesBackKeeps, PoolUnchanged DEF Lends
  <2>3. /\ consumer' \in [Consumers -> {"off", "idle", "busy", "cancelled"}]
        /\ \A d \in Consumers : Runs(d)' <=> Runs(d)
    BY <1>1, <2>1 DEF TypeOK, Runs
  <2>4. TypeOK'
    BY <1>1, <2>1, <2>2, <2>3 DEF TypeOK, Lends
  <2>5. QED
    BY <1>1, <2>1, <2>3, <2>4, WorkStep DEF UsesOK
<1>5. CASE RetryMessage
  <2>1. /\ UNCHANGED <<service, phase, todo>> /\ UNCHANGED open /\ UNCHANGED <<quit, done, forced>>
        /\ UNCHANGED <<serving, consumer, batch>> /\ UNCHANGED outages /\ GivesBack("events")
        /\ troubles < MaxTroubles /\ troubles' = troubles + 1
    BY <1>5 DEF RetryMessage, Trouble, mainVars, flagVars
  <2>2. Lends' /\ troubles' \in 0..MaxTroubles
    BY <1>1, <2>1, GivesBackKeeps, TroublesAssumption DEF TypeOK
  <2>3. TypeOK'
    BY <1>1, <2>1, <2>2 DEF TypeOK, Lends
  <2>4. QED
    BY <1>1, <2>1, <2>3, WorkStep DEF UsesOK, Runs
<1>6. CASE EndBatch
  <2>1. /\ UNCHANGED <<service, phase, todo>> /\ UNCHANGED open /\ UNCHANGED <<quit, done, forced>>
        /\ UNCHANGED <<serving, consumer>> /\ UNCHANGED <<outages, troubles>>
        /\ batch' = FALSE /\ GivesBack("relay")
    BY <1>6 DEF EndBatch, mainVars, flagVars
  <2>2. Lends' /\ batch' \in BOOLEAN
    BY <1>1, <2>1, GivesBackKeeps
  <2>3. TypeOK'
    BY <1>1, <2>1, <2>2 DEF TypeOK, Lends
  <2>4. QED
    BY <1>1, <2>1, <2>3, WorkStep DEF UsesOK, Runs
<1>7. QED
  BY <1>2, <1>3, <1>4, <1>5, <1>6

LEMMA InvWork ==
    ASSUME IInv,
           \/ \E c \in Consumers : Fetch(c)
           \/ BeginBatch \/ RelayReturns \/ Outage \/ Recover
    PROVE  IInv'
<1>1. TypeOK /\ TodoOK /\ UsesOK /\ PhaseOK
  BY DEF IInv
<1>2. ASSUME NEW c \in Consumers, Fetch(c)
      PROVE  IInv'
  <2>1. /\ UNCHANGED <<service, phase, todo>> /\ UNCHANGED open /\ UNCHANGED <<quit, done, forced>>
        /\ UNCHANGED <<serving, batch, held>> /\ UNCHANGED <<outages, troubles>>
        /\ consumer[c] = "idle" /\ consumer' = [consumer EXCEPT ![c] = "busy"]
    BY <1>2 DEF Fetch, mainVars, flagVars
  <2>2. /\ consumer' \in [Consumers -> {"off", "idle", "busy", "cancelled"}]
        /\ \A d \in Consumers : Runs(d)' <=> Runs(d)
    BY <1>1, <2>1 DEF TypeOK, Runs
  <2>3. TypeOK'
    BY <1>1, <2>1, <2>2, PoolUnchanged DEF TypeOK
  <2>4. QED
    BY <1>1, <2>1, <2>2, <2>3, WorkStep DEF UsesOK
<1>3. CASE BeginBatch
  <2>1. /\ UNCHANGED <<service, phase, todo>> /\ UNCHANGED open /\ UNCHANGED <<quit, done, forced>>
        /\ UNCHANGED <<serving, consumer, held>> /\ UNCHANGED <<outages, troubles>>
        /\ batch' = TRUE /\ "relay" \in open
    BY <1>3 DEF BeginBatch, mainVars, flagVars
  <2>2. batch' \in BOOLEAN
    BY <2>1
  <2>3. TypeOK'
    BY <1>1, <2>1, <2>2, PoolUnchanged DEF TypeOK
  <2>4. QED
    BY <1>1, <2>1, <2>3, WorkStep DEF Runs
<1>4. CASE RelayReturns
  <2>1. /\ UNCHANGED <<service, phase, todo>> /\ UNCHANGED <<quit, done, forced>>
        /\ UNCHANGED <<serving, consumer, batch, held>> /\ UNCHANGED <<outages, troubles>>
        /\ ~ batch /\ quit /\ open' = open \ {"relay"}
    BY <1>4 DEF RelayReturns, mainVars, workVars, flagVars
  <2>2. TypeOK'
    BY <1>1, <2>1, PoolUnchanged DEF TypeOK
  <2>3. phase = "stopping" /\ StoppingOK /\ ~ Pending("http")
    BY <1>1, <2>1 DEF TypeOK, PhaseOK, StoppingOK
  <2>4. TodoOK' /\ UsesOK'
    BY <1>1, <2>1 DEF TodoOK, UsesOK, Runs, Consumers
  <2>5. PhaseOK'
    BY <2>1, <2>3 DEF PhaseOK, StoppingOK, Pending, Runs
  <2>6. QED
    BY <2>2, <2>4, <2>5 DEF IInv
<1>5. CASE Outage \/ Recover
  <2>1. /\ UNCHANGED <<service, phase, todo>> /\ UNCHANGED open /\ UNCHANGED <<quit, done, forced>>
        /\ UNCHANGED <<serving, consumer, batch, held>>
    BY <1>5 DEF Outage, Recover, mainVars, workVars, flagVars
  <2>2. outages' \subseteq Dependencies /\ troubles' \in 0..MaxTroubles
    BY <1>1, <1>5, TroublesAssumption DEF Outage, Recover, Trouble, TypeOK
  <2>3. TypeOK'
    BY <1>1, <2>1, <2>2, PoolUnchanged DEF TypeOK
  <2>4. QED
    BY <1>1, <2>1, <2>3, WorkStep DEF UsesOK, Runs
<1>6. QED
  BY <1>2, <1>3, <1>4, <1>5

LEMMA InvSignals ==
    ASSUME IInv, Kill \/ Signal \/ Return
    PROVE  IInv'
<1>1. TypeOK /\ UsesOK
  BY DEF IInv
<1>2. (Trouble \/ UNCHANGED troubles) => troubles' \in 0..MaxTroubles
  BY <1>1, TroublesAssumption DEF TypeOK, Trouble
<1>3. CASE Exit /\ (Trouble \/ UNCHANGED troubles)
  BY <1>2, <1>3, InvExit
<1>4. CASE /\ Trouble /\ done' = 1
           /\ UNCHANGED <<mainVars, open, workVars, quit, forced, outages>>
  <2>1. /\ UNCHANGED <<service, phase, todo>> /\ UNCHANGED open /\ UNCHANGED <<quit, forced>>
        /\ UNCHANGED <<serving, consumer, batch, held>> /\ UNCHANGED outages
    BY <1>4 DEF mainVars, workVars
  <2>2. done' \in 0..1
    BY <1>4
  <2>3. TypeOK'
    BY <1>1, <1>2, <1>4, <2>1, <2>2, PoolUnchanged DEF TypeOK
  <2>4. QED
    BY <1>1, <2>1, <2>3, WorkStep DEF UsesOK, Runs
<1>5. QED
  BY <1>3, <1>4 DEF Kill, Signal, Return

----------------------------------------------------------------------------
\* The theorems

LEMMA InvInit ==
    ASSUME Init
    PROVE  IInv
<1>1. /\ service \in DOMAIN MainOf /\ phase = "down" /\ todo = <<>> /\ open = {} /\ serving = {}
      /\ batch = FALSE /\ consumer = [c \in Consumers |-> "off"] /\ held = [g \in Workers |-> 0]
      /\ quit = FALSE /\ done = 0 /\ forced = FALSE /\ outages = {} /\ troubles = 0
  BY DEF Init
<1>2. Pool \in 0..PoolSize
  <2>1. Out = {}
    BY <1>1 DEF Out
  <2>2. Cardinality(Out) = 0
    BY <2>1, FS_EmptySet, Zenon
  <2>3. Pool = PoolSize - 0
    BY <2>2, Zenon DEF Pool
  <2>4. QED
    BY <2>3, PoolAssumption
<1>3. ToSet(todo) = {}
  BY <1>1 DEF ToSet
<1>4. TypeOK
  <2>1. /\ held \in [Workers -> 0..2] /\ consumer \in [Consumers -> {"off", "idle", "busy", "cancelled"}]
        /\ done \in 0..1 /\ troubles \in 0..MaxTroubles
    BY <1>1, TroublesAssumption
  <2>2. quit \in BOOLEAN /\ forced \in BOOLEAN /\ batch \in BOOLEAN /\ ~ (quit \/ forced)
    BY <1>1, Zenon
  <2>3. QED
    BY <1>1, <1>2, <1>3, <2>1, <2>2 DEF TypeOK
<1>5. TodoOK /\ UsesOK /\ PhaseOK
  BY <1>1 DEF TodoOK, UsesOK, PhaseOK, Runs
<1>6. QED
  BY <1>4, <1>5 DEF IInv

LEMMA InvStep ==
    ASSUME IInv, [Next]_vars
    PROVE  IInv'
<1>1. CASE Main
  BY <1>1, InvBoot, InvStarting, InvAwait, InvBeginShutdown, InvCloseListener, InvDrain,
     InvStopConsumers, InvClose, InvStopRelay, InvSignals DEF Main
<1>2. CASE Kill \/ Signal
  BY <1>2, InvSignals
<1>3. CASE Listen
  BY <1>3, InvListen
<1>4. ASSUME NEW q \in Requests, Accept(q) \/ Answer(q)
      PROVE  IInv'
  BY <1>4, InvAccept, InvConnections
<1>5. ASSUME NEW c \in Consumers, Fetch(c) \/ EndMessage(c)
      PROVE  IInv'
  BY <1>5, InvWork, InvConnections
<1>6. ASSUME NEW g \in Workers, Connect(g)
      PROVE  IInv'
  BY <1>6, InvConnections
<1>7. CASE RetryMessage \/ BeginBatch \/ EndBatch \/ RelayReturns \/ Outage \/ Recover
  BY <1>7, InvWork, InvConnections
<1>8. CASE UNCHANGED vars
  <2>1. /\ UNCHANGED <<service, phase, todo>> /\ UNCHANGED open /\ UNCHANGED <<quit, done, forced>>
        /\ UNCHANGED <<serving, consumer, batch, held>> /\ UNCHANGED <<outages, troubles>>
    BY <1>8 DEF vars, mainVars, workVars, flagVars
  <2>2. TypeOK' /\ UsesOK
    BY <2>1, PoolUnchanged DEF IInv, TypeOK
  <2>3. QED
    BY <2>1, <2>2, WorkStep DEF UsesOK, Runs
<1>9. QED
  BY <1>1, <1>2, <1>3, <1>4, <1>5, <1>6, <1>7, <1>8 DEF Next

\* Every reachable state has the invariant.
THEOREM SpecInv == Spec => []IInv
<1>1. Init => IInv
  BY InvInit
<1>2. IInv /\ [Next]_vars => IInv'
  BY InvStep
<1>3. QED
  BY <1>1, <1>2, PTL DEF Spec

\* Whatever order signals, outages and main's steps come in, the pool never lends more
\* connections than it has, and the relay is told to stop only during a shutdown.
THEOREM SpecTypeOK == Spec => []TypeOK
<1>1. IInv => TypeOK
  BY DEF IInv
<1>2. QED
  BY <1>1, SpecInv, PTL

\* Neither the start nor the end of a replica takes away what a goroutine still uses, and
\* a replica that answers that it is ready has its relay and its consumers running.
THEOREM SpecEveryPartHasItsOthers == Spec => []EveryPartHasItsOthers
<1>1. IInv => EveryPartHasItsOthers
  <2> SUFFICES ASSUME IInv PROVE EveryPartHasItsOthers
    OBVIOUS
  <2>1. TypeOK /\ UsesOK /\ PhaseOK
    BY DEF IInv
  <2>2. batch => {"db", "publisher"} \subseteq open
    BY <2>1 DEF UsesOK
  <2>3. \A c \in Consumers : Runs(c) => {c, IF c = "events" THEN "db" ELSE "redis"} \subseteq open
    BY <2>1 DEF UsesOK
  <2>4. ASSUME "http" \in open \/ (serving # {} /\ ~ forced)
        PROVE  Up
    <3>1. CASE phase = "down"
      BY <2>1, <2>4, <3>1 DEF PhaseOK
    <3>2. CASE phase = "starting"
      <4>1. StartingOK /\ todo = <<>> /\ ~ quit
        BY <2>1, <2>4, <3>2 DEF PhaseOK, StartingOK, TypeOK
      <4>2. \A part : ~Pending(part)
        BY <4>1, NothingPending
      <4>3. QED
        BY <4>1, <4>2 DEF StartingOK, Up
    <3>3. CASE phase = "serving"
      BY <2>1, <3>3 DEF PhaseOK
    <3>4. CASE phase = "stopping"
      BY <2>1, <2>4, <3>4 DEF PhaseOK, StoppingOK
    <3>5. QED
      BY <2>1, <3>1, <3>2, <3>3, <3>4 DEF TypeOK
  <2>5. serving # {} /\ ~forced /\ service # "gateway" => "db" \in open
    BY <2>4 DEF Up, Core
  <2>6. Ready /\ service # "gateway" =>
            /\ "relay" \in open /\ ~quit
            /\ Runs("events")
            /\ "redis" \in open => Runs("invalidation")
    BY <2>4 DEF Ready, Up, Core
  <2>7. QED
    BY <2>2, <2>3, <2>5, <2>6 DEF EveryPartHasItsOthers, Runs
<1>2. QED
  BY <1>1, SpecInv, PTL

----------------------------------------------------------------------------
\* The canary script

\* Which action a command belongs to, and that the pods are there before the traffic and
\* the traffic is gone before the pods.
PodsInv ==
    /\ pc = "scale_canary" => action = "promote"
    /\ pc \in {"measure", "decide"} => action = "promote"
    /\ pc = "scale_down" => weight = 0
    /\ action = "promote" /\ pc \in {"set_weight", "measure", "decide"} => pods \/ ~copied

\* A rate was measured of the version that runs now, and did not stop the promotion.
MeasuredInv ==
    /\ measured = "low" => ~faulty
    /\ pc = "scale_canary" => measured = "none" /\ step = 1
    /\ pc = "decide" => measured # "none"
    /\ pc = "set_weight" /\ action = "promote" /\ step > 1
           => measured \in {"low", "nan", "zero", "empty"}

CanaryIInv == CanaryTypeOK /\ CanaryHasPods /\ PodsInv /\ MeasuredInv

\* The steps of a promotion, and what they route.
LEMMA StepsArePercentages ==
    /\ DOMAIN STEPS = 1..4 /\ Len(STEPS) = 4
    /\ \A i \in 1..4 : STEPS[i] \in 1..100
    /\ STEPS[1] = 5
BY DEF STEPS

LEMMA CanaryInvInit ==
    ASSUME CanaryInit
    PROVE  CanaryIInv
<1>1. CanaryTypeOK
  <2>1. pods \in BOOLEAN /\ copied \in BOOLEAN /\ faulty \in BOOLEAN
    BY DEF CanaryInit
  <2>2. weight \in 0..100 /\ step \in DOMAIN STEPS /\ failures \in 0..MaxFailures
    BY StepsArePercentages, WeightsAssumption DEF CanaryInit
  <2>3. QED
    BY <2>1, <2>2 DEF CanaryInit, CanaryTypeOK
<1>2. CanaryHasPods /\ PodsInv /\ MeasuredInv
  BY DEF CanaryInit, CanaryHasPods, PodsInv, MeasuredInv
<1>3. QED
  BY <1>1, <1>2 DEF CanaryIInv

LEMMA CanaryTypeStep ==
    ASSUME CanaryTypeOK, [CanaryNext]_canaryVars
    PROVE  CanaryTypeOK'
<1> USE WeightsAssumption DEF CanaryTypeOK
<1>1. CASE main
  BY <1>1, StepsArePercentages DEF main, clusterVars
<1>2. CASE ScaleUp
  BY <1>2 DEF ScaleUp, Goto
<1>3. CASE set_weight
  BY <1>3, StepsArePercentages DEF set_weight, Route, Goto
<1>4. CASE Measure
  BY <1>4 DEF Measure, Goto, canary_error_rate, Readings,
              clusterVars
<1>5. CASE Decide
  BY <1>5, StepsArePercentages
     DEF Decide, RollBack, Advance, Goto, clusterVars
<1>6. CASE ScaleDown
  BY <1>6 DEF ScaleDown, Goto
<1>7. CASE Abort
  BY <1>7 DEF Abort, Failing, clusterVars
<1>8. CASE UNCHANGED canaryVars
  BY <1>8 DEF canaryVars, clusterVars, scriptVars
<1>9. QED
  BY <1>1, <1>2, <1>3, <1>4, <1>5, <1>6, <1>7, <1>8 DEF CanaryNext, Command

\* Pods come up before set_weight routes to them and go down after it routed past them.
LEMMA CanaryPodsStep ==
    ASSUME CanaryTypeOK, CanaryHasPods, PodsInv, [CanaryNext]_canaryVars
    PROVE  PodsInv' /\ CanaryHasPods'
<1> USE DEF CanaryTypeOK, CanaryHasPods, PodsInv
<1>1. CASE main
  BY <1>1 DEF main, clusterVars
<1>2. CASE ScaleUp
  BY <1>2 DEF ScaleUp, Goto
<1>3. CASE set_weight
  BY <1>3 DEF set_weight, Route, Goto
<1>4. CASE Measure
  BY <1>4 DEF Measure, Goto, clusterVars
<1>5. CASE Decide
  BY <1>5 DEF Decide, RollBack, Advance, Goto, clusterVars
<1>6. CASE ScaleDown
  BY <1>6 DEF ScaleDown, Goto
<1>7. CASE Abort
  BY <1>7 DEF Abort, clusterVars
<1>8. CASE UNCHANGED canaryVars
  BY <1>8 DEF canaryVars, clusterVars, scriptVars
<1>9. QED
  BY <1>1, <1>2, <1>3, <1>4, <1>5, <1>6, <1>7, <1>8 DEF CanaryNext, Command

\* What was measured belongs to the version that runs; a high rate never gets past Decide.
LEMMA CanaryMeasuredStep ==
    ASSUME CanaryTypeOK, PodsInv, MeasuredInv, [CanaryNext]_canaryVars
    PROVE  MeasuredInv'
<1> USE DEF CanaryTypeOK, MeasuredInv
<1>1. CASE main
  BY <1>1 DEF main
<1>2. CASE ScaleUp
  BY <1>2 DEF ScaleUp, Goto
<1>3. CASE set_weight
  BY <1>3 DEF set_weight, Route, Goto
<1>4. CASE Measure
  BY <1>4 DEF Measure, Goto, canary_error_rate
<1>5. CASE Decide
  BY <1>5, StepsArePercentages
     DEF Decide, RollBack, Advance, Goto,
         ExceedsThreshold, Readings
<1>6. CASE ScaleDown
  BY <1>6 DEF ScaleDown, Goto
<1>7. CASE Abort
  BY <1>7 DEF Abort
<1>8. CASE UNCHANGED canaryVars
  BY <1>8 DEF canaryVars, scriptVars
<1>9. QED
  BY <1>1, <1>2, <1>3, <1>4, <1>5, <1>6, <1>7, <1>8 DEF CanaryNext, Command

\* The invariant of the script, wherever it or an earlier run of it was cut off.
THEOREM CanaryInv == CanarySpec => []CanaryIInv
<1>1. CanaryInit => CanaryIInv
  BY CanaryInvInit
<1>2. CanaryIInv /\ [CanaryNext]_canaryVars => CanaryIInv'
  BY CanaryTypeStep, CanaryPodsStep, CanaryMeasuredStep DEF CanaryIInv
<1>3. QED
  BY <1>1, <1>2, PTL DEF CanarySpec

\* canary.sh stays within its steps and routes percentages.
THEOREM CanaryTypes == CanarySpec => []CanaryTypeOK
<1>1. CanaryIInv => CanaryTypeOK
  BY DEF CanaryIInv
<1>2. QED
  BY <1>1, CanaryInv, PTL

\* Traffic that promote or rollback left on the canary has pods to go to, wherever
\* canary.sh or the run before it was cut off, or stable had no pods to copy.
THEOREM CanaryTrafficHasPods == CanarySpec => []CanaryHasPods
<1>1. CanaryIInv => CanaryHasPods
  BY DEF CanaryIInv
<1>2. QED
  BY <1>1, CanaryInv, PTL

\* A promotion gives a faulty canary more than the first step only while Prometheus has no
\* rate of it (canary_error_rate prints NaN, 0 or nothing), never after a rate.
THEOREM CanaryPromotesUnseenOnly == CanarySpec => PromotesUnseenOnly
<1> DEFINE Seen == faulty /\ routedBy' = "promote" /\ weight' > STEPS[1]
                      /\ ~UNCHANGED weight => measured \in {"nan", "zero", "empty"}
<1>1. ASSUME CanaryIInv, [CanaryNext]_canaryVars
      PROVE  [Seen]_canaryVars
  <2>1. SUFFICES ASSUME faulty, routedBy' = "promote", weight' > STEPS[1],
                        weight' # weight
                 PROVE  measured \in {"nan", "zero", "empty"}
    OBVIOUS
  <2>2. set_weight
    BY <1>1, <2>1
       DEF CanaryNext, Command, main, ScaleUp, Measure, Decide,
           ScaleDown, Abort, canaryVars, clusterVars
  <2>3. action = "promote" /\ weight' = STEPS[step] /\ pc = "set_weight"
    BY <2>1, <2>2 DEF set_weight, Route
  <2>4. step \in 1..4 /\ step # 1
    BY <1>1, <2>1, <2>3, StepsArePercentages DEF CanaryIInv, CanaryTypeOK
  <2>5. QED
    BY <1>1, <2>1, <2>3, <2>4 DEF CanaryIInv, MeasuredInv
<1>2. QED
  BY <1>1, CanaryInv, PTL DEF CanarySpec, PromotesUnseenOnly
=============================================================================
