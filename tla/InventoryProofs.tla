--------------------------- MODULE InventoryProofs ---------------------------
(***************************************************************************)
(* Theorems about the stock, for any set of orders, products, goroutines   *)
(* and quantities.                                                         *)
(*                                                                         *)
(* FreeInv holds of every order: types, locks, counters that never become  *)
(* negative and are what the movements add up to, the rows of an order and *)
(* that they are one reservation (Reservation). What an order is returned  *)
(* or sold, that its release is announced once and what an answer tells    *)
(* holds of the orders that are not raced (IInv).                          *)
(***************************************************************************)
EXTENDS Inventory, FiniteSetTheorems, SequenceTheorems, WellFoundedInduction, TLAPS

----------------------------------------------------------------------------
\* The inductive invariants

CommittedTyped ==
    /\ available \in [Products -> Nat]
    /\ reserved \in [Products -> Nat]
    /\ row \in [Orders -> [Products -> ReservationStatus]]
    /\ held \in [Orders -> [Products -> Nat]]
    /\ moved \in [Orders -> [MovementType -> [Products -> Nat]]]
    /\ processed \subseteq OrderEvent
    /\ announced \in [Orders -> [InventoryEventType -> Nat]]

ControlTyped ==
    /\ pc \in [Txs -> {"idle", "mark_processed", "check", "take", "insert",
                       "select", "update", "commit"}]
    /\ call \in [Txs -> Call \cup {NoCall}]
    /\ \A t \in Txs : call[t] = NoCall <=> pc[t] = "idle"
    /\ line \in [Txs -> Nat \ {0}]
    /\ found \in [Txs -> Seq(Products)] /\ todo \in [Txs -> Seq(Products)]
    /\ \A t \in Txs : ToSet(todo[t]) \subseteq ToSet(found[t])

LocksTyped ==
    /\ invLock \in [Products -> Txs \cup {Nobody}]
    /\ rowLock \in [Orders -> [Products -> Txs \cup {Nobody}]]

RacedTyped == raced \subseteq Orders

\* What a transaction may have written.
Writes == [available : [Products -> Int], reserved : [Products -> Int],
           row : [Products -> ReservationStatus], held : [Products -> Nat],
           moved : [Products -> Nat]]

TxTyped == tx \in [Txs -> Writes]

\* What a goroutine does is what its call asks for, and it has written nothing before
\* its first UPDATE.
CallInv ==
    \A t \in Txs :
        /\ pc[t] \in {"check", "take", "insert"} => call[t].op = "reserve"
        /\ pc[t] \in {"mark_processed", "select", "update"} => call[t].op # "reserve"
        /\ pc[t] = "mark_processed" => call[t] \in OrderEvent
        /\ pc[t] \in {"idle", "mark_processed", "select"} =>
             tx[t] = NoWrites /\ line[t] = 1 /\ found[t] = <<>> /\ todo[t] = <<>>
        /\ pc[t] \in {"take", "insert"} => line[t] \in DOMAIN Lines[call[t].order]

\* Whoever wrote a row holds its lock, and leaves no counter negative.
LockInv ==
    \A t \in Txs, p \in Products :
        /\ tx[t].available[p] # 0 \/ tx[t].reserved[p] # 0 => invLock[p] = t
        /\ available[p] + tx[t].available[p] >= 0
        /\ reserved[p] + tx[t].reserved[p] >= 0
        /\ tx[t].row[p] # "none" => rowLock[call[t].order][p] = t

BaseInv == CommittedTyped /\ ControlTyped /\ LocksTyped /\ TxTyped /\ CallInv /\ LockInv

Asked(o, p) == \E i \in DOMAIN Lines[o] : Lines[o][i].product = p

\* The first line of o that names p asks for q units.
Named(o, p, q) == \E i \in FirstLines(o, p) : Lines[o][i].quantity = q

\* The rows of an order come all at once, for the products it asks for and with the
\* quantity of the first line that does, and are of one status.
RowsInv ==
    \A o \in Orders :
        /\ \/ \A p \in Products : row[o][p] = "none"
           \/ \A p \in Products : row[o][p] # "none" <=> Asked(o, p)
        /\ \A p, q \in Products : row[o][p] # "none" /\ row[o][q] # "none" => row[o][p] = row[o][q]
        /\ \A p \in Products :
             /\ row[o][p] = "none" => held[o][p] = 0
             /\ row[o][p] # "none" => Named(o, p, held[o][p])

\* What a reservation has written: a row for every line it passed, unless the row was
\* there before it. Its own rows were not, and their locks keep it so.
Inserting(t) ==
    /\ \A p \in Products :
         /\ tx[t].row[p] \in {"none", "reserved"}
         /\ tx[t].row[p] = "none" => tx[t].held[p] = 0
         /\ tx[t].row[p] = "reserved" =>
              /\ row[call[t].order][p] = "none"
              /\ Named(call[t].order, p, tx[t].held[p])
    /\ \A i \in DOMAIN Lines[call[t].order] : i < line[t] \/ pc[t] = "commit" =>
         RowSeenBy(t, Lines[call[t].order][i].product) # "none"

\* The status a release or a commit gives the rows.
Settled(t) == IF Returned(call[t]) THEN "released" ELSE "committed"

\* What a release or a commit has written: nothing, or all the rows that are reserved,
\* whichever rows it selected before.
Marking(t) ==
    /\ \A p \in Products : tx[t].held[p] = 0
    /\ \A p \in ToSet(found[t]) : row[call[t].order][p] # "none"
    /\ pc[t] # "commit" => \A p \in Products : tx[t].row[p] = "none"
    /\ \/ \A p \in Products : tx[t].row[p] = "none"
       \/ \A p \in Products :
            tx[t].row[p] = IF row[call[t].order][p] = "reserved" THEN Settled(t) ELSE "none"

WritesInv ==
    \A t \in Txs : pc[t] # "idle" =>
        IF call[t].op = "reserve" THEN Inserting(t) ELSE Marking(t)

\* inventory.reserved is announced by the reservation that brought the rows.
ReservedOnce ==
    \A o \in Orders : announced[o]["inventory.reserved"] =
        (IF \E p \in Products : row[o][p] # "none" THEN 1 ELSE 0)

\* The line a reservation is at, when its units are taken and not yet inserted.
Taken(t, p) == pc[t] = "insert" /\ Here(t).product = p

\* What a transaction did to the counters is what it moved: a reservation takes the units
\* of its rows and of the line at hand, the others give back or take out what they found.
Counted(t) ==
    IF call[t].op = "reserve"
    THEN \A p \in Products :
           /\ tx[t].moved[p] = tx[t].held[p]
           /\ tx[t].reserved[p] = tx[t].held[p] + (IF Taken(t, p) THEN Here(t).quantity ELSE 0)
           /\ tx[t].available[p] = - tx[t].reserved[p]
    ELSE \A p \in Products :
           /\ tx[t].reserved[p] = - tx[t].moved[p]
           /\ tx[t].available[p] = (IF Returned(call[t]) THEN tx[t].moved[p] ELSE 0)

CountedInv == \A t \in Txs : pc[t] # "idle" => Counted(t)

HeldIsMoved ==
    \A o \in Orders, p \in Products : moved[o]["reservation"][p] = held[o][p]

\* Nothing is announced as released of an order that held nothing.
ReleasedHeld ==
    \A o \in Orders : announced[o]["inventory.released"] > 0 => \E p \in Products : row[o][p] # "none"

\* The inductive invariant of all orders, raced or not.
FreeInv ==
    BaseInv /\ WritesInv /\ RowsInv /\ ReservedOnce /\ ReleasedHeld
    /\ CountedInv /\ HeldIsMoved /\ Ledger

\* Calls that run side by side for an order that is not raced are reservations.
SideBySide ==
    \A t, u \in Txs :
        t # u /\ pc[t] # "idle" /\ pc[u] # "idle" /\ call[t].order = call[u].order
              /\ call[t].order \notin raced
            => call[t].op = "reserve"

\* A line that was passed is reserved, by this or by another reservation.
Reserving(t) ==
    \A i \in DOMAIN Lines[call[t].order] : i < line[t] \/ pc[t] = "commit" =>
        RowSeenBy(t, Lines[call[t].order][i].product) = "reserved"

ReserveInv ==
    \A t \in Txs : pc[t] # "idle" /\ call[t].op = "reserve" /\ call[t].order \notin raced
                      => Reserving(t)

\* A release or commit of a reservation moved the units of the rows it found but has not
\* got to yet; the rows it found are those that are still reserved.
Updated(t) == ToSet(found[t]) \ ToSet(todo[t])

Releasing(t) ==
    /\ ToSet(found[t]) = {p \in Products : row[call[t].order][p] = "reserved"}
    /\ \A i, j \in DOMAIN todo[t] : todo[t][i] = todo[t][j] => i = j
    /\ pc[t] = "commit" => todo[t] = <<>>
    /\ \A p \in Products :
         /\ tx[t].moved[p] = (IF p \in Updated(t) THEN held[call[t].order][p] ELSE 0)
         /\ pc[t] = "commit" => tx[t].row[p] = (IF p \in ToSet(found[t]) THEN Settled(t) ELSE "none")

ReleaseInv ==
    \A t \in Txs : pc[t] \in {"update", "commit"} /\ call[t].op # "reserve"
                      /\ call[t].order \notin raced => Releasing(t)

ReleasedOnce ==
    \A o \in Orders : o \notin raced =>
        announced[o]["inventory.released"] = (IF \E p \in Products : row[o][p] = "released" THEN 1 ELSE 0)

SettledOnce ==
    \A o \in Orders, p \in Products : o \notin raced =>
        /\ moved[o]["release"][p] = (IF row[o][p] = "released" THEN held[o][p] ELSE 0)
        /\ moved[o]["sale"][p] = (IF row[o][p] = "committed" THEN held[o][p] ELSE 0)

\* With it, what the orders that are not raced keep to besides.
IInv == FreeInv /\ SideBySide /\ ReserveInv /\ ReleaseInv /\ ReleasedOnce /\ SettledOnce

----------------------------------------------------------------------------
\* Sums

\* A nonempty set of subsets of a finite set has a member that is minimal under the
\* removal of one element.
LEMMA LeastSet ==
    ASSUME NEW S, IsFiniteSet(S), NEW Bad \in SUBSET SUBSET S, Bad # {}
    PROVE  \E T \in Bad : \A x \in T : T \ {x} \notin Bad
<1>1. IsWellFoundedOn(StrictSubsetOrdering(S), FiniteSubsetsOf(S))
  BY FS_StrictSubsetOrderingWellFounded
<1>2. Bad \subseteq FiniteSubsetsOf(S)
  BY FS_FiniteSubsetsOfFinite
<1>3. PICK T \in Bad : \A U \in Bad : ~ (<<U, T>> \in StrictSubsetOrdering(S))
  BY <1>1, <1>2, WFMin
<1>4. ASSUME NEW x \in T, T \ {x} \in Bad
      PROVE  FALSE
  <2>1. T \in SUBSET S /\ T \ {x} \in SUBSET S /\ T \ {x} # T
    OBVIOUS
  <2>2. <<T \ {x}, T>> \in StrictSubsetOrdering(S)
    BY <2>1 DEF StrictSubsetOrdering
  <2>3. QED
    BY <1>3, <1>4, <2>2
<1>5. QED
  BY <1>4

\* g adds up the values of f over every subset of S, taking one element at a time.
Sums(f, S, g) ==
    g = [s \in SUBSET S |-> IF s = {} THEN 0
                            ELSE f[CHOOSE x \in s : TRUE] + g[s \ {CHOOSE x \in s : TRUE}]]

LEMMA SumIsChosen ==
    ASSUME NEW f, NEW S
    PROVE  SumFunctionOnSet(f, S) = (CHOOSE g : Sums(f, S, g))[S]
  BY DEF Sums, SumFunctionOnSet, FoldFunctionOnSet, MapThenFoldSet

LEMMA SumsUnique ==
    ASSUME NEW f, NEW S, IsFiniteSet(S), NEW g, NEW h, NEW U, S \subseteq U,
           Sums(f, S, g), Sums(f, U, h)
    PROVE  \A s \in SUBSET S : g[s] = h[s]
<1> DEFINE Bad == {s \in SUBSET S : g[s] # h[s]}
<1>1. SUFFICES ASSUME Bad # {}
               PROVE  FALSE
  OBVIOUS
<1>2. PICK s \in Bad : \A x \in s : s \ {x} \notin Bad
  <2>1. Bad \in SUBSET SUBSET S
    OBVIOUS
  <2> HIDE DEF Bad
  <2>2. QED
    BY <1>1, <2>1, LeastSet
<1> DEFINE c == CHOOSE x \in s : TRUE
<1>3. /\ g[s] = IF s = {} THEN 0 ELSE f[c] + g[s \ {c}]
      /\ h[s] = IF s = {} THEN 0 ELSE f[c] + h[s \ {c}]
  BY DEF Sums
<1>4. CASE s = {}
  BY <1>3, <1>4
<1>5. CASE s # {}
  <2>1. c \in s
    BY <1>5
  <2> HIDE DEF c
  <2>2. g[s \ {c}] = h[s \ {c}]
    BY <1>2, <2>1
  <2>3. QED
    BY <1>3, <1>5, <2>2
<1>6. QED
  BY <1>4, <1>5

\* Adding up can be done for every set up to a size, and so for the whole set.
LEMMA SumsExist ==
    ASSUME NEW f, NEW S, IsFiniteSet(S)
    PROVE  \E g : Sums(f, S, g)
<1> DEFINE c(s) == CHOOSE x \in s : TRUE
           Right(g, s) == g[s] = IF s = {} THEN 0 ELSE f[c(s)] + g[s \ {c(s)}]
           Bad == {n \in Nat : ~ \E g : /\ g = [s \in SUBSET S |-> g[s]]
                                        /\ \A s \in SUBSET S : Cardinality(s) <= n => Right(g, s)}
           R == {ss \in Nat \X Nat : ss[1] < ss[2]}
<1>1. \A s \in SUBSET S : IsFiniteSet(s) /\ Cardinality(s) \in Nat /\ Cardinality(s) <= Cardinality(S)
                          /\ (Cardinality(s) = 0 <=> s = {})
  BY FS_Subset, FS_CardinalityType, FS_EmptySet
<1>2. Bad = {}
  <2> SUFFICES ASSUME Bad # {}
               PROVE  FALSE
    OBVIOUS
  <2>1. IsWellFoundedOn(R, Nat)
    BY NatLessThanWellFounded DEF OpToRel
  <2>2. PICK n \in Bad : \A m \in Bad : ~ (<<m, n>> \in R)
    <3>1. Bad \subseteq Nat
      OBVIOUS
    <3> HIDE DEF Bad, R
    <3> QED
      BY <2>1, <3>1, WFMin
  <2>3. CASE n = 0
    <3> DEFINE g == [s \in SUBSET S |-> 0]
    <3>1. \A s \in SUBSET S : Cardinality(s) <= n => Right(g, s)
      <4> SUFFICES ASSUME NEW s \in SUBSET S, Cardinality(s) <= 0
                   PROVE  g[s] = IF s = {} THEN 0 ELSE f[c(s)] + g[s \ {c(s)}]
        BY <2>3
      <4>1. s = {}
        BY <1>1
      <4>2. QED
        BY <4>1
    <3>2. g = [s \in SUBSET S |-> g[s]]
      OBVIOUS
    <3> HIDE DEF g, Right
    <3>3. QED
      BY <3>1, <3>2
  <2>4. CASE n # 0
    <3>1. n \in Nat /\ n - 1 \in Nat /\ <<n - 1, n>> \in R
      BY <2>4
    <3>2. n - 1 \notin Bad
      BY <2>2, <3>1
    <3>3. PICK g : g = [s \in SUBSET S |-> g[s]]
                   /\ \A s \in SUBSET S : Cardinality(s) <= n - 1 => Right(g, s)
      BY <3>1, <3>2
    <3> DEFINE h == [s \in SUBSET S |-> IF s = {} THEN 0 ELSE f[c(s)] + g[s \ {c(s)}]]
    <3>4. ASSUME NEW s \in SUBSET S, Cardinality(s) <= n - 1
          PROVE  h[s] = g[s]
      BY <3>3, <3>4
    <3>5. ASSUME NEW s \in SUBSET S, Cardinality(s) <= n
          PROVE  Right(h, s)
      <4>1. CASE s = {}
        BY <4>1
      <4>2. CASE s # {}
        <5>1. c(s) \in s
          BY <4>2
        <5>2. Cardinality(s \ {c(s)}) = Cardinality(s) - 1 /\ s \ {c(s)} \in SUBSET S
          <6> HIDE DEF c
          <6> QED
            BY <1>1, <5>1, FS_RemoveElement
        <5>3. Cardinality(s \ {c(s)}) <= n - 1
          BY <1>1, <3>1, <3>5, <5>2
        <5>4. h[s \ {c(s)}] = g[s \ {c(s)}]
          BY <3>4, <5>2, <5>3
        <5>5. h[s] = f[c(s)] + g[s \ {c(s)}]
          BY <4>2
        <5> HIDE DEF h
        <5>6. QED
          BY <4>2, <5>4, <5>5
      <4>3. QED
        BY <4>1, <4>2
    <3>6. h = [s \in SUBSET S |-> h[s]]
      OBVIOUS
    <3> HIDE DEF h, Right
    <3>7. QED
      BY <3>5, <3>6
  <2>5. QED
    BY <2>3, <2>4
<1>3. PICK g : g = [s \in SUBSET S |-> g[s]]
               /\ \A s \in SUBSET S : Cardinality(s) <= Cardinality(S) => Right(g, s)
  <2>1. Cardinality(S) \in Nat
    BY FS_CardinalityType
  <2>2. Cardinality(S) \notin Bad
    BY <1>2
  <2> HIDE DEF Right
  <2>3. QED
    BY <2>1, <2>2
<1>4. \A s \in SUBSET S : Right(g, s)
  <2> HIDE DEF Right
  <2> QED
    BY <1>1, <1>3
<1>5. Sums(f, S, g)
  BY <1>3, <1>4 DEF Sums
<1>6. QED
  BY <1>5

LEMMA SumEmpty ==
    ASSUME NEW f
    PROVE  SumFunctionOnSet(f, {}) = 0
<1>1. PICK g : Sums(f, {}, g)
  BY SumsExist, FS_EmptySet
<1>2. Sums(f, {}, CHOOSE h : Sums(f, {}, h))
  BY <1>1
<1>3. SumFunctionOnSet(f, {}) = (CHOOSE h : Sums(f, {}, h))[{}]
  BY SumIsChosen
<1> DEFINE k == CHOOSE h : Sums(f, {}, h)
<1>4. Sums(f, {}, k)
  BY <1>2
<1> HIDE DEF k
<1>5. k[{}] = 0
  BY <1>4 DEF Sums
<1>6. QED
  BY <1>3, <1>5 DEF k

\* The sum over a set is the sum over the rest and one element, the one CHOOSE takes.
LEMMA SumOfChosen ==
    ASSUME NEW f, NEW S, IsFiniteSet(S), S # {}
    PROVE  LET c == CHOOSE x \in S : TRUE
           IN  SumFunctionOnSet(f, S) = f[c] + SumFunctionOnSet(f, S \ {c})
<1> DEFINE c == CHOOSE x \in S : TRUE
           T == S \ {c}
           g == CHOOSE k : Sums(f, S, k)
           h == CHOOSE k : Sums(f, T, k)
<1>1. c \in S /\ IsFiniteSet(T) /\ T \subseteq S
  BY FS_RemoveElement
<1>2. Sums(f, S, g) /\ Sums(f, T, h)
  BY <1>1, SumsExist
<1>3. SumFunctionOnSet(f, S) = g[S] /\ SumFunctionOnSet(f, T) = h[T]
  BY SumIsChosen
<1> HIDE DEF g, h
<1>4. h[T] = g[T]
  BY <1>1, <1>2, SumsUnique
<1>5. g[S] = f[c] + g[T]
  BY <1>2 DEF Sums
<1>6. QED
  BY <1>3, <1>4, <1>5

LEMMA SumNat ==
    ASSUME NEW S, IsFiniteSet(S), NEW f, \A x \in S : f[x] \in Nat
    PROVE  SumFunctionOnSet(f, S) \in Nat
<1> DEFINE Bad == {T \in SUBSET S : SumFunctionOnSet(f, T) \notin Nat}
<1> SUFFICES ASSUME Bad # {}
             PROVE  FALSE
  OBVIOUS
<1>1. PICK T \in Bad : \A x \in T : T \ {x} \notin Bad
  <2>1. Bad \in SUBSET SUBSET S
    OBVIOUS
  <2> HIDE DEF Bad
  <2>2. QED
    BY <2>1, LeastSet
<1>2. IsFiniteSet(T) /\ T \subseteq S /\ SumFunctionOnSet(f, T) \notin Nat
  BY FS_Subset
<1>3. T # {}
  BY <1>2, SumEmpty
<1> DEFINE c == CHOOSE x \in T : TRUE
<1>4. SumFunctionOnSet(f, T) = f[c] + SumFunctionOnSet(f, T \ {c})
  BY <1>2, <1>3, SumOfChosen
<1>5. c \in T
  BY <1>3
<1> HIDE DEF c
<1>6. SumFunctionOnSet(f, T \ {c}) \in Nat /\ f[c] \in Nat
  BY <1>1, <1>2, <1>5
<1>7. QED
  BY <1>2, <1>4, <1>6

\* The sum over a set is the sum over the rest and one element, whichever it is.
LEMMA SumWithout ==
    ASSUME NEW S, IsFiniteSet(S), NEW f, \A x \in S : f[x] \in Nat, NEW e \in S
    PROVE  SumFunctionOnSet(f, S) = f[e] + SumFunctionOnSet(f, S \ {e})
<1> DEFINE Sum(T) == SumFunctionOnSet(f, T)
           Bad == {T \in SUBSET S : \E x \in T : Sum(T) # f[x] + Sum(T \ {x})}
<1> SUFFICES ASSUME Bad # {}
             PROVE  FALSE
  OBVIOUS
<1>1. PICK T \in Bad : \A x \in T : T \ {x} \notin Bad
  <2>1. Bad \in SUBSET SUBSET S
    OBVIOUS
  <2> HIDE DEF Bad
  <2>2. QED
    BY <2>1, LeastSet
<1>2. \A U \in SUBSET S : IsFiniteSet(U) /\ Sum(U) \in Nat
  <2> SUFFICES ASSUME NEW U \in SUBSET S
               PROVE  IsFiniteSet(U) /\ Sum(U) \in Nat
    OBVIOUS
  <2>1. IsFiniteSet(U)
    BY FS_Subset
  <2>2. QED
    BY <2>1, SumNat
<1>3. PICK x \in T : Sum(T) # f[x] + Sum(T \ {x})
  OBVIOUS
<1> DEFINE c == CHOOSE y \in T : TRUE
<1>4. Sum(T) = f[c] + Sum(T \ {c})
  BY <1>2, <1>3, SumOfChosen
<1>5. c \in T /\ x \in T /\ T \in SUBSET S
  BY <1>3
<1> HIDE DEF c, Sum
<1>6. c # x
  BY <1>3, <1>4
<1>7. T \ {c} \notin Bad /\ T \ {x} \notin Bad
  BY <1>1, <1>5
<1>8. Sum(T \ {c}) = f[x] + Sum((T \ {c}) \ {x})
  BY <1>5, <1>6, <1>7
<1>9. Sum(T \ {x}) = f[c] + Sum((T \ {x}) \ {c})
  BY <1>5, <1>6, <1>7
<1>10. (T \ {c}) \ {x} = (T \ {x}) \ {c}
  OBVIOUS
<1>11. Sum((T \ {c}) \ {x}) = Sum((T \ {x}) \ {c})
  BY <1>10, Zenon
<1>12. f[x] \in Nat /\ f[c] \in Nat /\ Sum((T \ {c}) \ {x}) \in Nat
  BY <1>2, <1>5
<1>13. QED
  BY <1>3, <1>4, <1>8, <1>9, <1>11, <1>12

LEMMA SumSame ==
    ASSUME NEW S, IsFiniteSet(S), NEW f, NEW g, \A x \in S : f[x] = g[x]
    PROVE  SumFunctionOnSet(f, S) = SumFunctionOnSet(g, S)
<1> DEFINE Bad == {T \in SUBSET S : SumFunctionOnSet(f, T) # SumFunctionOnSet(g, T)}
<1> SUFFICES ASSUME Bad # {}
             PROVE  FALSE
  OBVIOUS
<1>1. PICK T \in Bad : \A x \in T : T \ {x} \notin Bad
  <2>1. Bad \in SUBSET SUBSET S
    OBVIOUS
  <2> HIDE DEF Bad
  <2>2. QED
    BY <2>1, LeastSet
<1>2. IsFiniteSet(T) /\ T \subseteq S /\ SumFunctionOnSet(f, T) # SumFunctionOnSet(g, T)
  BY FS_Subset
<1>3. T # {}
  BY <1>2, SumEmpty
<1> DEFINE c == CHOOSE x \in T : TRUE
<1>4. /\ SumFunctionOnSet(f, T) = f[c] + SumFunctionOnSet(f, T \ {c})
      /\ SumFunctionOnSet(g, T) = g[c] + SumFunctionOnSet(g, T \ {c})
  BY <1>2, <1>3, SumOfChosen
<1>5. c \in T
  BY <1>3
<1> HIDE DEF c
<1>6. SumFunctionOnSet(f, T \ {c}) = SumFunctionOnSet(g, T \ {c}) /\ f[c] = g[c]
  BY <1>1, <1>2, <1>5
<1>7. QED
  BY <1>2, <1>4, <1>6

\* What one element adds to a sum, when the rest stays as it was.
LEMMA SumChange ==
    ASSUME NEW I, IsFiniteSet(I), NEW f, NEW g, \A x \in I : f[x] \in Nat /\ g[x] \in Nat,
           NEW S \in SUBSET I, NEW T \in SUBSET I, NEW e \in I,
           S \ {e} = T \ {e}, \A x \in S \ {e} : f[x] = g[x]
    PROVE  /\ SumFunctionOnSet(f, S) \in Nat /\ SumFunctionOnSet(g, T) \in Nat
           /\ SumFunctionOnSet(g, T) + (IF e \in S THEN f[e] ELSE 0)
                = SumFunctionOnSet(f, S) + (IF e \in T THEN g[e] ELSE 0)
<1> DEFINE U == S \ {e}
<1>1. IsFiniteSet(S) /\ IsFiniteSet(T) /\ IsFiniteSet(U)
  BY FS_Subset
<1>2. SumFunctionOnSet(f, S) \in Nat /\ SumFunctionOnSet(g, T) \in Nat
      /\ SumFunctionOnSet(f, U) \in Nat
  BY <1>1, SumNat
<1>3. SumFunctionOnSet(f, U) = SumFunctionOnSet(g, U)
  BY <1>1, SumSame
<1>4. SumFunctionOnSet(f, S) = (IF e \in S THEN f[e] ELSE 0) + SumFunctionOnSet(f, U)
  <2>1. CASE e \in S
    BY <1>1, <2>1, SumWithout
  <2>2. CASE e \notin S
    <3>1. S = U
      BY <2>2
    <3>2. SumFunctionOnSet(f, S) = SumFunctionOnSet(f, U)
      BY <3>1, Zenon
    <3>3. QED
      BY <1>2, <2>2, <3>2
  <2>3. QED
    BY <2>1, <2>2
<1>5. SumFunctionOnSet(g, T) = (IF e \in T THEN g[e] ELSE 0) + SumFunctionOnSet(g, U)
  <2>1. T \ {e} = U
    OBVIOUS
  <2>2. CASE e \in T
    <3>1. SumFunctionOnSet(g, T) = g[e] + SumFunctionOnSet(g, T \ {e})
      BY <1>1, <2>2, SumWithout
    <3>2. SumFunctionOnSet(g, T \ {e}) = SumFunctionOnSet(g, U)
      BY <2>1, Zenon
    <3>3. QED
      BY <2>2, <3>1, <3>2
  <2>3. CASE e \notin T
    <3>1. T = U
      BY <2>1, <2>3
    <3>2. SumFunctionOnSet(g, T) = SumFunctionOnSet(g, U)
      BY <3>1, Zenon
    <3>3. QED
      BY <1>2, <2>3, <3>2
  <2>4. QED
    BY <2>2, <2>3
<1>6. \A x \in I : f[x] \in Nat /\ g[x] \in Nat
  OBVIOUS
<1> HIDE DEF U
<1>7. QED
  BY <1>2, <1>3, <1>4, <1>5, <1>6
----------------------------------------------------------------------------
\* Types and locks

LEMMA BaseImpliesTypeOK == BaseInv /\ RacedTyped => TypeOK
<1> SUFFICES ASSUME BaseInv, RacedTyped
             PROVE  TypeOK
  OBVIOUS
<1>1. \A t \in Txs : ToSet(found[t]) \subseteq Products
  <2> SUFFICES ASSUME NEW t \in Txs
               PROVE  ToSet(found[t]) \subseteq Products
    OBVIOUS
  <2>1. found[t] \in Seq(Products)
    BY DEF BaseInv, ControlTyped
  <2>2. DOMAIN found[t] = 1..Len(found[t])
    BY <2>1, LenProperties
  <2>3. QED
    BY <2>1, <2>2, ElementOfSeq DEF ToSet
<1>2. QED
  BY <1>1 DEF BaseInv, CommittedTyped, ControlTyped, LocksTyped, RacedTyped, TypeOK

LEMMA RacedStep == BaseInv /\ RacedTyped /\ [Next]_vars => RacedTyped'
<1> SUFFICES ASSUME BaseInv, RacedTyped, [Next]_vars
             PROVE  RacedTyped'
  OBVIOUS
<1>1. ASSUME NEW t \in Txs, NEW c \in Arriving, Begin(t, c)
      PROVE  RacedTyped'
  <2>1. c.order \in Orders
    BY ArrivingAssumption DEF Call, Request, OrderEvent
  <2>2. raced' \subseteq raced \cup {c.order}
    BY <1>1 DEF Begin
  <2>3. QED
    BY <2>1, <2>2 DEF RacedTyped
<1>2. ASSUME NEW t \in Txs, Statement(t) \/ Fail(t) \/ DeadlockVictim(t)
      PROVE  raced' = raced
  <2>1. CASE Rollback(t)
    BY <2>1 DEF Rollback
  <2>2. CASE Fail(t) \/ DeadlockVictim(t)
    BY <2>1, <2>2 DEF Fail, DeadlockVictim
  <2>3. CASE MarkProcessed(t) \/ CheckDuplicate(t) \/ TakeStock(t) \/ InsertReservation(t)
    BY <2>1, <2>3 DEF MarkProcessed, CheckDuplicate, TakeStock, InsertReservation
  <2>4. CASE SelectReserved(t) \/ UpdateCounters(t) \/ MarkRows(t) \/ Commit(t)
    BY <2>1, <2>4 DEF SelectReserved, UpdateCounters, MarkRows, Commit
  <2>5. QED
    BY <1>2, <2>2, <2>3, <2>4 DEF Statement
<1>3. CASE UNCHANGED vars
  BY <1>3 DEF vars, RacedTyped
<1>4. QED
  BY <1>1, <1>2, <1>3 DEF Next, RacedTyped

LEMMA NoWritesTyped ==
    /\ NoWrites \in Writes
    /\ \A p \in Products : /\ NoWrites.available[p] = 0 /\ NoWrites.reserved[p] = 0
                           /\ NoWrites.row[p] = "none" /\ NoWrites.held[p] = 0
                           /\ NoWrites.moved[p] = 0
  BY DEF NoWrites, Writes, ReservationStatus

LEMMA BaseInit == Init => BaseInv
<1> SUFFICES ASSUME Init
             PROVE  BaseInv
  OBVIOUS
<1>1. CommittedTyped
  BY InitialAssumption DEF Init, CommittedTyped, ReservationStatus, InventoryEventType, MovementType
<1>2. ControlTyped
  BY DEF Init, ControlTyped, ToSet
<1>3. LocksTyped
  BY DEF Init, LocksTyped
<1>4. TxTyped
  BY NoWritesTyped DEF Init, TxTyped, Writes
<1>5. CallInv
  BY DEF Init, CallInv
<1>6. LockInv
  <2>1. \A t \in Txs : tx[t] = NoWrites
    BY DEF Init
  <2>2. \A p \in Products : available[p] \in Nat /\ reserved[p] \in Nat
    BY <1>1 DEF CommittedTyped
  <2>3. QED
    BY <2>1, <2>2, NoWritesTyped DEF LockInv
<1>7. QED
  BY <1>1, <1>2, <1>3, <1>4, <1>5, <1>6 DEF BaseInv

\* A goroutine that is at work serves a call.
LEMMA CallTyped ==
    ASSUME ControlTyped, NEW t \in Txs, pc[t] # "idle"
    PROVE  /\ call[t] \in Call /\ call[t].order \in Orders
           /\ Lines[call[t].order] \in Seq([product : Products, quantity : Nat \ {0}])
           /\ Len(Lines[call[t].order]) \in Nat
           /\ DOMAIN Lines[call[t].order] = 1..Len(Lines[call[t].order])
<1>1. call[t] \in Call
  BY DEF ControlTyped
<1>2. call[t].order \in Orders
  BY <1>1 DEF Call, Request, OrderEvent
<1>3. Lines[call[t].order] \in Seq([product : Products, quantity : Nat \ {0}])
  BY <1>2, LinesAssumption
<1>4. QED
  BY <1>1, <1>2, <1>3, LenProperties

LEMMA LineTyped ==
    ASSUME NEW o \in Orders, NEW i \in DOMAIN Lines[o]
    PROVE  Lines[o][i].product \in Products /\ Lines[o][i].quantity \in Nat \ {0}
           /\ Lines[o][i] \in [product : Products, quantity : Nat \ {0}]
<1>1. Lines[o] \in Seq([product : Products, quantity : Nat \ {0}])
  BY LinesAssumption
<1>2. DOMAIN Lines[o] = 1..Len(Lines[o])
  BY <1>1, LenProperties
<1>3. Lines[o][i] \in [product : Products, quantity : Nat \ {0}]
  BY <1>1, <1>2, ElementOfSeq
<1>4. QED
  BY <1>3

\* What the first line that names a product asks for.
LEMMA NamedIsAsked ==
    ASSUME NEW o \in Orders, NEW p, NEW q, Named(o, p, q)
    PROVE  Asked(o, p) /\ q \in Nat \ {0}
<1>1. PICK i \in FirstLines(o, p) : Lines[o][i].quantity = q
  BY DEF Named
<1>2. i \in DOMAIN Lines[o] /\ Lines[o][i].product = p
  BY DEF FirstLines
<1>3. QED
  BY <1>1, <1>2, LineTyped DEF Asked

\* Steps that change neither rows, locks nor writes.
LEMMA BaseControl ==
    ASSUME BaseInv, ControlTyped', CallInv', UNCHANGED <<committed, tx, locks>>,
           \A t \in Txs : pc[t] # "idle" => call'[t] = call[t]
    PROVE  BaseInv'
<1>1. CommittedTyped' /\ LocksTyped' /\ TxTyped'
  BY DEF BaseInv, CommittedTyped, LocksTyped, TxTyped, Writes, committed, locks
<1>2. LockInv'
  <2> SUFFICES ASSUME NEW t \in Txs, NEW p \in Products
               PROVE  /\ tx[t].available[p] # 0 \/ tx[t].reserved[p] # 0 => invLock[p] = t
                      /\ available[p] + tx[t].available[p] >= 0
                      /\ reserved[p] + tx[t].reserved[p] >= 0
                      /\ tx[t].row[p] # "none" => rowLock[call'[t].order][p] = t
    BY DEF LockInv, committed, locks
  <2>1. tx[t].row[p] # "none" => pc[t] # "idle"
    BY NoWritesTyped DEF BaseInv, CallInv
  <2>2. QED
    BY <2>1 DEF BaseInv, LockInv
<1>3. QED
  BY <1>1, <1>2 DEF BaseInv

LEMMA BaseBegin ==
    ASSUME BaseInv, NEW t \in Txs, NEW c \in Call, Begin(t, c)
    PROVE  BaseInv'
<1> DEFINE l == CASE c.op = "reserve" -> "check"
                  [] c.op = "release" -> "select"
                  [] c \in OrderEvent -> "mark_processed"
<1>1. c \in OrderEvent <=> c.op \notin {"reserve", "release"}
  BY DEF Call, Request, OrderEvent
<1>2. /\ l \in {"check", "select", "mark_processed"}
      /\ l = "check" <=> c.op = "reserve"
      /\ l = "mark_processed" <=> c \in OrderEvent
  BY <1>1
<1>3. pc' = [pc EXCEPT ![t] = l] /\ call' = [call EXCEPT ![t] = c] /\ pc[t] = "idle"
  BY DEF Begin, Goto
<1> HIDE DEF l
<1>4. c # NoCall
  BY NoneAssumption
<1>5. ControlTyped'
  BY <1>2, <1>3, <1>4 DEF Begin, BaseInv, ControlTyped
<1>6. CallInv'
  <2>1. /\ pc \in [Txs -> {"idle", "mark_processed", "check", "take", "insert",
                           "select", "update", "commit"}]
        /\ call \in [Txs -> Call \cup {NoCall}]
    BY DEF BaseInv, ControlTyped
  <2>2. \A u \in Txs : /\ pc'[u] = IF u = t THEN l ELSE pc[u]
                       /\ call'[u] = IF u = t THEN c ELSE call[u]
    BY <1>3, <2>1
  <2>3. UNCHANGED <<line, found, todo, tx>>
    BY DEF Begin
  <2>4. QED
    BY <1>2, <1>3, <2>2, <2>3 DEF BaseInv, CallInv
<1>7. QED
  BY <1>3, <1>5, <1>6, BaseControl DEF Begin, BaseInv, ControlTyped

LEMMA BaseEndTx ==
    ASSUME BaseInv, NEW t \in Txs, EndTx(t), CommittedTyped',
           \A u \in Txs \ {t}, p \in Products :
               /\ available'[p] + tx[u].available[p] >= 0
               /\ reserved'[p] + tx[u].reserved[p] >= 0
    PROVE  BaseInv'
<1>0. /\ ControlTyped /\ LocksTyped /\ TxTyped /\ CallInv /\ LockInv /\ CommittedTyped
      /\ NoCall \notin Call /\ Nobody \notin Txs
  BY NoneAssumption DEF BaseInv
<1>1. /\ pc' = [pc EXCEPT ![t] = "idle"] /\ call' = [call EXCEPT ![t] = NoCall]
      /\ line' = [line EXCEPT ![t] = 1] /\ found' = [found EXCEPT ![t] = <<>>]
      /\ todo' = [todo EXCEPT ![t] = <<>>] /\ tx' = [tx EXCEPT ![t] = NoWrites]
  BY DEF EndTx, Goto
<1>2. /\ \A u \in Txs : /\ pc'[u] = IF u = t THEN "idle" ELSE pc[u]
                        /\ call'[u] = IF u = t THEN NoCall ELSE call[u]
                        /\ line'[u] = IF u = t THEN 1 ELSE line[u]
                        /\ found'[u] = IF u = t THEN <<>> ELSE found[u]
                        /\ todo'[u] = IF u = t THEN <<>> ELSE todo[u]
      /\ \A u \in Txs : tx'[u] = IF u = t THEN NoWrites ELSE tx[u]
  BY <1>0, <1>1 DEF ControlTyped, TxTyped, Writes
<1>3. ControlTyped'
  <2>1. /\ pc' \in [Txs -> {"idle", "mark_processed", "check", "take", "insert",
                           "select", "update", "commit"}]
        /\ call' \in [Txs -> Call \cup {NoCall}]
        /\ line' \in [Txs -> Nat \ {0}]
        /\ found' \in [Txs -> Seq(Products)] /\ todo' \in [Txs -> Seq(Products)]
    BY <1>0, <1>1 DEF ControlTyped
  <2>2. \A u \in Txs : call'[u] = NoCall <=> pc'[u] = "idle"
    BY <1>0, <1>2 DEF ControlTyped
  <2>3. \A u \in Txs : ToSet(todo'[u]) \subseteq ToSet(found'[u])
    BY <1>0, <1>2 DEF ControlTyped
  <2>4. QED
    BY <2>1, <2>2, <2>3 DEF ControlTyped
<1>4. TxTyped'
  BY <1>0, <1>1, NoWritesTyped DEF TxTyped, Writes
<1>5. LocksTyped'
  BY <1>0 DEF EndTx, LocksTyped
<1>6. CallInv'
  <2> SUFFICES ASSUME NEW u \in Txs
               PROVE  /\ pc'[u] \in {"check", "take", "insert"} => call'[u].op = "reserve"
                      /\ pc'[u] \in {"mark_processed", "select", "update"} => call'[u].op # "reserve"
                      /\ pc'[u] = "mark_processed" => call'[u] \in OrderEvent
                      /\ pc'[u] \in {"idle", "mark_processed", "select"} =>
                           tx'[u] = NoWrites /\ line'[u] = 1 /\ found'[u] = <<>> /\ todo'[u] = <<>>
                      /\ pc'[u] \in {"take", "insert"} => line'[u] \in DOMAIN Lines[call'[u].order]
    BY DEF CallInv
  <2>1. CASE u = t
    BY <1>2, <2>1
  <2>2. CASE u # t
    BY <1>0, <1>2, <2>2 DEF CallInv
  <2>3. QED
    BY <2>1, <2>2
<1>7. LockInv'
  <2> SUFFICES ASSUME NEW u \in Txs, NEW p \in Products
               PROVE  /\ tx'[u].available[p] # 0 \/ tx'[u].reserved[p] # 0 => invLock'[p] = u
                      /\ available'[p] + tx'[u].available[p] >= 0
                      /\ reserved'[p] + tx'[u].reserved[p] >= 0
                      /\ tx'[u].row[p] # "none" => rowLock'[call'[u].order][p] = u
    BY DEF LockInv
  <2>1. CASE u = t
    BY <1>2, <2>1, NoWritesTyped DEF CommittedTyped
  <2>2. CASE u # t
    <3>1. tx'[u] = tx[u] /\ call'[u] = call[u]
      BY <1>2, <2>2
    <3>2. tx[u].available[p] # 0 \/ tx[u].reserved[p] # 0 => invLock'[p] = u
      BY <1>0, <2>2 DEF LockInv, EndTx
    <3>3. tx[u].row[p] # "none" => rowLock'[call[u].order][p] = u
      <4> SUFFICES ASSUME tx[u].row[p] # "none"
                   PROVE  rowLock'[call[u].order][p] = u
        OBVIOUS
      <4>1. pc[u] # "idle"
        BY <1>0, NoWritesTyped DEF CallInv
      <4>2. call[u].order \in Orders
        BY <1>0, <4>1, CallTyped
      <4>3. rowLock[call[u].order][p] = u
        BY <1>0 DEF LockInv
      <4>4. QED
        BY <2>2, <4>2, <4>3 DEF EndTx
    <3>4. QED
      BY <2>2, <3>1, <3>2, <3>3
  <2>3. QED
    BY <2>1, <2>2
<1>8. QED
  BY <1>3, <1>4, <1>5, <1>6, <1>7 DEF BaseInv

LEMMA BaseRollback ==
    ASSUME BaseInv, NEW t \in Txs, Rollback(t)
    PROVE  BaseInv'
<1>1. EndTx(t) /\ UNCHANGED committed
  BY DEF Rollback
<1>2. CommittedTyped'
  BY <1>1 DEF BaseInv, CommittedTyped, committed
<1>3. \A u \in Txs \ {t}, p \in Products :
          /\ available'[p] + tx[u].available[p] >= 0
          /\ reserved'[p] + tx[u].reserved[p] >= 0
  BY <1>1 DEF BaseInv, LockInv, committed
<1>4. QED
  BY <1>1, <1>2, <1>3, BaseEndTx

\* The counters a transaction did not change are those it did not lock.
LEMMA CountersAfterCommit ==
    ASSUME BaseInv, NEW t \in Txs, Commit(t), NEW p \in Products
    PROVE  /\ available'[p] = available[p] + tx[t].available[p] /\ available'[p] \in Nat
           /\ reserved'[p] = reserved[p] + tx[t].reserved[p] /\ reserved'[p] \in Nat
           /\ \A u \in Txs \ {t} : /\ available'[p] + tx[u].available[p] >= 0
                                   /\ reserved'[p] + tx[u].reserved[p] >= 0
<1>0. /\ available[p] \in Nat /\ reserved[p] \in Nat
      /\ \A u \in Txs : tx[u].available[p] \in Int /\ tx[u].reserved[p] \in Int
  BY DEF BaseInv, CommittedTyped, TxTyped, Writes
<1>1. /\ available'[p] = available[p] + tx[t].available[p]
      /\ reserved'[p] = reserved[p] + tx[t].reserved[p]
  BY DEF Commit
<1>2. available'[p] \in Nat /\ reserved'[p] \in Nat
  BY <1>0, <1>1 DEF BaseInv, LockInv
<1>3. ASSUME NEW u \in Txs \ {t}
      PROVE  /\ available'[p] + tx[u].available[p] >= 0
             /\ reserved'[p] + tx[u].reserved[p] >= 0
  <2>1. CASE invLock[p] = t
    <3>1. tx[u].available[p] = 0 /\ tx[u].reserved[p] = 0
      BY <2>1 DEF BaseInv, LockInv
    <3>2. QED
      BY <1>2, <3>1
  <2>2. CASE invLock[p] # t
    <3>1. tx[t].available[p] = 0 /\ tx[t].reserved[p] = 0
      BY <2>2 DEF BaseInv, LockInv
    <3>2. available[p] + tx[u].available[p] >= 0 /\ reserved[p] + tx[u].reserved[p] >= 0
      BY DEF BaseInv, LockInv
    <3>3. QED
      BY <1>0, <1>1, <3>1, <3>2
  <2>3. QED
    BY <2>1, <2>2
<1>4. QED
  BY <1>1, <1>2, <1>3

LEMMA BaseCommit ==
    ASSUME BaseInv, NEW t \in Txs, Commit(t)
    PROVE  BaseInv'
<1>0. ControlTyped /\ CommittedTyped /\ TxTyped /\ pc[t] = "commit"
  BY DEF BaseInv, Commit
<1>1. call[t] \in Call /\ call[t].order \in Orders
  BY <1>0, CallTyped
<1>2. available' \in [Products -> Nat] /\ reserved' \in [Products -> Nat]
  <2>1. \A p \in Products : available'[p] \in Nat /\ reserved'[p] \in Nat
    BY CountersAfterCommit
  <2>2. QED
    BY <2>1 DEF Commit
<1>3. row' \in [Orders -> [Products -> ReservationStatus]]
  BY <1>0, <1>1 DEF Commit, CommittedTyped, TxTyped, Writes
<1>4. held' \in [Orders -> [Products -> Nat]]
  BY <1>0, <1>1 DEF Commit, CommittedTyped, TxTyped, Writes
<1>5. processed' \subseteq OrderEvent
  BY <1>0 DEF Commit, CommittedTyped
<1>6. announced' \in [Orders -> [InventoryEventType -> Nat]]
  <2> DEFINE A == Announce(t)
  <2>1. announced' = [announced EXCEPT ![call[t].order] = [type \in InventoryEventType |->
                        IF type \in A THEN @[type] + 1 ELSE @[type]]]
    BY DEF Commit
  <2> HIDE DEF A
  <2>2. QED
    BY <1>0, <1>1, <2>1 DEF CommittedTyped
<1>10. moved' \in [Orders -> [MovementType -> [Products -> Nat]]]
  <2> DEFINE m == Movement(call[t])
  <2>1. m \in MovementType
    BY DEF Movement, MovementType
  <2>2. moved' = [moved EXCEPT ![call[t].order][m] = [p \in Products |-> @[p] + tx[t].moved[p]]]
    BY DEF Commit
  <2> HIDE DEF m
  <2>3. [p \in Products |-> moved[call[t].order][m][p] + tx[t].moved[p]] \in [Products -> Nat]
    BY <1>0, <1>1, <2>1 DEF CommittedTyped, TxTyped, Writes
  <2>4. QED
    BY <1>0, <1>1, <2>1, <2>2, <2>3 DEF CommittedTyped
<1>7. CommittedTyped'
  BY <1>2, <1>3, <1>4, <1>5, <1>6, <1>10 DEF CommittedTyped
<1>8. EndTx(t)
  BY DEF Commit
<1>9. QED
  BY <1>7, <1>8, CountersAfterCommit, BaseEndTx

\* A step of one goroutine between two of its statements.
LEMMA BaseGoto ==
    ASSUME BaseInv, NEW t \in Txs, pc[t] # "idle", UNCHANGED <<committed, call, tx, locks>>,
           NEW l \in {"check", "take", "select", "update", "commit"}, pc' = [pc EXCEPT ![t] = l],
           NEW n \in Nat \ {0}, line' = [line EXCEPT ![t] = n],
           NEW s \in Seq(Products), found' = [found EXCEPT ![t] = s],
           NEW d \in Seq(Products), todo' = [todo EXCEPT ![t] = d], ToSet(d) \subseteq ToSet(s),
           l \in {"check", "take"} => call[t].op = "reserve",
           l \in {"select", "update"} => call[t].op # "reserve",
           l = "select" => tx[t] = NoWrites /\ n = 1 /\ s = <<>> /\ d = <<>>,
           l = "take" => n \in DOMAIN Lines[call[t].order]
    PROVE  BaseInv'
<1>0. ControlTyped /\ CallInv
  BY DEF BaseInv
<1>1. \A u \in Txs : /\ pc'[u] = IF u = t THEN l ELSE pc[u]
                     /\ line'[u] = IF u = t THEN n ELSE line[u]
                     /\ found'[u] = IF u = t THEN s ELSE found[u]
                     /\ todo'[u] = IF u = t THEN d ELSE todo[u]
  BY <1>0 DEF ControlTyped
<1>2. ControlTyped'
  <2>1. /\ pc' \in [Txs -> {"idle", "mark_processed", "check", "take", "insert",
                           "select", "update", "commit"}]
        /\ call' \in [Txs -> Call \cup {NoCall}]
        /\ line' \in [Txs -> Nat \ {0}]
        /\ found' \in [Txs -> Seq(Products)] /\ todo' \in [Txs -> Seq(Products)]
    BY <1>0 DEF ControlTyped
  <2>2. \A u \in Txs : call'[u] = NoCall <=> pc'[u] = "idle"
    BY <1>0, <1>1 DEF ControlTyped
  <2>3. \A u \in Txs : ToSet(todo'[u]) \subseteq ToSet(found'[u])
    BY <1>0, <1>1 DEF ControlTyped
  <2>4. QED
    BY <2>1, <2>2, <2>3 DEF ControlTyped
<1>3. CallInv'
  <2> SUFFICES ASSUME NEW u \in Txs
               PROVE  /\ pc'[u] \in {"check", "take", "insert"} => call[u].op = "reserve"
                      /\ pc'[u] \in {"mark_processed", "select", "update"} => call[u].op # "reserve"
                      /\ pc'[u] = "mark_processed" => call[u] \in OrderEvent
                      /\ pc'[u] \in {"idle", "mark_processed", "select"} =>
                           tx[u] = NoWrites /\ line'[u] = 1 /\ found'[u] = <<>> /\ todo'[u] = <<>>
                      /\ pc'[u] \in {"take", "insert"} => line'[u] \in DOMAIN Lines[call[u].order]
    BY DEF CallInv
  <2>1. CASE u = t
    BY <1>1, <2>1
  <2>2. CASE u # t
    BY <1>0, <1>1, <2>2 DEF CallInv
  <2>3. QED
    BY <2>1, <2>2
<1>4. QED
  BY <1>2, <1>3, BaseControl

LEMMA EmptyTyped == <<>> \in Seq(Products) /\ ToSet(<<>>) = {}
  BY DEF ToSet

\* What stays of a function that changes nowhere.
LEMMA ControlSame ==
    ASSUME ControlTyped, NEW t \in Txs
    PROVE  /\ line = [line EXCEPT ![t] = line[t]] /\ found = [found EXCEPT ![t] = found[t]]
           /\ todo = [todo EXCEPT ![t] = todo[t]] /\ pc = [pc EXCEPT ![t] = pc[t]]
           /\ line[t] \in Nat \ {0} /\ found[t] \in Seq(Products) /\ todo[t] \in Seq(Products)
           /\ ToSet(todo[t]) \subseteq ToSet(found[t])
  BY DEF ControlTyped

LEMMA BaseMarkProcessed ==
    ASSUME BaseInv, NEW t \in Txs, MarkProcessed(t)
    PROVE  BaseInv'
<1>1. CASE Rollback(t)
  BY <1>1, BaseRollback
<1>2. CASE Goto(t, "select") /\ UNCHANGED <<committed, progress, tx, locks>>
  <2>1. ControlTyped /\ pc[t] = "mark_processed"
    BY DEF BaseInv, MarkProcessed
  <2>2. call[t].op # "reserve" /\ tx[t] = NoWrites /\ line[t] = 1 /\ found[t] = <<>> /\ todo[t] = <<>>
    BY <2>1 DEF BaseInv, CallInv
  <2>3. /\ pc' = [pc EXCEPT ![t] = "select"] /\ line' = [line EXCEPT ![t] = 1]
        /\ found' = [found EXCEPT ![t] = <<>>] /\ todo' = [todo EXCEPT ![t] = <<>>]
    BY <1>2, <2>1, <2>2, ControlSame DEF Goto, progress
  <2>4. UNCHANGED <<committed, call, tx, locks>>
    BY <1>2 DEF progress
  <2>5. <<>> \in Seq(Products) /\ ToSet(<<>>) \subseteq ToSet(<<>>) /\ 1 \in Nat \ {0}
        /\ pc[t] # "idle" /\ "select" \in {"check", "take", "select", "update", "commit"}
    BY <2>1, EmptyTyped
  <2>6. QED
    BY <2>2, <2>3, <2>4, <2>5, BaseGoto
<1>3. QED
  BY <1>1, <1>2 DEF MarkProcessed

LEMMA BaseCheckDuplicate ==
    ASSUME BaseInv, NEW t \in Txs, CheckDuplicate(t)
    PROVE  BaseInv'
<1>0. ControlTyped /\ pc[t] = "check" /\ UNCHANGED <<committed, call, tx, locks>>
      /\ found' = found /\ todo' = todo
  BY DEF BaseInv, CheckDuplicate
<1>1. call[t].op = "reserve"
  BY <1>0 DEF BaseInv, CallInv
<1>2. \/ pc' = [pc EXCEPT ![t] = "commit"] /\ line' = line
      \/ line' = [line EXCEPT ![t] = @ + 1] /\ pc' = pc
      \/ pc' = [pc EXCEPT ![t] = "take"] /\ line' = line /\ line[t] <= Len(Lines[call[t].order])
  BY DEF CheckDuplicate, Goto
<1>3. line[t] + 1 \in Nat \ {0} /\ line[t] \in Nat \ {0}
  BY <1>0, ControlSame
<1>4. line[t] <= Len(Lines[call[t].order]) => line[t] \in DOMAIN Lines[call[t].order]
  BY <1>0, <1>3, CallTyped
<1>5. CASE pc' = [pc EXCEPT ![t] = "commit"] /\ line' = line
  BY <1>0, <1>1, <1>3, <1>5, ControlSame, BaseGoto
<1>6. CASE line' = [line EXCEPT ![t] = @ + 1] /\ pc' = pc
  <2>1. pc' = [pc EXCEPT ![t] = "check"]
    BY <1>0, <1>6, ControlSame
  <2>2. QED
    BY <1>0, <1>1, <1>3, <1>6, <2>1, ControlSame, BaseGoto
<1>7. CASE pc' = [pc EXCEPT ![t] = "take"] /\ line' = line /\ line[t] <= Len(Lines[call[t].order])
  BY <1>0, <1>1, <1>3, <1>4, <1>7, ControlSame, BaseGoto
<1>8. QED
  BY <1>2, <1>5, <1>6, <1>7

\* The order of the rows a query returns is one of a set of sequences without
\* repetitions.
LEMMA QueryResult ==
    ASSUME NEW S \in SUBSET Products, NEW s \in SetToSeqs(S)
    PROVE  /\ s \in Seq(Products) /\ ToSet(s) = S
           /\ \A i, j \in DOMAIN s : s[i] = s[j] => i = j
<1> DEFINE n == Cardinality(S)
<1>1. IsFiniteSet(S) /\ n \in Nat
  BY FiniteAssumption, FS_Subset, FS_CardinalityType
<1>2. s \in [1..n -> S] /\ \A i, j \in 1..n : i # j => s[i] # s[j]
  BY DEF SetToSeqs
<1> HIDE DEF n
<1>3. s \in Seq(Products)
  BY <1>1, <1>2
<1>4. s \in Injection(1..n, S)
  BY <1>2 DEF Injection, IsInjective
<1>5. IsFiniteSet(1..n) /\ Cardinality(1..n) = n
  BY <1>1, FS_Interval
<1>6. s \in Surjection(1..n, S)
  BY <1>1, <1>4, <1>5, FS_Injection DEF n
<1>7. \A x \in S : \E i \in 1..n : s[i] = x
  BY <1>6 DEF Surjection
<1>8. DOMAIN s = 1..n
  BY <1>2
<1>9. ToSet(s) = S
  BY <1>2, <1>7, <1>8 DEF ToSet
<1>10. QED
  BY <1>2, <1>3, <1>8, <1>9

LEMMA BaseSelectReserved ==
    ASSUME BaseInv, NEW t \in Txs, SelectReserved(t)
    PROVE  BaseInv'
<1> DEFINE S == {p \in Products : row[call[t].order][p] = "reserved"}
<1>0. ControlTyped /\ pc[t] = "select" /\ UNCHANGED <<committed, call, tx, locks>>
      /\ line' = line /\ pc' = [pc EXCEPT ![t] = "update"]
  BY DEF BaseInv, SelectReserved, Goto
<1>1. call[t].op # "reserve"
  BY <1>0 DEF BaseInv, CallInv
<1>2. PICK s \in SetToSeqs(S) : found' = [found EXCEPT ![t] = s] /\ todo' = [todo EXCEPT ![t] = s]
  BY DEF SelectReserved
<1>3. s \in Seq(Products)
  BY QueryResult
<1> HIDE DEF S
<1>4. QED
  BY <1>0, <1>1, <1>2, <1>3, ControlSame, BaseGoto

\* t changes the counters of p by da and dr units, and moves dm.
CountersWritten(t, p, da, dr, dm) ==
    /\ TxTyped'
    /\ \A u \in Txs \ {t} : tx'[u] = tx[u]
    /\ tx'[t].row = tx[t].row /\ tx'[t].held = tx[t].held
    /\ \A x \in Products :
         /\ tx'[t].available[x] = tx[t].available[x] + (IF x = p THEN da ELSE 0)
         /\ tx'[t].reserved[x] = tx[t].reserved[x] + (IF x = p THEN dr ELSE 0)
         /\ tx'[t].moved[x] = tx[t].moved[x] + (IF x = p THEN dm ELSE 0)

LEMMA CountersChange ==
    ASSUME TxTyped, NEW t \in Txs, NEW p \in Products, NEW da \in Int, NEW dr \in Int,
           NEW dm \in Nat, AddToCounters(t, p, da, dr, dm)
    PROVE  CountersWritten(t, p, da, dr, dm)
<1> DEFINE a == [tx[t].available EXCEPT ![p] = @ + da]
           r == [tx[t].reserved EXCEPT ![p] = @ + dr]
           m == [tx[t].moved EXCEPT ![p] = @ + dm]
           w == [available |-> a, reserved |-> r, row |-> tx[t].row, held |-> tx[t].held,
                 moved |-> m]
<1>1. /\ tx[t] \in Writes /\ tx \in [Txs -> Writes]
      /\ tx[t].available \in [Products -> Int] /\ tx[t].reserved \in [Products -> Int]
      /\ tx[t].moved \in [Products -> Nat]
  BY DEF TxTyped, Writes
<1>2. a \in [Products -> Int] /\ r \in [Products -> Int] /\ m \in [Products -> Nat]
  BY <1>1
<1>3. \A x \in Products : /\ a[x] = tx[t].available[x] + (IF x = p THEN da ELSE 0)
                          /\ r[x] = tx[t].reserved[x] + (IF x = p THEN dr ELSE 0)
                          /\ m[x] = tx[t].moved[x] + (IF x = p THEN dm ELSE 0)
  BY <1>1
<1>4. tx' = [tx EXCEPT ![t] = [tx[t] EXCEPT !.available = a, !.reserved = r, !.moved = m]]
  BY DEF AddToCounters
<1> HIDE DEF a, r, m
<1>5. tx'[t] = w
  BY <1>1, <1>4 DEF Writes
<1>6. w \in Writes
  BY <1>1, <1>2 DEF Writes
<1>7. tx' = [tx EXCEPT ![t] = w]
  BY <1>1, <1>4, <1>5
<1>8. TxTyped'
  BY <1>1, <1>6, <1>7 DEF TxTyped, Writes
<1>9. \A u \in Txs \ {t} : tx'[u] = tx[u]
  BY <1>1, <1>7
<1>10. /\ tx'[t].available = a /\ tx'[t].reserved = r /\ tx'[t].moved = m
       /\ tx'[t].row = tx[t].row /\ tx'[t].held = tx[t].held
  BY <1>5
<1> HIDE DEF w
<1>11. QED
  BY <1>3, <1>8, <1>9, <1>10 DEF CountersWritten

\* Counters are changed under their lock, and no further than they go.
LEMMA LockCounters ==
    ASSUME BaseInv, NEW t \in Txs, NEW p \in Products, NEW da \in Int, NEW dr \in Int,
           NEW dm \in Nat, CountersWritten(t, p, da, dr, dm), UNCHANGED <<committed, call, rowLock>>,
           invLock[p] \in {Nobody, t}, invLock' = [invLock EXCEPT ![p] = t],
           available[p] + tx[t].available[p] + da >= 0, reserved[p] + tx[t].reserved[p] + dr >= 0
    PROVE  CommittedTyped' /\ LocksTyped' /\ TxTyped' /\ LockInv'
<1>1. CommittedTyped' /\ TxTyped'
  BY DEF BaseInv, CommittedTyped, committed, CountersWritten
<1>2. LocksTyped'
  BY DEF BaseInv, LocksTyped
<1>3. LockInv'
  <2> SUFFICES ASSUME NEW u \in Txs, NEW x \in Products
               PROVE  /\ tx'[u].available[x] # 0 \/ tx'[u].reserved[x] # 0 => invLock'[x] = u
                      /\ available[x] + tx'[u].available[x] >= 0
                      /\ reserved[x] + tx'[u].reserved[x] >= 0
                      /\ tx'[u].row[x] # "none" => rowLock[call[u].order][x] = u
    BY DEF LockInv, committed
  <2>0. /\ available[x] \in Nat /\ reserved[x] \in Nat
        /\ tx[u].available[x] \in Int /\ tx[u].reserved[x] \in Int
        /\ Nobody \notin Txs
    BY NoneAssumption DEF BaseInv, CommittedTyped, TxTyped, Writes
  <2>1. /\ tx[u].available[x] # 0 \/ tx[u].reserved[x] # 0 => invLock[x] = u
        /\ available[x] + tx[u].available[x] >= 0
        /\ reserved[x] + tx[u].reserved[x] >= 0
        /\ tx[u].row[x] # "none" => rowLock[call[u].order][x] = u
    BY DEF BaseInv, LockInv
  <2>2. invLock'[x] = IF x = p THEN t ELSE invLock[x]
    BY DEF BaseInv, LocksTyped
  <2>3. CASE u = t
    BY <2>0, <2>1, <2>2, <2>3, SMTT(30) DEF CountersWritten
  <2>4. CASE u # t
    BY <2>0, <2>1, <2>2, <2>4 DEF CountersWritten
  <2>5. QED
    BY <2>3, <2>4
<1>4. QED
  BY <1>1, <1>2, <1>3

LEMMA BaseTakeStock ==
    ASSUME BaseInv, NEW t \in Txs, TakeStock(t)
    PROVE  BaseInv'
<1> DEFINE p == Here(t).product
           q == Here(t).quantity
<1>0. ControlTyped /\ pc[t] = "take" /\ call[t].order \in Orders
      /\ line[t] \in DOMAIN Lines[call[t].order] /\ call[t].op = "reserve"
  BY CallTyped DEF BaseInv, TakeStock, CallInv
<1>1. p \in Products /\ q \in Nat \ {0}
  BY <1>0, LineTyped DEF Here
<1>2. CASE Rollback(t)
  BY <1>2, BaseRollback
<1>3. CASE /\ available[p] + tx[t].available[p] >= q
           /\ AddToCounters(t, p, - q, q, 0)
           /\ invLock' = [invLock EXCEPT ![p] = t]
           /\ Goto(t, "insert")
           /\ UNCHANGED <<committed, progress, rowLock>>
  <2> HIDE DEF p, q
  <2>1. invLock[p] \in {Nobody, t}
    BY DEF TakeStock, p
  <2>2. /\ available[p] \in Nat /\ reserved[p] \in Nat
        /\ tx[t].available[p] \in Int /\ tx[t].reserved[p] \in Int
        /\ reserved[p] + tx[t].reserved[p] >= 0
        /\ TxTyped
    <3>1. CommittedTyped /\ TxTyped /\ LockInv
      BY DEF BaseInv
    <3>2. available[p] \in Nat /\ reserved[p] \in Nat
      BY <1>1, <3>1 DEF CommittedTyped
    <3>3. tx[t].available[p] \in Int /\ tx[t].reserved[p] \in Int
      BY <1>1, <3>1 DEF TxTyped, Writes
    <3>4. QED
      BY <1>1, <3>1, <3>2, <3>3 DEF LockInv
  <2>3. CountersWritten(t, p, - q, q, 0)
    <3>1. - q \in Int /\ q \in Int /\ 0 \in Nat
      BY <1>1
    <3>2. QED
      BY <1>1, <1>3, <2>2, <3>1, CountersChange
  <2>4. UNCHANGED <<committed, call, rowLock>> /\ UNCHANGED <<line, found, todo>>
    BY <1>3 DEF progress
  <2>5. CommittedTyped' /\ LocksTyped' /\ TxTyped' /\ LockInv'
    <3>1. available[p] + tx[t].available[p] + (- q) >= 0 /\ reserved[p] + tx[t].reserved[p] + q >= 0
          /\ - q \in Int /\ q \in Int /\ 0 \in Nat
      BY <1>1, <1>3, <2>2
    <3>2. QED
      BY <1>1, <1>3, <2>1, <2>3, <2>4, <3>1, LockCounters
  <2>6. \A u \in Txs : pc'[u] = IF u = t THEN "insert" ELSE pc[u]
    BY <1>0, <1>3 DEF Goto, ControlTyped
  <2>7. ControlTyped'
    BY <1>0, <1>3, <2>4, <2>6 DEF ControlTyped, Goto
  <2>8. CallInv'
    BY <1>0, <2>3, <2>4, <2>6 DEF CallInv, BaseInv, CountersWritten
  <2>9. QED
    BY <2>5, <2>7, <2>8 DEF BaseInv
<1>4. QED
  BY <1>2, <1>3 DEF TakeStock

LEMMA BaseUpdateCounters ==
    ASSUME BaseInv, NEW t \in Txs, UpdateCounters(t)
    PROVE  BaseInv'
<1> DEFINE p == Head(todo[t])
           q == held[call[t].order][p]
           b == Returned(call[t])
<1>0. ControlTyped /\ pc[t] = "update" /\ call[t].order \in Orders /\ todo[t] \in Seq(Products)
      /\ todo[t] # <<>> /\ call[t].op # "reserve"
  BY CallTyped DEF BaseInv, UpdateCounters, ControlTyped, CallInv
<1>1. p \in Products /\ q \in Nat /\ b \in BOOLEAN
      /\ Tail(todo[t]) \in Seq(Products) /\ ToSet(Tail(todo[t])) \subseteq ToSet(todo[t])
  <2>1. p \in Products /\ Tail(todo[t]) \in Seq(Products)
    BY <1>0, HeadTailProperties
  <2>2. q \in Nat
    BY <1>0, <2>1 DEF BaseInv, CommittedTyped
  <2>3. ASSUME NEW i \in DOMAIN Tail(todo[t])
        PROVE  \E j \in DOMAIN todo[t] : todo[t][j] = Tail(todo[t])[i]
    <3>1. DOMAIN Tail(todo[t]) = 1..(Len(todo[t]) - 1) /\ Len(todo[t]) \in Nat
          /\ DOMAIN todo[t] = 1..Len(todo[t])
      BY <1>0, <2>1, HeadTailProperties, LenProperties
    <3>2. i + 1 \in DOMAIN todo[t]
      BY <2>3, <3>1
    <3>3. Tail(todo[t])[i] = todo[t][i + 1]
      BY <1>0, <2>3, <3>1, HeadTailProperties
    <3>4. QED
      BY <3>2, <3>3
  <2>4. QED
    BY <2>1, <2>2, <2>3 DEF Returned, ToSet
<1>2. CASE Rollback(t)
  BY <1>2, BaseRollback
<1>3. CASE /\ reserved[p] + tx[t].reserved[p] >= q
           /\ AddToCounters(t, p, IF b THEN q ELSE 0, - q, q)
           /\ invLock' = [invLock EXCEPT ![p] = t]
           /\ todo' = [todo EXCEPT ![t] = Tail(@)]
           /\ UNCHANGED <<committed, pc, call, line, found, rowLock>>
  <2>0. invLock[p] \in {Nobody, t}
    BY DEF UpdateCounters
  <2> DEFINE s == Tail(todo[t])
  <2>1. todo' = [todo EXCEPT ![t] = s] /\ s \in Seq(Products) /\ ToSet(s) \subseteq ToSet(todo[t])
    BY <1>1, <1>3
  <2> HIDE DEF p, q, b, s
  <2>2. /\ available[p] \in Nat /\ reserved[p] \in Nat
        /\ tx[t].available[p] \in Int /\ tx[t].reserved[p] \in Int
        /\ available[p] + tx[t].available[p] >= 0
        /\ TxTyped
    <3>1. CommittedTyped /\ TxTyped /\ LockInv
      BY DEF BaseInv
    <3>2. available[p] \in Nat /\ reserved[p] \in Nat
      BY <1>1, <3>1 DEF CommittedTyped
    <3>3. tx[t].available[p] \in Int /\ tx[t].reserved[p] \in Int
      BY <1>1, <3>1 DEF TxTyped, Writes
    <3>4. QED
      BY <1>1, <3>1, <3>2, <3>3 DEF LockInv
  <2>3. CountersWritten(t, p, IF b THEN q ELSE 0, - q, q)
    <3>1. - q \in Int /\ (IF b THEN q ELSE 0) \in Int
      BY <1>1
    <3>2. QED
      BY <1>1, <1>3, <2>2, <3>1, CountersChange
  <2>4. CommittedTyped' /\ LocksTyped' /\ TxTyped' /\ LockInv'
    <3>1. - q \in Int /\ (IF b THEN q ELSE 0) \in Int /\ (IF b THEN q ELSE 0) >= 0
      BY <1>1
    <3>2. available[p] + tx[t].available[p] + (IF b THEN q ELSE 0) >= 0
      BY <2>2, <3>1
    <3>3. reserved[p] + tx[t].reserved[p] + (- q) >= 0
      BY <1>1, <1>3, <2>2
    <3>4. QED
      BY <1>1, <1>3, <2>0, <2>3, <3>1, <3>2, <3>3, LockCounters
  <2>5. ControlTyped'
    <3>1. todo' \in [Txs -> Seq(Products)] /\ \A u \in Txs : todo'[u] = IF u = t THEN s ELSE todo[u]
      BY <1>0, <2>1 DEF ControlTyped
    <3>2. \A u \in Txs : ToSet(todo'[u]) \subseteq ToSet(found[u])
      BY <1>0, <2>1, <3>1 DEF ControlTyped
    <3>3. QED
      BY <1>0, <1>3, <3>1, <3>2 DEF ControlTyped
  <2>6. CallInv'
    <3>1. \A u \in Txs : todo'[u] = IF u = t THEN s ELSE todo[u]
      BY <1>0, <2>1 DEF ControlTyped
    <3>2. QED
      BY <1>0, <1>3, <2>3, <3>1 DEF CallInv, BaseInv, CountersWritten
  <2>7. QED
    BY <2>4, <2>5, <2>6 DEF BaseInv
<1>4. QED
  BY <1>2, <1>3 DEF UpdateCounters

\* The line at hand gets its row.
RowWritten(t) ==
    /\ TxTyped'
    /\ \A u \in Txs \ {t} : tx'[u] = tx[u]
    /\ tx'[t].available = tx[t].available /\ tx'[t].reserved = tx[t].reserved
    /\ \A x \in Products :
         /\ tx'[t].row[x] = IF x = Here(t).product THEN "reserved" ELSE tx[t].row[x]
         /\ tx'[t].held[x] = IF x = Here(t).product THEN Here(t).quantity ELSE tx[t].held[x]
         /\ tx'[t].moved[x] = tx[t].moved[x] + (IF x = Here(t).product THEN Here(t).quantity ELSE 0)

\* Insert, when there is no row.
Inserts(t) ==
    LET o == call[t].order
        p == Here(t).product
    IN
    /\ row[o][p] = "none"
    /\ rowLock[o][p] = Nobody
    /\ RowWritten(t)
    /\ rowLock' = [rowLock EXCEPT ![o][p] = t]
    /\ line' = [line EXCEPT ![t] = @ + 1]
    /\ Goto(t, "check")
    /\ UNCHANGED <<committed, call, found, todo, invLock>>

LEMMA HereTyped ==
    ASSUME BaseInv, NEW t \in Txs, pc[t] \in {"take", "insert"}
    PROVE  /\ call[t].order \in Orders /\ call[t].op = "reserve" /\ line[t] \in Nat \ {0}
           /\ line[t] \in DOMAIN Lines[call[t].order]
           /\ Here(t).product \in Products /\ Here(t).quantity \in Nat \ {0}
           /\ Here(t) \in [product : Products, quantity : Nat \ {0}]
<1>1. ControlTyped /\ CallInv /\ pc[t] # "idle"
  BY DEF BaseInv
<1>2. call[t].order \in Orders
  BY <1>1, CallTyped
<1>3. line[t] \in DOMAIN Lines[call[t].order] /\ call[t].op = "reserve" /\ line[t] \in Nat \ {0}
  BY <1>1 DEF CallInv, ControlTyped
<1>4. QED
  BY <1>2, <1>3, LineTyped DEF Here

LEMMA InsertOrRollback ==
    ASSUME BaseInv, NEW t \in Txs, InsertReservation(t)
    PROVE  pc[t] = "insert" /\ (Rollback(t) \/ Inserts(t))
<1> DEFINE o == call[t].order
           p == Here(t).product
           q == Here(t).quantity
           a == [tx[t].row EXCEPT ![p] = "reserved"]
           r == [tx[t].held EXCEPT ![p] = q]
           m == [tx[t].moved EXCEPT ![p] = @ + q]
           w == [available |-> tx[t].available, reserved |-> tx[t].reserved, row |-> a, held |-> r,
                 moved |-> m]
<1>0. pc[t] = "insert" /\ TxTyped
  BY DEF InsertReservation, BaseInv
<1>1. p \in Products /\ q \in Nat
  BY <1>0, HereTyped
<1>2. /\ tx[t] \in Writes /\ tx \in [Txs -> Writes]
      /\ tx[t].row \in [Products -> ReservationStatus] /\ tx[t].held \in [Products -> Nat]
      /\ tx[t].moved \in [Products -> Nat]
  BY <1>0 DEF TxTyped, Writes
<1>3. a \in [Products -> ReservationStatus] /\ r \in [Products -> Nat] /\ m \in [Products -> Nat]
  BY <1>1, <1>2 DEF ReservationStatus
<1>4. \A x \in Products : /\ a[x] = IF x = p THEN "reserved" ELSE tx[t].row[x]
                          /\ r[x] = IF x = p THEN q ELSE tx[t].held[x]
                          /\ m[x] = tx[t].moved[x] + (IF x = p THEN q ELSE 0)
  BY <1>1, <1>2
<1>5. CASE ~ Rollback(t)
  <2>1. tx' = [tx EXCEPT ![t] = [tx[t] EXCEPT !.row = a, !.held = r, !.moved = m]]
    <3> HIDE DEF a, r, m
    <3>1. tx' = [tx EXCEPT ![t].row[p] = "reserved", ![t].held[p] = q, ![t].moved[p] = @ + q]
      BY <1>5 DEF InsertReservation
    <3>2. QED
      BY <3>1 DEF a, r, m
  <2> HIDE DEF a, r, m
  <2>2. tx'[t] = w
    BY <1>2, <2>1 DEF Writes
  <2>3. w \in Writes
    BY <1>2, <1>3 DEF Writes
  <2>4. tx' = [tx EXCEPT ![t] = w]
    BY <1>2, <2>1, <2>2
  <2>5. TxTyped'
    BY <1>2, <2>3, <2>4 DEF TxTyped, Writes
  <2>6. \A u \in Txs \ {t} : tx'[u] = tx[u]
    BY <1>2, <2>4
  <2>7. /\ tx'[t].row = a /\ tx'[t].held = r /\ tx'[t].moved = m
        /\ tx'[t].available = tx[t].available /\ tx'[t].reserved = tx[t].reserved
    BY <2>2
  <2> HIDE DEF w
  <2>8. RowWritten(t)
    BY <1>4, <2>5, <2>6, <2>7 DEF RowWritten
  <2>9. QED
    BY <1>0, <1>5, <2>8 DEF InsertReservation, Inserts
<1>6. QED
  BY <1>0, <1>5

LEMMA BaseInsertReservation ==
    ASSUME BaseInv, NEW t \in Txs, InsertReservation(t)
    PROVE  BaseInv'
<1> DEFINE o == call[t].order
           p == Here(t).product
<1>0. pc[t] = "insert" /\ (Rollback(t) \/ Inserts(t))
  BY InsertOrRollback
<1>1. /\ o \in Orders /\ p \in Products /\ call[t].op = "reserve" /\ line[t] \in Nat \ {0}
  BY <1>0, HereTyped
<1>2. CASE Rollback(t)
  BY <1>2, BaseRollback
<1>3. CASE Inserts(t)
  <2>1. /\ rowLock[o][p] = Nobody /\ rowLock' = [rowLock EXCEPT ![o][p] = t]
        /\ line' = [line EXCEPT ![t] = line[t] + 1] /\ pc' = [pc EXCEPT ![t] = "check"]
        /\ UNCHANGED <<committed, call, found, todo, invLock>> /\ RowWritten(t)
    BY <1>3 DEF Inserts, Goto
  <2>2. CommittedTyped' /\ TxTyped'
    BY <2>1 DEF BaseInv, CommittedTyped, committed, RowWritten
  <2>3. LocksTyped' /\ \A d \in Orders, x \in Products :
                           rowLock'[d][x] = IF d = o /\ x = p THEN t ELSE rowLock[d][x]
    BY <1>1, <2>1 DEF BaseInv, LocksTyped
  <2>4. \A u \in Txs : /\ pc'[u] = IF u = t THEN "check" ELSE pc[u]
                       /\ line'[u] = IF u = t THEN line[t] + 1 ELSE line[u]
    BY <2>1 DEF BaseInv, ControlTyped
  <2>5. ControlTyped'
    <3>1. pc' \in [Txs -> {"idle", "mark_processed", "check", "take", "insert",
                           "select", "update", "commit"}] /\ line' \in [Txs -> Nat \ {0}]
      BY <1>1, <2>1 DEF BaseInv, ControlTyped
    <3>2. QED
      BY <1>0, <2>1, <2>4, <3>1 DEF BaseInv, ControlTyped
  <2>6. CallInv'
    BY <1>0, <1>1, <2>1, <2>4 DEF CallInv, BaseInv, RowWritten
  <2>7. LockInv'
    <3> SUFFICES ASSUME NEW u \in Txs, NEW x \in Products
                 PROVE  /\ tx'[u].available[x] # 0 \/ tx'[u].reserved[x] # 0 => invLock[x] = u
                        /\ available[x] + tx'[u].available[x] >= 0
                        /\ reserved[x] + tx'[u].reserved[x] >= 0
                        /\ tx'[u].row[x] # "none" => rowLock'[call[u].order][x] = u
      BY <2>1 DEF LockInv, committed
    <3>0. tx'[u].available = tx[u].available /\ tx'[u].reserved = tx[u].reserved
      BY <2>1 DEF RowWritten
    <3>1. /\ tx[u].available[x] # 0 \/ tx[u].reserved[x] # 0 => invLock[x] = u
          /\ available[x] + tx[u].available[x] >= 0
          /\ reserved[x] + tx[u].reserved[x] >= 0
          /\ tx[u].row[x] # "none" => rowLock[call[u].order][x] = u
      BY DEF BaseInv, LockInv
    <3>2. tx'[u].row[x] # "none" => rowLock'[call[u].order][x] = u
      <4>1. CASE u = t
        BY <1>1, <2>1, <2>3, <3>1, <4>1 DEF RowWritten
      <4>2. CASE u # t
        <5> SUFFICES ASSUME tx[u].row[x] # "none"
                     PROVE  rowLock'[call[u].order][x] = u
          BY <2>1, <4>2 DEF RowWritten
        <5>1. pc[u] # "idle"
          BY NoWritesTyped DEF BaseInv, CallInv
        <5>2. call[u].order \in Orders
          BY <5>1, CallTyped DEF BaseInv
        <5>3. u # Nobody
          BY NoneAssumption
        <5>4. QED
          BY <2>1, <2>3, <3>1, <5>2, <5>3
      <4>3. QED
        BY <4>1, <4>2
    <3>3. QED
      BY <3>0, <3>1, <3>2
  <2>8. QED
    BY <2>2, <2>3, <2>5, <2>6, <2>7 DEF BaseInv
<1>4. QED
  BY <1>0, <1>2, <1>3

LEMMA BaseMarkRows ==
    ASSUME BaseInv, NEW t \in Txs, MarkRows(t)
    PROVE  BaseInv'
<1> DEFINE o  == call[t].order
           ps == {p \in Products : row[o][p] = "reserved"}
           to == IF Returned(call[t]) THEN "released" ELSE "committed"
           m  == [p \in Products |-> IF p \in ps THEN to ELSE tx[t].row[p]]
           w  == [tx[t] EXCEPT !.row = m]
<1>0. /\ pc[t] = "update" /\ todo[t] = <<>> /\ \A p \in ps : rowLock[o][p] = Nobody
      /\ pc' = [pc EXCEPT ![t] = "commit"] /\ UNCHANGED <<committed, progress, invLock>>
      /\ rowLock' = [rowLock EXCEPT ![o] = [p \in Products |-> IF p \in ps THEN t ELSE @[p]]]
  BY DEF MarkRows, Goto
<1>1. tx' = [tx EXCEPT ![t] = w]
  BY DEF MarkRows
<1>2. o \in Orders /\ to \in {"released", "committed"}
  BY <1>0, CallTyped DEF BaseInv
<1>3. tx[t] \in Writes /\ tx \in [Txs -> Writes]
  BY DEF BaseInv, TxTyped
<1>4. m \in [Products -> ReservationStatus]
  BY <1>2, <1>3 DEF Writes, ReservationStatus
<1> HIDE DEF m, to, ps
<1>5. /\ w \in Writes /\ w.row = m
      /\ w.available = tx[t].available /\ w.reserved = tx[t].reserved
  BY <1>3, <1>4 DEF Writes
<1> HIDE DEF w
<1>6. TxTyped' /\ \A u \in Txs : tx'[u] = IF u = t THEN w ELSE tx[u]
  BY <1>1, <1>3, <1>5 DEF TxTyped
<1>7. CommittedTyped'
  BY <1>0 DEF BaseInv, CommittedTyped, committed
<1>8. LocksTyped' /\ \A d \in Orders, x \in Products :
                         rowLock'[d][x] = IF d = o /\ x \in ps THEN t ELSE rowLock[d][x]
  BY <1>0, <1>2 DEF BaseInv, LocksTyped
<1>9. ControlTyped' /\ \A u \in Txs : pc'[u] = IF u = t THEN "commit" ELSE pc[u]
  BY <1>0 DEF BaseInv, ControlTyped, progress
<1>10. CallInv'
  BY <1>0, <1>6, <1>9 DEF CallInv, BaseInv, progress
<1>11. LockInv'
  <2> SUFFICES ASSUME NEW u \in Txs, NEW x \in Products
               PROVE  /\ tx'[u].available[x] # 0 \/ tx'[u].reserved[x] # 0 => invLock[x] = u
                      /\ available[x] + tx'[u].available[x] >= 0
                      /\ reserved[x] + tx'[u].reserved[x] >= 0
                      /\ tx'[u].row[x] # "none" => rowLock'[call[u].order][x] = u
    BY <1>0 DEF LockInv, committed, progress
  <2>1. /\ tx[u].available[x] # 0 \/ tx[u].reserved[x] # 0 => invLock[x] = u
        /\ available[x] + tx[u].available[x] >= 0
        /\ reserved[x] + tx[u].reserved[x] >= 0
        /\ tx[u].row[x] # "none" => rowLock[call[u].order][x] = u
    BY DEF BaseInv, LockInv
  <2>2. tx'[u].available = tx[u].available /\ tx'[u].reserved = tx[u].reserved
    BY <1>5, <1>6
  <2>3. tx'[u].row[x] # "none" => rowLock'[call[u].order][x] = u
    <3>1. CASE u = t
      <4>1. tx'[u].row[x] = IF x \in ps THEN to ELSE tx[t].row[x]
        BY <1>5, <1>6, <3>1 DEF m
      <4>2. QED
        BY <1>2, <1>8, <2>1, <3>1, <4>1
    <3>2. CASE u # t
      <4> SUFFICES ASSUME tx[u].row[x] # "none"
                   PROVE  rowLock'[call[u].order][x] = u
        BY <1>6, <3>2
      <4>1. pc[u] # "idle"
        BY NoWritesTyped DEF BaseInv, CallInv
      <4>2. call[u].order \in Orders
        BY <4>1, CallTyped DEF BaseInv
      <4>3. u # Nobody
        BY NoneAssumption
      <4>4. QED
        BY <1>0, <1>8, <2>1, <4>2, <4>3
    <3>3. QED
      BY <3>1, <3>2
  <2>4. QED
    BY <2>1, <2>2, <2>3
<1>12. QED
  BY <1>6, <1>7, <1>8, <1>9, <1>10, <1>11 DEF BaseInv

\* Every step keeps the types, the locks and what they protect, whatever runs next to
\* what.
LEMMA BaseStep == BaseInv /\ [Next]_vars => BaseInv'
<1> SUFFICES ASSUME BaseInv, [Next]_vars
             PROVE  BaseInv'
  OBVIOUS
<1>1. CASE UNCHANGED vars
  BY <1>1 DEF vars, committed, progress, locks, BaseInv, CommittedTyped, ControlTyped,
              LocksTyped, TxTyped, CallInv, LockInv
<1>2. ASSUME NEW t \in Txs, NEW c \in Arriving, Begin(t, c)
      PROVE  BaseInv'
  BY <1>2, ArrivingAssumption, BaseBegin
<1>3. ASSUME NEW t \in Txs, Statement(t)
      PROVE  BaseInv'
  BY <1>3, BaseMarkProcessed, BaseCheckDuplicate, BaseTakeStock, BaseInsertReservation,
     BaseSelectReserved, BaseUpdateCounters, BaseMarkRows, BaseCommit DEF Statement
<1>4. ASSUME NEW t \in Txs, Fail(t) \/ DeadlockVictim(t)
      PROVE  BaseInv'
  BY <1>4, BaseRollback DEF Fail, DeadlockVictim
<1>5. QED
  BY <1>1, <1>2, <1>3, <1>4 DEF Next

LEMMA BaseAlways == Spec => [](BaseInv /\ RacedTyped)
<1>1. Init => RacedTyped
  BY DEF Init, RacedTyped
<1>2. QED
  BY <1>1, BaseInit, BaseStep, RacedStep, PTL DEF Spec

\* Every state is well typed: in particular no counter ever becomes negative, however the
\* UPDATEs of concurrent reservations, releases and commits meet.
THEOREM SpecTypeOK == Spec => []TypeOK
<1>1. QED
  BY BaseAlways, BaseImpliesTypeOK, PTL

----------------------------------------------------------------------------
\* What a goroutine leaves alone

StepOf(t) == (\E c \in Call : Begin(t, c)) \/ Statement(t) \/ Fail(t) \/ DeadlockVictim(t)

\* What of goroutine u a step of another one leaves alone: everything.
Untouched(u) ==
    /\ pc'[u] = pc[u] /\ call'[u] = call[u] /\ line'[u] = line[u]
    /\ found'[u] = found[u] /\ todo'[u] = todo[u] /\ tx'[u] = tx[u]

LEMMA OthersUntouched ==
    ASSUME BaseInv, NEW t \in Txs, StepOf(t), NEW u \in Txs \ {t}
    PROVE  Untouched(u)
<1>0. ControlTyped /\ TxTyped /\ tx \in [Txs -> Writes]
  BY DEF BaseInv, TxTyped
<1>1. ASSUME EndTx(t)
      PROVE  Untouched(u)
  BY <1>0, <1>1 DEF EndTx, Goto, Untouched, ControlTyped
<1>2. ASSUME NEW c \in Call, Begin(t, c)
      PROVE  Untouched(u)
  <2> DEFINE l == CASE c.op = "reserve" -> "check"
                    [] c.op = "release" -> "select"
                    [] c \in OrderEvent -> "mark_processed"
  <2>1. pc' = [pc EXCEPT ![t] = l] /\ call' = [call EXCEPT ![t] = c]
        /\ UNCHANGED <<line, found, todo, tx>>
    BY <1>2 DEF Begin, Goto
  <2> HIDE DEF l
  <2>2. QED
    BY <1>0, <2>1 DEF Untouched, ControlTyped
<1>3. ASSUME MarkProcessed(t)
      PROVE  Untouched(u)
  BY <1>0, <1>1, <1>3 DEF MarkProcessed, Rollback, Goto, Untouched, ControlTyped, progress
<1>4. ASSUME CheckDuplicate(t)
      PROVE  Untouched(u)
  BY <1>0, <1>4 DEF CheckDuplicate, Goto, Untouched, ControlTyped
<1>5. ASSUME TakeStock(t)
      PROVE  Untouched(u)
  <2>1. CASE Rollback(t)
    BY <1>1, <2>1 DEF Rollback
  <2>2. CASE ~ Rollback(t)
    <3>1. /\ AddToCounters(t, Here(t).product, - Here(t).quantity, Here(t).quantity, 0)
          /\ pc' = [pc EXCEPT ![t] = "insert"] /\ UNCHANGED progress
      BY <1>5, <2>2 DEF TakeStock, Goto
    <3>2. tx'[u] = tx[u]
      BY <1>0, <3>1 DEF AddToCounters
    <3>3. QED
      BY <1>0, <3>1, <3>2 DEF Untouched, ControlTyped, progress
  <2>3. QED
    BY <2>1, <2>2
<1>6. ASSUME InsertReservation(t)
      PROVE  Untouched(u)
  <2>1. Rollback(t) \/ Inserts(t)
    BY <1>6, InsertOrRollback
  <2>2. CASE Inserts(t)
    BY <1>0, <2>2 DEF Inserts, RowWritten, Goto, Untouched, ControlTyped
  <2>3. QED
    BY <1>1, <2>1, <2>2 DEF Rollback
<1>7. ASSUME SelectReserved(t)
      PROVE  Untouched(u)
  BY <1>0, <1>7 DEF SelectReserved, Goto, Untouched, ControlTyped
<1>8. ASSUME UpdateCounters(t)
      PROVE  Untouched(u)
  <2>1. CASE Rollback(t)
    BY <1>1, <2>1 DEF Rollback
  <2>2. CASE ~ Rollback(t)
    <3> DEFINE p == Head(todo[t])
               q == held[call[t].order][p]
               r == IF Returned(call[t]) THEN q ELSE 0
    <3>1. /\ AddToCounters(t, p, r, - q, q)
          /\ todo' = [todo EXCEPT ![t] = Tail(@)] /\ UNCHANGED <<pc, call, line, found>>
      BY <1>8, <2>2 DEF UpdateCounters
    <3> HIDE DEF p, q, r
    <3>2. tx'[u] = tx[u]
      BY <1>0, <3>1 DEF AddToCounters
    <3>3. QED
      BY <1>0, <3>1, <3>2 DEF Untouched, ControlTyped
  <2>3. QED
    BY <2>1, <2>2
<1>9. ASSUME MarkRows(t)
      PROVE  Untouched(u)
  BY <1>0, <1>9 DEF MarkRows, Goto, Untouched, ControlTyped, progress
<1>10. QED
  BY <1>1, <1>2, <1>3, <1>4, <1>5, <1>6, <1>7, <1>8, <1>9
     DEF StepOf, Statement, Commit, Fail, DeadlockVictim, Rollback

\* Nothing is visible to others before the commit.
LEMMA VisibleAtCommit ==
    ASSUME NEW t \in Txs, StepOf(t)
    PROVE  Commit(t) \/ UNCHANGED committed
BY DEF StepOf, Statement, Fail, DeadlockVictim, Rollback, Begin, MarkProcessed, CheckDuplicate,
       TakeStock, InsertReservation, SelectReserved, UpdateCounters, MarkRows

LEMMA CommittedRows ==
    ASSUME BaseInv, NEW t \in Txs, Commit(t)
    PROVE  /\ call[t].order \in Orders
           /\ \A o \in Orders, p \in Products :
                /\ row'[o][p] = IF o = call[t].order /\ tx[t].row[p] # "none"
                                THEN tx[t].row[p] ELSE row[o][p]
                /\ held'[o][p] = IF o = call[t].order /\ tx[t].held[p] # 0
                                 THEN tx[t].held[p] ELSE held[o][p]
<1>1. call[t].order \in Orders
  BY CallTyped DEF Commit, BaseInv
<1>2. row \in [Orders -> [Products -> ReservationStatus]] /\ held \in [Orders -> [Products -> Nat]]
  BY DEF BaseInv, CommittedTyped
<1>3. /\ row' = [row EXCEPT ![call[t].order] = [p \in Products |->
                   IF tx[t].row[p] = "none" THEN @[p] ELSE tx[t].row[p]]]
      /\ held' = [held EXCEPT ![call[t].order] = [p \in Products |->
                   IF tx[t].held[p] = 0 THEN @[p] ELSE tx[t].held[p]]]
  BY DEF Commit
<1>4. QED
  BY <1>1, <1>2, <1>3

\* What a goroutine is told when it goes on: the call stays, or the transaction ends.
LEMMA OwnStep ==
    ASSUME BaseInv, NEW t \in Txs, StepOf(t)
    PROVE  \/ \E c \in Call : Begin(t, c)
           \/ EndTx(t) /\ pc'[t] = "idle" /\ call'[t] = NoCall
           \/ /\ MarkProcessed(t) \/ CheckDuplicate(t) \/ TakeStock(t) \/ InsertReservation(t)
                 \/ SelectReserved(t) \/ UpdateCounters(t) \/ MarkRows(t)
              /\ pc[t] # "idle" /\ call' = call /\ ~ Rollback(t) /\ UNCHANGED committed
<1>1. EndTx(t) => pc'[t] = "idle" /\ call'[t] = NoCall
  BY DEF EndTx, Goto, ControlTyped, BaseInv
<1>2. Fail(t) \/ DeadlockVictim(t) \/ Commit(t) => EndTx(t)
  BY DEF Fail, DeadlockVictim, Commit, Rollback
<1>3. ASSUME MarkProcessed(t) \/ CheckDuplicate(t) \/ TakeStock(t) \/ InsertReservation(t)
             \/ SelectReserved(t) \/ UpdateCounters(t) \/ MarkRows(t)
      PROVE  EndTx(t) \/ (pc[t] # "idle" /\ call' = call /\ ~ Rollback(t) /\ UNCHANGED committed)
  <2>1. CASE Rollback(t)
    BY <2>1 DEF Rollback
  <2>2. CASE ~ Rollback(t)
    <3>1. InsertReservation(t) => pc[t] # "idle" /\ call' = call /\ UNCHANGED committed
      BY <2>2, InsertOrRollback DEF Inserts
    <3>2. QED
      BY <1>3, <2>2, <3>1 DEF MarkProcessed, CheckDuplicate, TakeStock, SelectReserved,
                              UpdateCounters, MarkRows, progress
  <2>3. QED
    BY <2>1, <2>2
<1>4. QED
  BY <1>1, <1>2, <1>3 DEF StepOf, Statement

----------------------------------------------------------------------------
\* The rows of an order, whatever overlaps

LEMMA FoundTyped ==
    ASSUME ControlTyped, NEW t \in Txs
    PROVE  ToSet(found[t]) \subseteq Products
<1>1. found[t] \in Seq(Products)
  BY DEF ControlTyped
<1>2. DOMAIN found[t] = 1..Len(found[t])
  BY <1>1, LenProperties
<1>3. QED
  BY <1>1, <1>2, ElementOfSeq DEF ToSet

\* A row that somebody has written stays as it is, and no row ever goes.
LEMMA RowsNextToOthers ==
    ASSUME BaseInv, NEW t \in Txs, StepOf(t), NEW u \in Txs \ {t}, pc[u] # "idle",
           NEW p \in Products
    PROVE  LET o == call[u].order IN
           /\ tx[u].row[p] # "none" => row'[o][p] = row[o][p]
           /\ row[o][p] # "none" => row'[o][p] # "none"
           /\ row'[o][p] # row[o][p] => Commit(t) /\ o = call[t].order /\ row'[o][p] = tx[t].row[p]
                                        /\ tx[t].row[p] # "none"
<1> DEFINE o == call[u].order
<1>1. o \in Orders
  BY CallTyped DEF BaseInv
<1>2. CASE UNCHANGED committed
  BY <1>2 DEF committed
<1>3. CASE Commit(t)
  <2>1. row'[o][p] = IF o = call[t].order /\ tx[t].row[p] # "none" THEN tx[t].row[p] ELSE row[o][p]
    BY <1>1, <1>3, CommittedRows
  <2>2. tx[u].row[p] # "none" => rowLock[o][p] = u
    BY DEF BaseInv, LockInv
  <2>3. tx[t].row[p] # "none" => rowLock[call[t].order][p] = t
    BY DEF BaseInv, LockInv
  <2> HIDE DEF o
  <2>4. QED
    BY <1>3, <2>1, <2>2, <2>3 DEF o
<1>4. QED
  BY <1>2, <1>3, VisibleAtCommit

\* Nobody else's step makes a difference to what a call has written.
LEMMA WritesNextToOthers ==
    ASSUME BaseInv, WritesInv, RowsInv, NEW t \in Txs, StepOf(t), NEW u \in Txs \ {t},
           pc[u] # "idle"
    PROVE  IF call[u].op = "reserve" THEN Inserting(u)' ELSE Marking(u)'
<1> DEFINE o == call[u].order
<1>0. Untouched(u) /\ o \in Orders
  BY OthersUntouched, CallTyped DEF BaseInv
<1>1. \A p \in Products :
         /\ tx[u].row[p] # "none" => row'[o][p] = row[o][p]
         /\ row[o][p] # "none" => row'[o][p] # "none"
         /\ row'[o][p] # row[o][p] => Commit(t) /\ o = call[t].order /\ row'[o][p] = tx[t].row[p]
                                      /\ tx[t].row[p] # "none"
  BY RowsNextToOthers
<1>2. \A i \in DOMAIN Lines[o] : Lines[o][i].product \in Products
  BY <1>0, LineTyped
<1>3. CASE call[u].op = "reserve"
  <2>1. Inserting(u)
    BY <1>3 DEF WritesInv
  <2> HIDE DEF o
  <2>2. call[u].order = o /\ call'[u].order = o
    BY <1>0 DEF o, Untouched
  <2>3. \A p \in Products : RowSeenBy(u, p) # "none" => RowSeenBy(u, p)' # "none"
    BY <1>0, <1>1, <2>2 DEF RowSeenBy, Untouched
  <2>4. \A p \in Products : tx[u].row[p] = "reserved" => row'[o][p] = "none"
    <3>1. ASSUME NEW p \in Products, tx[u].row[p] = "reserved"
          PROVE  row[call[u].order][p] = "none"
      BY <2>1, <3>1 DEF Inserting
    <3>2. ASSUME NEW p \in Products, tx[u].row[p] = "reserved"
          PROVE  row'[o][p] = row[o][p]
      BY <1>1, <3>2
    <3>3. QED
      BY <2>2, <3>1, <3>2
  <2>5. QED
    BY <1>0, <1>2, <1>3, <2>1, <2>2, <2>3, <2>4 DEF Inserting, Untouched
<1>4. CASE call[u].op # "reserve"
  <2>1. Marking(u)
    BY <1>4 DEF WritesInv
  <2>2. Settled(u)' = Settled(u)
    BY <1>0 DEF Settled, Returned, Untouched
  <2>3. ASSUME NEW q \in Products, tx[u].row[q] # "none", NEW p \in Products
        PROVE  row'[o][p] = "reserved" <=> row[o][p] = "reserved"
    <3>1. /\ row[o][q] = "reserved"
          /\ row[o][p] = "reserved" => tx[u].row[p] # "none"
      BY <2>1, <2>3 DEF Marking, Settled
    <3>2. ASSUME row'[o][p] = "reserved", row[o][p] # "reserved"
          PROVE  FALSE
      <4>1. Commit(t) /\ o = call[t].order /\ tx[t].row[p] = "reserved" /\ pc[t] = "commit"
        BY <1>1, <3>2 DEF Commit
      <4>2. call[t].op = "reserve"
        <5>1. ~ Marking(t)
          BY <4>1 DEF Marking, Settled
        <5>2. QED
          BY <4>1, <5>1 DEF WritesInv
      <4>3. row[o][p] = "none" /\ Asked(o, p)
        <5>1. Inserting(t)
          BY <4>1, <4>2 DEF WritesInv
        <5>2. Named(o, p, tx[t].held[p])
          BY <4>1, <5>1 DEF Inserting
        <5>3. QED
          BY <1>0, <4>1, <5>1, <5>2, NamedIsAsked DEF Inserting
      <4>4. QED
        BY <1>0, <3>1, <4>3 DEF RowsInv
    <3>3. QED
      BY <1>1, <3>1, <3>2
  <2> HIDE DEF o
  <2>4. call[u].order = o /\ call'[u].order = o
    BY <1>0 DEF o, Untouched
  <2>5. /\ \A p \in Products : tx'[u].held[p] = 0
        /\ pc'[u] # "commit" => \A p \in Products : tx'[u].row[p] = "none"
    BY <1>0, <2>1 DEF Marking, Untouched
  <2>8. \A p \in ToSet(found'[u]) : row'[call'[u].order][p] # "none"
    <3>1. \A p \in ToSet(found[u]) : p \in Products /\ row[o][p] # "none"
      BY <2>1, <2>4, FoundTyped DEF Marking, BaseInv
    <3>2. QED
      BY <1>0, <1>1, <2>4, <3>1 DEF Untouched
  <2>6. \/ \A p \in Products : tx'[u].row[p] = "none"
        \/ \A p \in Products :
             tx'[u].row[p] = IF row'[call'[u].order][p] = "reserved" THEN Settled(u)' ELSE "none"
    <3>1. CASE \A p \in Products : tx[u].row[p] = "none"
      BY <1>0, <3>1 DEF Untouched
    <3>2. CASE \E q \in Products : tx[u].row[q] # "none"
      <4>1. \A p \in Products : row'[o][p] = "reserved" <=> row[o][p] = "reserved"
        BY <2>3, <3>2
      <4>2. \A p \in Products :
              tx[u].row[p] = IF row[o][p] = "reserved" THEN Settled(u) ELSE "none"
        BY <2>1, <2>4, <3>2 DEF Marking
      <4>3. QED
        BY <1>0, <2>2, <2>4, <4>1, <4>2 DEF Untouched
    <3>3. QED
      BY <3>1, <3>2
  <2>7. QED
    BY <1>0, <1>4, <2>5, <2>6, <2>8 DEF Marking, Untouched
<1>5. QED
  BY <1>3, <1>4

\* A call begins with nothing written.
LEMMA WritesBegin ==
    ASSUME BaseInv, NEW t \in Txs, NEW c \in Call, Begin(t, c)
    PROVE  IF call'[t].op = "reserve" THEN Inserting(t)' ELSE Marking(t)'
<1> DEFINE l == CASE c.op = "reserve" -> "check"
                  [] c.op = "release" -> "select"
                  [] c \in OrderEvent -> "mark_processed"
<1>1. pc'[t] = l /\ call'[t] = c /\ line'[t] = 1 /\ tx'[t] = NoWrites /\ found'[t] = <<>>
  <2>1. pc' = [pc EXCEPT ![t] = l] /\ pc[t] = "idle"
        /\ call' = [call EXCEPT ![t] = c] /\ line' = line /\ tx' = tx /\ found' = found
    BY DEF Begin, Goto
  <2> HIDE DEF l
  <2>2. QED
    BY <2>1 DEF BaseInv, ControlTyped, CallInv
<1>2. c \in OrderEvent <=> c.op \notin {"reserve", "release"}
  BY DEF Call, Request, OrderEvent
<1>3. l # "commit"
  BY <1>2
<1>4. c.order \in Orders
  BY DEF Call, Request, OrderEvent
<1>5. Lines[c.order] \in Seq([product : Products, quantity : Nat \ {0}])
  BY <1>4, LinesAssumption
<1>6. \A i \in DOMAIN Lines[c.order] : i \in Nat \ {0}
  BY <1>5, LenProperties
<1> HIDE DEF l
<1>7. QED
  BY <1>1, <1>3, <1>6, NoWritesTyped, EmptyTyped DEF Inserting, Marking

\* The reservation goes on by a line it skips, takes stock for, or inserts.
LEMMA InsertingGoesOn ==
    ASSUME BaseInv, NEW t \in Txs, call[t].op = "reserve", Inserting(t), pc[t] # "idle",
           UNCHANGED <<committed, call>>,
           CheckDuplicate(t) \/ TakeStock(t) \/ InsertReservation(t), ~ Rollback(t)
    PROVE  Inserting(t)'
<1> DEFINE o == call[t].order
           Passed(n) == \A i \in DOMAIN Lines[o] : i < n => RowSeenBy(t, Lines[o][i].product) # "none"
<1>0. /\ ControlTyped /\ call'[t] = call[t] /\ row' = row /\ o \in Orders
      /\ line[t] \in Nat \ {0} /\ DOMAIN Lines[o] = 1..Len(Lines[o]) /\ Len(Lines[o]) \in Nat
  BY CallTyped DEF BaseInv, committed, ControlTyped
<1>1. \A i \in DOMAIN Lines[o] : Lines[o][i].product \in Products
  BY <1>0, LineTyped
<1>2. Passed(line[t])
  BY DEF Inserting
<1>3. CASE CheckDuplicate(t)
  <2>1. pc[t] = "check" /\ tx' = tx
    BY <1>3 DEF CheckDuplicate
  <2>2. \A p : RowSeenBy(t, p)' = RowSeenBy(t, p)
    BY <1>0, <2>1 DEF RowSeenBy
  <2>3. CASE line[t] > Len(Lines[o]) /\ Goto(t, "commit") /\ line' = line
    <3>1. \A i \in DOMAIN Lines[o] : i < line[t]
      BY <1>0, <2>3
    <3>2. \A i \in DOMAIN Lines[o] : RowSeenBy(t, Lines[o][i].product)' # "none"
      BY <1>2, <2>2, <3>1
    <3>3. QED
      BY <1>0, <2>1, <3>2 DEF Inserting
  <2>4. CASE /\ line[t] <= Len(Lines[o]) /\ RowSeenBy(t, Here(t).product) = "reserved"
             /\ line' = [line EXCEPT ![t] = @ + 1] /\ pc' = pc
    <3>1. pc'[t] = "check" /\ line'[t] = line[t] + 1
      BY <1>0, <2>1, <2>4 DEF ControlTyped
    <3>2. \A i \in DOMAIN Lines[o] : i < line[t] + 1 => i < line[t] \/ i = line[t]
      BY <1>0
    <3>3. RowSeenBy(t, Lines[o][line[t]].product) # "none"
      BY <2>4 DEF Here
    <3>4. \A i \in DOMAIN Lines[o] : i < line[t] + 1 => RowSeenBy(t, Lines[o][i].product)' # "none"
      BY <1>2, <2>2, <3>2, <3>3
    <3>5. QED
      BY <1>0, <2>1, <3>1, <3>4 DEF Inserting
  <2>5. CASE Goto(t, "take") /\ line' = line
    <3>1. pc'[t] = "take"
      BY <1>0, <2>5 DEF Goto, ControlTyped
    <3>2. \A i \in DOMAIN Lines[o] : i < line[t] => RowSeenBy(t, Lines[o][i].product)' # "none"
      BY <1>2, <2>2
    <3>3. QED
      BY <1>0, <2>1, <2>5, <3>1, <3>2 DEF Inserting
  <2>6. QED
    BY <1>3, <2>3, <2>4, <2>5 DEF CheckDuplicate
<1>4. CASE TakeStock(t)
  <2>1. pc[t] = "take" /\ Here(t).product \in Products /\ Here(t).quantity \in Nat
    BY <1>4, HereTyped DEF TakeStock
  <2>2. /\ AddToCounters(t, Here(t).product, - Here(t).quantity, Here(t).quantity, 0)
        /\ Goto(t, "insert") /\ line' = line
    BY <1>4 DEF TakeStock, progress
  <2>3. pc'[t] = "insert"
    BY <1>0, <2>2 DEF Goto, ControlTyped
  <2>4. - Here(t).quantity \in Int /\ Here(t).quantity \in Int /\ 0 \in Nat /\ TxTyped
    BY <2>1 DEF BaseInv
  <2>5. CountersWritten(t, Here(t).product, - Here(t).quantity, Here(t).quantity, 0)
    BY <2>1, <2>2, <2>4, CountersChange
  <2>6. \A p \in Products : tx'[t].row[p] = tx[t].row[p] /\ tx'[t].held[p] = tx[t].held[p]
    BY <2>5 DEF CountersWritten
  <2>7. \A i \in DOMAIN Lines[o] : i < line[t] => RowSeenBy(t, Lines[o][i].product)' # "none"
    BY <1>0, <1>1, <1>2, <2>6 DEF RowSeenBy
  <2>8. QED
    BY <1>0, <2>2, <2>3, <2>6, <2>7 DEF Inserting
<1>5. CASE InsertReservation(t)
  <2>1. /\ pc[t] = "insert" /\ Here(t).product \in Products
        /\ line[t] \in DOMAIN Lines[o] /\ Here(t) = Lines[o][line[t]]
        /\ Here(t) = [product |-> Here(t).product, quantity |-> Here(t).quantity]
    BY <1>5, HereTyped DEF InsertReservation, Here
  <2>2. Inserts(t)
    BY <1>5, InsertOrRollback
  <2>3. pc'[t] = "check" /\ line'[t] = line[t] + 1 /\ RowWritten(t)
        /\ row[o][Here(t).product] = "none"
    BY <1>0, <2>2 DEF Inserts, Goto, ControlTyped
  <2>4. \A p \in Products :
           RowSeenBy(t, p)' = IF p = Here(t).product THEN "reserved" ELSE RowSeenBy(t, p)
    BY <1>0, <2>3 DEF RowSeenBy, RowWritten
  <2>5. \A i \in DOMAIN Lines[o] : i < line[t] + 1 => RowSeenBy(t, Lines[o][i].product)' # "none"
    <3> SUFFICES ASSUME NEW i \in DOMAIN Lines[o], i < line[t] + 1,
                        Lines[o][i].product # Here(t).product
                 PROVE  RowSeenBy(t, Lines[o][i].product)' # "none"
      BY <1>1, <2>4
    <3>1. i < line[t]
      BY <1>0, <2>1
    <3>2. QED
      BY <1>1, <1>2, <2>4, <3>1
  <2>6. ASSUME NEW p \in Products
        PROVE  /\ tx'[t].row[p] \in {"none", "reserved"}
               /\ tx'[t].row[p] = "none" => tx'[t].held[p] = 0
               /\ tx'[t].row[p] = "reserved" =>
                    /\ row[o][p] = "none"
                    /\ Named(o, p, tx'[t].held[p])
    <3>1. CASE p = Here(t).product
      <4>1. tx'[t].row[p] = "reserved" /\ tx'[t].held[p] = Here(t).quantity
        BY <2>3, <3>1 DEF RowWritten
      <4>2. RowSeenBy(t, p) = "none"
        <5>1. rowLock[o][p] = Nobody /\ row[o][p] = "none"
          BY <2>2, <3>1 DEF Inserts
        <5>2. tx[t].row[p] = "none"
          BY <5>1, NoneAssumption DEF BaseInv, LockInv
        <5>3. QED
          BY <5>1, <5>2 DEF RowSeenBy
      <4>3. line[t] \in FirstLines(o, p)
        BY <1>2, <2>1, <3>1, <4>2 DEF FirstLines
      <4>4. Named(o, p, tx'[t].held[p])
        BY <2>1, <4>1, <4>3 DEF Named
      <4> HIDE DEF o
      <4>5. QED
        BY <2>3, <3>1, <4>1, <4>4
    <3>2. CASE p # Here(t).product
      <4>1. tx'[t].row[p] = tx[t].row[p] /\ tx'[t].held[p] = tx[t].held[p]
        BY <2>3, <3>2 DEF RowWritten
      <4>2. QED
        BY <4>1 DEF Inserting
    <3>3. QED
      BY <3>1, <3>2
  <2>7. call'[t].order = o
    BY <1>0
  <2> HIDE DEF o
  <2>8. QED
    BY <1>0, <2>3, <2>5, <2>6, <2>7 DEF Inserting, o
<1>6. QED
  BY <1>3, <1>4, <1>5

\* A release writes all the rows that are reserved at once, by one UPDATE.
LEMMA MarkingGoesOn ==
    ASSUME BaseInv, NEW t \in Txs, call[t].op # "reserve", Marking(t), pc[t] # "idle",
           UNCHANGED <<committed, call>>,
           MarkProcessed(t) \/ SelectReserved(t) \/ UpdateCounters(t) \/ MarkRows(t),
           ~ Rollback(t)
    PROVE  Marking(t)'
<1> DEFINE o == call[t].order
<1>0. ControlTyped /\ TxTyped /\ call' = call /\ row' = row
  BY DEF BaseInv, committed
<1>1. Settled(t)' = Settled(t)
  BY <1>0 DEF Settled, Returned
<1>6. ASSUME found' = found
      PROVE  \A p \in ToSet(found'[t]) : row'[call'[t].order][p] # "none"
  BY <1>0, <1>6 DEF Marking
<1>2. CASE MarkProcessed(t) \/ SelectReserved(t)
  <2>1. tx' = tx /\ pc[t] # "commit" /\ pc'[t] # "commit"
    BY <1>0, <1>2 DEF MarkProcessed, SelectReserved, Goto, ControlTyped
  <2>2. \A p \in ToSet(found'[t]) : row'[call'[t].order][p] # "none"
    <3>1. CASE MarkProcessed(t)
      BY <1>6, <3>1 DEF MarkProcessed, progress
    <3>2. CASE SelectReserved(t)
      <4> DEFINE S == {p \in Products : row[o][p] = "reserved"}
      <4>1. PICK x \in SetToSeqs(S) : found' = [found EXCEPT ![t] = x]
        BY <3>2 DEF SelectReserved
      <4>2. found'[t] = x
        BY <1>0, <4>1 DEF ControlTyped
      <4>3. ToSet(x) = S
        BY QueryResult
      <4>4. QED
        BY <1>0, <4>2, <4>3
    <3>3. QED
      BY <1>2, <3>1, <3>2
  <2>3. QED
    BY <1>0, <1>1, <2>1, <2>2 DEF Marking
<1>3. CASE UpdateCounters(t)
  <2> DEFINE p == Head(todo[t])
             q == held[call[t].order][p]
             r == IF Returned(call[t]) THEN q ELSE 0
  <2>1. pc[t] = "update" /\ pc' = pc /\ AddToCounters(t, p, r, - q, q) /\ todo[t] # <<>>
        /\ found' = found
    BY <1>3 DEF UpdateCounters
  <2>2. p \in Products /\ r \in Int /\ - q \in Int /\ q \in Nat
    <3>1. p \in Products
      BY <2>1, HeadTailProperties DEF BaseInv, ControlTyped
    <3>2. call[t].order \in Orders
      BY CallTyped DEF BaseInv
    <3>3. q \in Nat
      BY <3>1, <3>2 DEF BaseInv, CommittedTyped
    <3> HIDE DEF p, q
    <3>4. QED
      BY <3>1, <3>3
  <2> HIDE DEF p, q, r
  <2>3. CountersWritten(t, p, r, - q, q)
    BY <1>0, <2>1, <2>2, CountersChange
  <2>4. \A x \in Products : tx'[t].row[x] = tx[t].row[x] /\ tx'[t].held[x] = tx[t].held[x]
    BY <2>3 DEF CountersWritten
  <2>5. QED
    BY <1>0, <1>1, <1>6, <2>1, <2>4 DEF Marking
<1>4. CASE MarkRows(t)
  <2> DEFINE m == [p \in Products |-> IF p \in {x \in Products : row[o][x] = "reserved"}
                                      THEN Settled(t) ELSE tx[t].row[p]]
             w == [tx[t] EXCEPT !.row = m]
  <2>1. tx' = [tx EXCEPT ![t] = w] /\ pc[t] = "update"
    BY <1>4 DEF MarkRows, Settled
  <2>2. tx[t] \in Writes /\ tx \in [Txs -> Writes]
    BY <1>0 DEF TxTyped
  <2>3. w.row = m /\ w.held = tx[t].held
    BY <2>2 DEF Writes
  <2>4. tx'[t] = w
    BY <2>1, <2>2
  <2> HIDE DEF w
  <2>5. \A p \in Products : /\ tx'[t].row[p] = IF row[o][p] = "reserved" THEN Settled(t) ELSE tx[t].row[p]
                            /\ tx'[t].held[p] = tx[t].held[p]
    BY <2>3, <2>4
  <2>6. pc'[t] = "commit"
    BY <1>0, <1>4 DEF MarkRows, Goto, ControlTyped
  <2>7. \A p \in Products : tx[t].row[p] = "none" /\ tx[t].held[p] = 0
    BY <2>1 DEF Marking
  <2>8. found' = found
    BY <1>4 DEF MarkRows, progress
  <2>9. QED
    BY <1>0, <1>1, <1>6, <2>5, <2>6, <2>7, <2>8 DEF Marking
<1>5. QED
  BY <1>2, <1>3, <1>4

LEMMA WritesInvStep ==
    ASSUME BaseInv, WritesInv, RowsInv, NEW t \in Txs, StepOf(t)
    PROVE  WritesInv'
<1> SUFFICES ASSUME NEW u \in Txs, pc'[u] # "idle"
             PROVE  IF call'[u].op = "reserve" THEN Inserting(u)' ELSE Marking(u)'
  BY DEF WritesInv
<1>1. CASE u # t
  <2>1. Untouched(u)
    BY <1>1, OthersUntouched
  <2>2. QED
    BY <1>1, <2>1, WritesNextToOthers DEF Untouched
<1>2. CASE u = t
  <2>1. CASE \E c \in Call : Begin(t, c)
    BY <1>2, <2>1, WritesBegin
  <2>2. CASE /\ MarkProcessed(t) \/ CheckDuplicate(t) \/ TakeStock(t) \/ InsertReservation(t)
                \/ SelectReserved(t) \/ UpdateCounters(t) \/ MarkRows(t)
             /\ pc[t] # "idle" /\ call' = call /\ ~ Rollback(t) /\ UNCHANGED committed
    <3>1. CASE call[t].op = "reserve"
      <4>1. CheckDuplicate(t) \/ TakeStock(t) \/ InsertReservation(t)
        BY <2>2, <3>1 DEF BaseInv, CallInv, MarkProcessed, SelectReserved, UpdateCounters, MarkRows
      <4>2. Inserting(t)
        BY <2>2, <3>1 DEF WritesInv
      <4>3. Inserting(t)'
        BY <2>2, <3>1, <4>1, <4>2, InsertingGoesOn
      <4>4. QED
        BY <1>2, <2>2, <3>1, <4>3
    <3>2. CASE call[t].op # "reserve"
      <4>1. MarkProcessed(t) \/ SelectReserved(t) \/ UpdateCounters(t) \/ MarkRows(t)
        BY <2>2, <3>2 DEF BaseInv, CallInv, CheckDuplicate, TakeStock, InsertReservation
      <4>2. Marking(t)
        BY <2>2, <3>2 DEF WritesInv
      <4>3. Marking(t)'
        BY <2>2, <3>2, <4>1, <4>2, MarkingGoesOn
      <4>4. QED
        BY <1>2, <2>2, <3>2, <4>3
    <3>3. QED
      BY <3>1, <3>2
  <2>3. QED
    BY <1>2, <2>1, <2>2, OwnStep
<1>3. QED
  BY <1>1, <1>2

LEMMA OtherOrders ==
    ASSUME BaseInv, NEW t \in Txs, Commit(t), NEW o \in Orders, o # call[t].order
    PROVE  /\ \A p \in Products : row'[o][p] = row[o][p] /\ held'[o][p] = held[o][p]
           /\ announced'[o] = announced[o] /\ moved'[o] = moved[o]
<1>1. announced' = [announced EXCEPT ![call[t].order] = [type \in InventoryEventType |->
                        IF type \in Announce(t) THEN @[type] + 1 ELSE @[type]]]
  BY DEF Commit
<1>2. announced'[o] = announced[o]
  BY <1>1 DEF BaseInv, CommittedTyped
<1>3. moved'[o] = moved[o]
  <2>1. \E f : moved' = [moved EXCEPT ![call[t].order] = f]
    BY DEF Commit
  <2>2. QED
    BY <2>1 DEF BaseInv, CommittedTyped
<1>4. QED
  BY <1>2, <1>3, CommittedRows

\* What a commit makes of the rows of its order: none changes, or they all go on together.
LEMMA RowsGoOn ==
    ASSUME BaseInv, WritesInv, RowsInv, NEW t \in Txs, Commit(t)
    PROVE  LET o == call[t].order IN
           \/ /\ \A p \in Products : tx[t].row[p] = "none"
              /\ \A p \in Products : row'[o][p] = row[o][p] /\ held'[o][p] = held[o][p]
           \/ /\ call[t].op = "reserve" /\ \E p \in Products : tx[t].row[p] # "none"
              /\ \A p \in Products :
                   /\ row[o][p] = "none"
                   /\ row'[o][p] = IF Asked(o, p) THEN "reserved" ELSE "none"
                   /\ tx[t].row[p] # "none" <=> Asked(o, p)
                   /\ ~ Asked(o, p) => held'[o][p] = held[o][p]
                   /\ Asked(o, p) => Named(o, p, held'[o][p])
           \/ /\ call[t].op # "reserve" /\ \E p \in Products : row[o][p] = "reserved"
              /\ \A p \in Products :
                   /\ row'[o][p] = IF row[o][p] = "reserved" THEN Settled(t) ELSE row[o][p]
                   /\ held'[o][p] = held[o][p]
<1> DEFINE o == call[t].order
<1>0. pc[t] = "commit" /\ o \in Orders /\ o = call[t].order
  BY CommittedRows DEF Commit
<1>1. \A p \in Products :
         /\ row'[o][p] = (IF tx[t].row[p] # "none" THEN tx[t].row[p] ELSE row[o][p])
         /\ held'[o][p] = (IF tx[t].held[p] # 0 THEN tx[t].held[p] ELSE held[o][p])
  BY <1>0, CommittedRows
<1>2. CASE call[t].op = "reserve"
  <2>1. Inserting(t)
    BY <1>0, <1>2 DEF WritesInv
  <2>2. CASE \A p \in Products : tx[t].row[p] = "none"
    BY <1>1, <2>1, <2>2 DEF Inserting
  <2>3. CASE \E p \in Products : tx[t].row[p] # "none"
    <3>1. \A p \in Products : tx[t].row[p] = "reserved" => row[o][p] = "none" /\ Asked(o, p)
      <4> SUFFICES ASSUME NEW p \in Products, tx[t].row[p] = "reserved"
                   PROVE  row[o][p] = "none" /\ Asked(o, p)
        OBVIOUS
      <4>1. Named(o, p, tx[t].held[p])
        BY <2>1 DEF Inserting
      <4>2. QED
        BY <1>0, <2>1, <4>1, NamedIsAsked DEF Inserting
    <3>2. \A p \in Products : row[o][p] = "none"
      BY <1>0, <2>1, <2>3, <3>1 DEF RowsInv, Inserting
    <3>3. \A p \in Products : Asked(o, p) => tx[t].row[p] # "none"
      BY <1>0, <2>1, <3>2 DEF Inserting, Asked, RowSeenBy
    <3>4. \A p \in Products : tx[t].row[p] # "none" <=> Asked(o, p)
      BY <2>1, <3>1, <3>3 DEF Inserting
    <3>5. \A p \in Products : row'[o][p] = IF Asked(o, p) THEN "reserved" ELSE "none"
      BY <1>1, <2>1, <3>2, <3>4 DEF Inserting
    <3>6. \A p \in Products : ~ Asked(o, p) => held'[o][p] = held[o][p]
      BY <1>1, <2>1, <3>4 DEF Inserting
    <3>7. ASSUME NEW p \in Products, Asked(o, p)
          PROVE  Named(o, p, held'[o][p])
      <4>1. tx[t].row[p] = "reserved"
        BY <2>1, <3>4, <3>7 DEF Inserting
      <4>2. Named(o, p, tx[t].held[p])
        BY <2>1, <4>1 DEF Inserting
      <4>3. tx[t].held[p] # 0
        BY <1>0, <4>2, NamedIsAsked
      <4>4. held'[o][p] = tx[t].held[p]
        BY <1>1, <4>3
      <4>5. QED
        BY <4>2, <4>4
    <3> HIDE DEF o
    <3>8. QED
      BY <1>0, <1>2, <2>3, <3>2, <3>4, <3>5, <3>6, <3>7
  <2>4. QED
    BY <2>2, <2>3
<1>3. CASE call[t].op # "reserve"
  <2>1. Marking(t) /\ Settled(t) # "none"
    BY <1>0, <1>3 DEF WritesInv, Settled
  <2>2. \A p \in Products : held'[o][p] = held[o][p]
    BY <1>1, <2>1 DEF Marking
  <2>3. CASE \A p \in Products : tx[t].row[p] = "none"
    BY <1>1, <2>2, <2>3
  <2>4. CASE \E p \in Products : tx[t].row[p] # "none"
    <3>1. \A p \in Products : tx[t].row[p] = IF row[o][p] = "reserved" THEN Settled(t) ELSE "none"
      BY <2>1, <2>4 DEF Marking
    <3>2. QED
      BY <1>0, <1>1, <1>3, <2>1, <2>2, <2>4, <3>1
  <2>5. QED
    BY <2>3, <2>4
<1>4. QED
  BY <1>2, <1>3

LEMMA RowsInvStep ==
    ASSUME BaseInv, WritesInv, RowsInv, NEW t \in Txs, StepOf(t)
    PROVE  RowsInv'
<1>1. CASE UNCHANGED committed
  BY <1>1 DEF committed, RowsInv
<1>2. CASE Commit(t)
  <2> SUFFICES ASSUME NEW o \in Orders
               PROVE  /\ \/ \A p \in Products : row'[o][p] = "none"
                         \/ \A p \in Products : row'[o][p] # "none" <=> Asked(o, p)
                      /\ \A p, q \in Products :
                            row'[o][p] # "none" /\ row'[o][q] # "none" => row'[o][p] = row'[o][q]
                      /\ \A p \in Products :
                           /\ row'[o][p] = "none" => held'[o][p] = 0
                           /\ row'[o][p] # "none" => Named(o, p, held'[o][p])
    BY DEF RowsInv, Asked, Named, FirstLines
  <2>0. /\ \/ \A p \in Products : row[o][p] = "none"
           \/ \A p \in Products : row[o][p] # "none" <=> Asked(o, p)
        /\ \A p, q \in Products : row[o][p] # "none" /\ row[o][q] # "none" => row[o][p] = row[o][q]
        /\ \A p \in Products :
             /\ row[o][p] = "none" => held[o][p] = 0
             /\ row[o][p] # "none" => Named(o, p, held[o][p])
    BY DEF RowsInv
  <2>1. CASE \A p \in Products : row'[o][p] = row[o][p] /\ held'[o][p] = held[o][p]
    BY <2>0, <2>1
  <2>2. CASE /\ \A p \in Products :
                  /\ row[o][p] = "none"
                  /\ row'[o][p] = IF Asked(o, p) THEN "reserved" ELSE "none"
                  /\ ~ Asked(o, p) => held'[o][p] = held[o][p]
                  /\ Asked(o, p) => Named(o, p, held'[o][p])
    BY <2>0, <2>2
  <2>3. CASE \A p \in Products :
               /\ row'[o][p] = IF row[o][p] = "reserved" THEN Settled(t) ELSE row[o][p]
               /\ held'[o][p] = held[o][p]
    <3>1. Settled(t) # "none"
      BY DEF Settled
    <3>2. \A p \in Products : row'[o][p] = "none" <=> row[o][p] = "none"
      BY <2>3, <3>1
    <3>3. \A p, q \in Products :
             row'[o][p] # "none" /\ row'[o][q] # "none" => row'[o][p] = row'[o][q]
      BY <2>0, <2>3, <3>2
    <3>4. QED
      BY <2>0, <2>3, <3>2, <3>3
  <2>4. QED
    BY <1>2, <2>1, <2>2, <2>3, OtherOrders, RowsGoOn
<1>3. QED
  BY <1>1, <1>2, VisibleAtCommit

\* The outbox row is written by the commit that brings the first rows, and these come once.
LEMMA ReservedOnceStep ==
    ASSUME BaseInv, WritesInv, RowsInv, ReservedOnce, NEW t \in Txs, StepOf(t)
    PROVE  ReservedOnce'
<1>1. CASE UNCHANGED committed
  BY <1>1 DEF committed, ReservedOnce
<1>2. CASE Commit(t)
  <2> DEFINE R(o) == \E p \in Products : row[o][p] # "none"
             Rn(o) == \E p \in Products : row'[o][p] # "none"
  <2> SUFFICES ASSUME NEW o \in Orders
               PROVE  announced'[o]["inventory.reserved"] = (IF Rn(o) THEN 1 ELSE 0)
    BY DEF ReservedOnce
  <2>1. announced[o]["inventory.reserved"] = (IF R(o) THEN 1 ELSE 0)
        /\ announced \in [Orders -> [InventoryEventType -> Nat]]
        /\ "inventory.reserved" \in InventoryEventType
    BY DEF ReservedOnce, BaseInv, CommittedTyped, InventoryEventType
  <2>2. CASE o # call[t].order
    <3>1. (Rn(o) <=> R(o)) /\ announced'[o] = announced[o]
      BY <1>2, <2>2, OtherOrders
    <3> HIDE DEF R, Rn
    <3>2. QED
      BY <2>1, <3>1
  <2>3. CASE o = call[t].order
    <3> DEFINE A == Announce(t)
    <3>1. announced' = [announced EXCEPT ![o] = [type \in InventoryEventType |->
                          IF type \in A THEN @[type] + 1 ELSE @[type]]]
      BY <1>2, <2>3 DEF Commit
    <3>2. "inventory.reserved" \in A
             <=> call[t].op = "reserve" /\ \E p \in Products : tx[t].row[p] # "none"
      BY DEF Announce
    <3> HIDE DEF A
    <3>3. announced'[o]["inventory.reserved"] =
             IF "inventory.reserved" \in A THEN announced[o]["inventory.reserved"] + 1
             ELSE announced[o]["inventory.reserved"]
      BY <2>1, <3>1
    <3>4. CASE /\ call[t].op = "reserve" /\ \E p \in Products : tx[t].row[p] # "none"
               /\ \A p \in Products : /\ row[o][p] = "none"
                                      /\ row'[o][p] = IF Asked(o, p) THEN "reserved" ELSE "none"
                                      /\ tx[t].row[p] # "none" <=> Asked(o, p)
      <4>1. ~ R(o) /\ Rn(o)
        BY <3>4
      <4> HIDE DEF R, Rn
      <4>2. QED
        BY <2>1, <3>2, <3>3, <3>4, <4>1
    <3>5. CASE /\ \A p \in Products : row'[o][p] = "none" <=> row[o][p] = "none"
               /\ call[t].op # "reserve" \/ \A p \in Products : tx[t].row[p] = "none"
      <4>1. Rn(o) <=> R(o)
        BY <3>5
      <4> HIDE DEF R, Rn
      <4>2. QED
        BY <2>1, <3>2, <3>3, <3>5, <4>1
    <3>6. Settled(t) # "none"
      BY DEF Settled
    <3>7. QED
      BY <1>2, <2>3, <3>4, <3>5, <3>6, RowsGoOn
  <2>4. QED
    BY <2>2, <2>3
<1>3. QED
  BY <1>1, <1>2, VisibleAtCommit

----------------------------------------------------------------------------
\* The counters and the movements, whatever overlaps

\* A call begins with nothing moved.
LEMMA CountedBegins ==
    ASSUME BaseInv, NEW t \in Txs, NEW c \in Call, Begin(t, c)
    PROVE  Counted(t)'
<1> DEFINE l == CASE c.op = "reserve" -> "check"
                  [] c.op = "release" -> "select"
                  [] c \in OrderEvent -> "mark_processed"
<1>1. l # "insert"
  BY DEF Call, Request, OrderEvent
<1>2. pc'[t] = l /\ tx'[t] = NoWrites
  <2>1. pc' = [pc EXCEPT ![t] = l] /\ pc[t] = "idle" /\ tx' = tx
    BY DEF Begin, Goto
  <2> HIDE DEF l
  <2>2. QED
    BY <2>1 DEF BaseInv, ControlTyped, CallInv
<1> HIDE DEF l
<1>3. QED
  BY <1>1, <1>2, NoWritesTyped DEF Counted, Taken

\* A reservation takes the units of a line and then writes them down; the others write
\* down what they take with it.
LEMMA CountingGoesOn ==
    ASSUME BaseInv, WritesInv, NEW t \in Txs, pc[t] # "idle", Counted(t), call' = call,
           UNCHANGED committed, ~ Rollback(t),
           MarkProcessed(t) \/ CheckDuplicate(t) \/ TakeStock(t) \/ InsertReservation(t)
             \/ SelectReserved(t) \/ UpdateCounters(t) \/ MarkRows(t)
    PROVE  Counted(t)'
<1> DEFINE w == tx[t]
           v == tx'[t]
           h == Here(t)
<1>0. /\ ControlTyped /\ CallInv /\ TxTyped /\ tx \in [Txs -> Writes]
      /\ \A p \in Products : /\ w.available[p] \in Int /\ w.reserved[p] \in Int
                             /\ w.held[p] \in Nat /\ w.moved[p] \in Nat
  BY DEF BaseInv, TxTyped, Writes
<1>1. CASE MarkProcessed(t) \/ SelectReserved(t)
  <2>1. call[t].op # "reserve" /\ tx' = tx
    BY <1>0, <1>1 DEF CallInv, MarkProcessed, SelectReserved
  <2>2. QED
    BY <2>1 DEF Counted, Returned
<1>2. CASE CheckDuplicate(t)
  <2>1. call[t].op = "reserve" /\ tx' = tx /\ pc[t] # "insert"
    BY <1>0, <1>2 DEF CallInv, CheckDuplicate
  <2>2. pc'[t] # "insert"
    BY <1>0, <1>2, <2>1 DEF CheckDuplicate, Goto, ControlTyped
  <2>3. QED
    BY <2>1, <2>2 DEF Counted, Taken
<1>3. CASE TakeStock(t)
  <2>1. /\ pc[t] = "take" /\ h.product \in Products /\ h.quantity \in Nat
        /\ call[t].op = "reserve"
    BY <1>3, HereTyped DEF TakeStock
  <2>2. /\ AddToCounters(t, h.product, - h.quantity, h.quantity, 0)
        /\ pc'[t] = "insert" /\ line' = line
    BY <1>0, <1>3 DEF TakeStock, progress, Goto, ControlTyped
  <2>3. Here(t)' = h
    BY <2>2 DEF Here
  <2> HIDE DEF h
  <2>4. - h.quantity \in Int /\ h.quantity \in Int /\ 0 \in Nat
    BY <2>1
  <2>5. CountersWritten(t, h.product, - h.quantity, h.quantity, 0)
    BY <1>0, <2>1, <2>2, <2>4, CountersChange
  <2>6. ASSUME NEW p \in Products
        PROVE  /\ v.moved[p] = v.held[p]
               /\ v.reserved[p] = v.held[p] + (IF p = h.product THEN h.quantity ELSE 0)
               /\ v.available[p] = - v.reserved[p]
    <3>1. w.moved[p] = w.held[p] /\ w.reserved[p] = w.held[p] /\ w.available[p] = - w.reserved[p]
      BY <1>0, <2>1 DEF Counted, Taken
    <3>2. /\ v.held[p] = w.held[p] /\ v.moved[p] = w.moved[p] + 0
          /\ v.reserved[p] = w.reserved[p] + (IF p = h.product THEN h.quantity ELSE 0)
          /\ v.available[p] = w.available[p] + (IF p = h.product THEN - h.quantity ELSE 0)
      BY <2>5 DEF CountersWritten
    <3> HIDE DEF w, v
    <3>3. QED
      BY <1>0, <2>1, <3>1, <3>2
  <2>7. \A p \in Products : Taken(t, p)' <=> p = h.product
    BY <2>2, <2>3 DEF Taken
  <2>8. QED
    BY <2>1, <2>3, <2>6, <2>7 DEF Counted
<1>4. CASE InsertReservation(t)
  <2>1. /\ pc[t] = "insert" /\ h.product \in Products /\ h.quantity \in Nat
        /\ call[t].op = "reserve"
    BY <1>4, HereTyped DEF InsertReservation
  <2>2. Inserts(t)
    BY <1>4, InsertOrRollback
  <2>3. pc'[t] = "check" /\ RowWritten(t)
    BY <1>0, <2>2 DEF Inserts, Goto, ControlTyped
  <2>4. w.held[h.product] = 0
    <3>1. rowLock[call[t].order][h.product] = Nobody
      BY <2>2 DEF Inserts
    <3>2. w.row[h.product] = "none"
      BY <2>1, <3>1, NoneAssumption DEF BaseInv, LockInv
    <3>3. QED
      BY <2>1, <3>2 DEF WritesInv, Inserting
  <2>5. ASSUME NEW p \in Products
        PROVE  /\ v.moved[p] = v.held[p] /\ v.reserved[p] = v.held[p] + 0
               /\ v.available[p] = - v.reserved[p]
    <3>1. /\ w.moved[p] = w.held[p] /\ w.available[p] = - w.reserved[p]
          /\ w.reserved[p] = w.held[p] + (IF p = h.product THEN h.quantity ELSE 0)
      BY <2>1 DEF Counted, Taken
    <3>2. /\ v.available = w.available /\ v.reserved = w.reserved
          /\ v.held[p] = IF p = h.product THEN h.quantity ELSE w.held[p]
          /\ v.moved[p] = w.moved[p] + (IF p = h.product THEN h.quantity ELSE 0)
      BY <2>3 DEF RowWritten
    <3>3. /\ w.available[p] \in Int /\ w.reserved[p] \in Int
          /\ w.held[p] \in Nat /\ w.moved[p] \in Nat
      BY <1>0
    <3> HIDE DEF w, v, h
    <3>4. QED
      BY <2>1, <2>4, <3>1, <3>2, <3>3
  <2>6. \A p \in Products : ~ Taken(t, p)'
    BY <2>3 DEF Taken
  <2>7. QED
    BY <2>1, <2>5, <2>6 DEF Counted
<1>5. CASE UpdateCounters(t)
  <2> DEFINE p == Head(todo[t])
             q == held[call[t].order][p]
             r == IF Returned(call[t]) THEN q ELSE 0
  <2>1. pc[t] = "update" /\ AddToCounters(t, p, r, - q, q) /\ todo[t] # <<>>
    BY <1>5 DEF UpdateCounters
  <2>2. p \in Products /\ r \in Int /\ - q \in Int /\ q \in Nat
    <3>1. p \in Products
      BY <2>1, HeadTailProperties DEF BaseInv, ControlTyped
    <3>2. call[t].order \in Orders
      BY CallTyped DEF BaseInv
    <3>3. q \in Nat
      BY <3>1, <3>2 DEF BaseInv, CommittedTyped
    <3> HIDE DEF p, q
    <3>4. QED
      BY <3>1, <3>3
  <2>3. call[t].op # "reserve" /\ r = (IF Returned(call[t]) THEN q ELSE 0)
    BY <1>0, <2>1 DEF CallInv
  <2> HIDE DEF p, q, r
  <2>4. CountersWritten(t, p, r, - q, q)
    BY <1>0, <2>1, <2>2, CountersChange
  <2>5. ASSUME NEW x \in Products
        PROVE  /\ v.reserved[x] = - v.moved[x]
               /\ v.available[x] = (IF Returned(call[t]) THEN v.moved[x] ELSE 0)
    <3>1. /\ w.reserved[x] = - w.moved[x]
          /\ w.available[x] = (IF Returned(call[t]) THEN w.moved[x] ELSE 0)
      BY <2>3 DEF Counted
    <3>2. /\ v.reserved[x] = w.reserved[x] + (IF x = p THEN - q ELSE 0)
          /\ v.available[x] = w.available[x] + (IF x = p THEN r ELSE 0)
          /\ v.moved[x] = w.moved[x] + (IF x = p THEN q ELSE 0)
      BY <2>4 DEF CountersWritten
    <3>3. w.available[x] \in Int /\ w.reserved[x] \in Int /\ w.moved[x] \in Nat
      BY <1>0
    <3> HIDE DEF w, v
    <3>4. QED
      BY <2>2, <2>3, <3>1, <3>2, <3>3
  <2>6. QED
    BY <2>3, <2>5 DEF Counted, Returned
<1>6. CASE MarkRows(t)
  <2>1. call[t].op # "reserve"
    BY <1>0, <1>6 DEF CallInv, MarkRows
  <2>2. \E m : tx' = [tx EXCEPT ![t] = [tx[t] EXCEPT !.row = m]]
    BY <1>6 DEF MarkRows
  <2>3. PICK m : tx' = [tx EXCEPT ![t] = [tx[t] EXCEPT !.row = m]]
    BY <2>2
  <2>4. tx'[t] = [tx[t] EXCEPT !.row = m] /\ tx[t] \in Writes
    BY <1>0, <2>3
  <2>5. v.available = w.available /\ v.reserved = w.reserved /\ v.moved = w.moved
    BY <2>4 DEF Writes
  <2>6. QED
    BY <2>1, <2>5 DEF Counted, Returned
<1>7. QED
  BY <1>1, <1>2, <1>3, <1>4, <1>5, <1>6

LEMMA CountedInvStep ==
    ASSUME BaseInv, WritesInv, CountedInv, NEW t \in Txs, StepOf(t)
    PROVE  CountedInv'
<1> SUFFICES ASSUME NEW u \in Txs, pc'[u] # "idle"
             PROVE  Counted(u)'
  BY DEF CountedInv
<1>1. CASE u # t
  <2>1. Untouched(u)
    BY <1>1, OthersUntouched
  <2>2. Counted(u)
    BY <2>1 DEF CountedInv, Untouched
  <2>3. Here(u)' = Here(u) /\ \A p : Taken(u, p)' <=> Taken(u, p)
    BY <2>1 DEF Here, Taken, Untouched
  <2>4. QED
    BY <2>1, <2>2, <2>3 DEF Counted, Untouched, Returned
<1>2. CASE u = t
  BY <1>2, OwnStep, CountedBegins, CountingGoesOn DEF CountedInv
<1>3. QED
  BY <1>1, <1>2

\* The movement rows of a call are of one type.
LEMMA MovementOfCall ==
    ASSUME NEW c \in Call
    PROVE  /\ c.op = "reserve" => Movement(c) = "reservation"
           /\ c.op # "reserve" /\ Returned(c) => Movement(c) = "release"
           /\ ~ Returned(c) => Movement(c) = "sale" /\ c.op # "reserve"
           /\ Movement(c) \in MovementType
  BY DEF Movement, MovementType, Returned, Call, Request, OrderEvent

LEMMA CommittedMovements ==
    ASSUME BaseInv, NEW t \in Txs, Commit(t)
    PROVE  \A o \in Orders, m \in MovementType, p \in Products :
             moved'[o][m][p] = moved[o][m][p]
                + (IF o = call[t].order /\ m = Movement(call[t]) THEN tx[t].moved[p] ELSE 0)
<1> DEFINE b == call[t].order
           n == Movement(call[t])
<1>1. b \in Orders /\ n \in MovementType /\ tx[t].moved \in [Products -> Nat]
  <2>1. pc[t] # "idle"
    BY DEF Commit
  <2>2. call[t] \in Call /\ b \in Orders
    BY <2>1, CallTyped DEF BaseInv
  <2>3. QED
    BY <2>2, MovementOfCall DEF BaseInv, TxTyped, Writes
<1>2. moved \in [Orders -> [MovementType -> [Products -> Nat]]]
  BY DEF BaseInv, CommittedTyped
<1>3. moved' = [moved EXCEPT ![b][n] = [p \in Products |-> @[p] + tx[t].moved[p]]]
  BY DEF Commit
<1> HIDE DEF b, n
<1>4. moved' = [moved EXCEPT ![b] = [moved[b] EXCEPT ![n] =
                    [p \in Products |-> moved[b][n][p] + tx[t].moved[p]]]]
  BY <1>3
<1>5. moved'[b] = [moved[b] EXCEPT ![n] = [p \in Products |-> moved[b][n][p] + tx[t].moved[p]]]
      /\ \A o \in Orders : o # b => moved'[o] = moved[o]
  BY <1>1, <1>2, <1>4
<1>6. moved[b] \in [MovementType -> [Products -> Nat]]
  BY <1>1, <1>2
<1>7. ASSUME NEW o \in Orders, NEW m \in MovementType, NEW p \in Products
      PROVE  moved'[o][m][p] = moved[o][m][p] + (IF o = b /\ m = n THEN tx[t].moved[p] ELSE 0)
  <2>1. moved[o][m][p] \in Nat
    BY <1>2
  <2>2. CASE o # b
    BY <1>5, <2>1, <2>2
  <2>3. CASE o = b /\ m # n
    BY <1>5, <1>6, <2>1, <2>3
  <2>4. CASE o = b /\ m = n
    BY <1>1, <1>5, <1>6, <2>4
  <2>5. QED
    BY <2>2, <2>3, <2>4
<1>8. QED
  BY <1>7 DEF b, n

\* An order's row says how many units of it were ever reserved.
LEMMA HeldIsMovedStep ==
    ASSUME BaseInv, WritesInv, RowsInv, CountedInv, HeldIsMoved, NEW t \in Txs, StepOf(t)
    PROVE  HeldIsMoved'
<1>1. CASE UNCHANGED committed
  BY <1>1 DEF committed, HeldIsMoved
<1>2. CASE Commit(t)
  <2> SUFFICES ASSUME NEW o \in Orders, NEW p \in Products
               PROVE  moved'[o]["reservation"][p] = held'[o][p]
    BY DEF HeldIsMoved
  <2>1. /\ pc[t] = "commit" /\ call[t] \in Call /\ moved[o]["reservation"][p] = held[o][p]
        /\ held[o][p] \in Nat /\ tx[t].held[p] \in Nat /\ tx[t].moved[p] \in Nat
        /\ "reservation" \in MovementType
    <3>1. pc[t] = "commit" /\ moved[o]["reservation"][p] = held[o][p]
      BY <1>2 DEF Commit, HeldIsMoved
    <3>2. call[t] \in Call
      BY <3>1, CallTyped DEF BaseInv
    <3>3. held[o][p] \in Nat
      BY DEF BaseInv, CommittedTyped
    <3>4. tx[t].held[p] \in Nat /\ tx[t].moved[p] \in Nat
      BY DEF BaseInv, TxTyped, Writes
    <3>5. QED
      BY <3>1, <3>2, <3>3, <3>4 DEF MovementType
  <2>2. /\ held'[o][p] = IF o = call[t].order /\ tx[t].held[p] # 0
                         THEN tx[t].held[p] ELSE held[o][p]
        /\ moved'[o]["reservation"][p] = moved[o]["reservation"][p]
             + (IF o = call[t].order /\ Movement(call[t]) = "reservation" THEN tx[t].moved[p] ELSE 0)
    BY <1>2, <2>1, CommittedRows, CommittedMovements
  <2>3. CASE o # call[t].order
    BY <2>1, <2>2, <2>3
  <2>4. CASE o = call[t].order /\ call[t].op = "reserve"
    <3>1. Inserting(t) /\ tx[t].moved[p] = tx[t].held[p]
      BY <2>1, <2>4 DEF WritesInv, CountedInv, Counted
    <3>2. Movement(call[t]) = "reservation"
      BY <2>1, <2>4, MovementOfCall
    <3>3. tx[t].held[p] # 0 => row[o][p] = "none"
      BY <2>4, <3>1 DEF Inserting
    <3>4. tx[t].held[p] # 0 => held[o][p] = 0
      BY <3>3 DEF RowsInv
    <3>5. QED
      BY <2>1, <2>2, <2>4, <3>1, <3>2, <3>4
  <2>5. CASE o = call[t].order /\ call[t].op # "reserve"
    <3>1. tx[t].held[p] = 0
      BY <2>1, <2>5 DEF WritesInv, Marking
    <3>2. Movement(call[t]) # "reservation"
      BY <2>1, <2>5, MovementOfCall
    <3>3. QED
      BY <2>1, <2>2, <3>1, <3>2
  <2>6. QED
    BY <2>3, <2>4, <2>5
<1>3. QED
  BY <1>1, <1>2, VisibleAtCommit

LEMMA MovedAfterCommit ==
    ASSUME BaseInv, BaseInv', NEW t \in Txs, Commit(t), NEW m \in MovementType, NEW p \in Products
    PROVE  /\ Moved(m, p) \in Nat
           /\ Moved(m, p)' = Moved(m, p) + (IF m = Movement(call[t]) THEN tx[t].moved[p] ELSE 0)
<1> DEFINE f == [o \in Orders |-> moved[o][m][p]]
           g == [o \in Orders |-> moved'[o][m][p]]
           b == call[t].order
           d == IF m = Movement(call[t]) THEN tx[t].moved[p] ELSE 0
<1>1. Moved(m, p) = SumFunctionOnSet(f, Orders) /\ Moved(m, p)' = SumFunctionOnSet(g, Orders)
  BY DEF Moved
<1>2. b \in Orders /\ d \in Nat
  <2>1. b \in Orders /\ tx[t].moved[p] \in Nat
    BY CommittedRows DEF BaseInv, TxTyped, Writes
  <2>2. QED
    BY <2>1
<1>3. \A o \in Orders : f[o] \in Nat /\ g[o] \in Nat
  BY DEF BaseInv, CommittedTyped
<1>4. \A o \in Orders \ {b} : f[o] = g[o]
  BY <1>3, CommittedMovements
<1>5. g[b] = f[b] + d
  BY <1>2, CommittedMovements
<1>6. IsFiniteSet(Orders)
  BY FiniteAssumption
<1> HIDE DEF f, g, b, d
<1>7. /\ SumFunctionOnSet(f, Orders) \in Nat /\ SumFunctionOnSet(g, Orders) \in Nat
      /\ SumFunctionOnSet(g, Orders) + (IF b \in Orders THEN f[b] ELSE 0)
           = SumFunctionOnSet(f, Orders) + (IF b \in Orders THEN g[b] ELSE 0)
  BY <1>2, <1>3, <1>4, <1>6, SumChange
<1>8. SumFunctionOnSet(g, Orders) = SumFunctionOnSet(f, Orders) + d
  BY <1>2, <1>3, <1>5, <1>7
<1>9. QED
  BY <1>1, <1>7, <1>8 DEF d

\* What is committed to the counters is committed to the movements.
LEMMA LedgerStep ==
    ASSUME BaseInv, BaseInv', CountedInv, Ledger, NEW t \in Txs, StepOf(t)
    PROVE  Ledger'
<1>1. CASE UNCHANGED committed
  <2>1. available' = available /\ reserved' = reserved /\ moved' = moved
    BY <1>1 DEF committed
  <2>2. \A m, p : Moved(m, p)' = Moved(m, p)
    BY <2>1 DEF Moved
  <2>3. QED
    BY <2>1, <2>2 DEF Ledger
<1>2. CASE Commit(t)
  <2> DEFINE w == tx[t]
             M(m, p) == Moved(m, p)
             Mn(m, p) == Moved(m, p)'
             c == call[t]
  <2> SUFFICES ASSUME NEW p \in Products
               PROVE  /\ available'[p] = Initial[p] - Mn("reservation", p) + Mn("release", p)
                      /\ reserved'[p] = Mn("reservation", p) - Mn("release", p) - Mn("sale", p)
    BY DEF Ledger
  <2>1. /\ available[p] = Initial[p] - M("reservation", p) + M("release", p)
        /\ reserved[p] = M("reservation", p) - M("release", p) - M("sale", p)
    BY DEF Ledger
  <2>2. \A m \in MovementType : /\ M(m, p) \in Nat
                                /\ Mn(m, p) = M(m, p) + (IF m = Movement(c) THEN w.moved[p] ELSE 0)
    BY <1>2, MovedAfterCommit
  <2>3. /\ available'[p] = available[p] + w.available[p]
        /\ reserved'[p] = reserved[p] + w.reserved[p]
        /\ available[p] \in Nat /\ reserved[p] \in Nat /\ Initial[p] \in Nat
        /\ w.available[p] \in Int /\ w.reserved[p] \in Int /\ w.moved[p] \in Nat
    <3>1. available[p] \in Nat /\ reserved[p] \in Nat /\ Initial[p] \in Nat
      BY InitialAssumption DEF BaseInv, CommittedTyped
    <3>2. w.available[p] \in Int /\ w.reserved[p] \in Int /\ w.moved[p] \in Nat
      BY DEF BaseInv, TxTyped, Writes
    <3>3. available'[p] = available[p] + w.available[p] /\ reserved'[p] = reserved[p] + w.reserved[p]
      BY <1>2 DEF Commit
    <3>4. QED
      BY <3>1, <3>2, <3>3
  <2>4. c \in Call /\ pc[t] = "commit"
    BY <1>2, CallTyped DEF BaseInv, Commit
  <2>5. Counted(t)
    BY <2>4 DEF CountedInv
  <2>6. c.op = "reserve" => w.held[p] \in Nat /\ w.moved[p] = w.held[p]
                            /\ w.reserved[p] = w.held[p] + 0 /\ w.available[p] = - w.reserved[p]
    BY <2>4, <2>5 DEF Counted, Taken, BaseInv, TxTyped, Writes
  <2>7. c.op # "reserve" => w.reserved[p] = - w.moved[p]
                            /\ w.available[p] = (IF Returned(c) THEN w.moved[p] ELSE 0)
    BY <2>5 DEF Counted
  <2>8. /\ c.op = "reserve" => Movement(c) = "reservation"
        /\ c.op # "reserve" /\ Returned(c) => Movement(c) = "release"
        /\ ~ Returned(c) => Movement(c) = "sale" /\ c.op # "reserve"
    BY <2>4, MovementOfCall
  <2>9. "reservation" \in MovementType /\ "release" \in MovementType /\ "sale" \in MovementType
    BY DEF MovementType
  <2> DEFINE k == Movement(c)
  <2>10. /\ M("reservation", p) \in Nat /\ M("release", p) \in Nat /\ M("sale", p) \in Nat
         /\ Mn("reservation", p) = M("reservation", p) + (IF k = "reservation" THEN w.moved[p] ELSE 0)
         /\ Mn("release", p) = M("release", p) + (IF k = "release" THEN w.moved[p] ELSE 0)
         /\ Mn("sale", p) = M("sale", p) + (IF k = "sale" THEN w.moved[p] ELSE 0)
    <3> HIDE DEF M, Mn, w, c, k
    <3>1. QED
      BY <2>2, <2>9 DEF k
  <2> HIDE DEF M, Mn, w, k, c
  <2>11. CASE c.op = "reserve"
    <3>1. k = "reservation"
      BY <2>8, <2>11 DEF k
    <3>2. QED
      BY <2>1, <2>3, <2>6, <2>10, <2>11, <3>1
  <2>12. CASE c.op # "reserve" /\ Returned(c)
    <3>1. k = "release"
      BY <2>8, <2>12 DEF k
    <3>2. QED
      BY <2>1, <2>3, <2>7, <2>10, <2>12, <3>1
  <2>13. CASE ~ Returned(c)
    <3>1. k = "sale" /\ c.op # "reserve"
      BY <2>8, <2>13 DEF k
    <3>2. QED
      BY <2>1, <2>3, <2>7, <2>10, <2>13, <3>1
  <2>14. QED
    BY <2>11, <2>12, <2>13
<1>3. QED
  BY <1>1, <1>2, VisibleAtCommit

\* Only rows that were there can be announced as released, and no row goes.
LEMMA ReleasedHeldStep ==
    ASSUME BaseInv, WritesInv, ReleasedHeld, NEW t \in Txs, StepOf(t)
    PROVE  ReleasedHeld'
<1>1. CASE UNCHANGED committed
  BY <1>1 DEF committed, ReleasedHeld
<1>2. CASE Commit(t)
  <2> SUFFICES ASSUME NEW o \in Orders, announced'[o]["inventory.released"] > 0
               PROVE  \E p \in Products : row'[o][p] # "none"
    BY DEF ReleasedHeld
  <2>1. \A p \in Products : row[o][p] # "none" => row'[o][p] # "none"
    BY <1>2, CommittedRows
  <2> DEFINE A == Announce(t)
  <2>2. announced' = [announced EXCEPT ![call[t].order] = [type \in InventoryEventType |->
                        IF type \in A THEN @[type] + 1 ELSE @[type]]]
        /\ announced \in [Orders -> [InventoryEventType -> Nat]]
        /\ "inventory.released" \in InventoryEventType /\ call[t].order \in Orders
    BY <1>2, CommittedRows DEF Commit, BaseInv, CommittedTyped, InventoryEventType
  <2>3. "inventory.released" \in A
           => found[t] # <<>> /\ call[t].op # "reserve"
    BY DEF Announce
  <2> HIDE DEF A
  <2>4. CASE announced[o]["inventory.released"] > 0
    BY <2>1, <2>4 DEF ReleasedHeld
  <2>5. CASE ~ (announced[o]["inventory.released"] > 0)
    <3>1. o = call[t].order /\ "inventory.released" \in A
      BY <2>2, <2>5
    <3>2. found[t] \in Seq(Products) /\ found[t] # <<>> /\ Marking(t)
      BY <1>2, <2>3, <3>1 DEF BaseInv, ControlTyped, WritesInv, Commit
    <3>3. found[t][1] \in ToSet(found[t])
      <4>1. 1 \in DOMAIN found[t]
        BY <3>2, LenProperties, EmptySeq
      <4>2. QED
        BY <4>1 DEF ToSet
    <3>4. found[t][1] \in Products /\ row[o][found[t][1]] # "none"
      BY <3>1, <3>2, <3>3, FoundTyped DEF Marking, BaseInv
    <3>5. QED
      BY <2>1, <3>4
  <2>6. QED
    BY <2>4, <2>5
<1>3. QED
  BY <1>1, <1>2, VisibleAtCommit

----------------------------------------------------------------------------
\* The invariant of all orders

LEMMA SumZero ==
    ASSUME NEW S, IsFiniteSet(S), NEW f, \A x \in S : f[x] = 0
    PROVE  SumFunctionOnSet(f, S) = 0
<1> DEFINE Bad == {T \in SUBSET S : SumFunctionOnSet(f, T) # 0}
<1> SUFFICES ASSUME Bad # {}
             PROVE  FALSE
  OBVIOUS
<1>1. PICK T \in Bad : \A x \in T : T \ {x} \notin Bad
  <2>1. Bad \in SUBSET SUBSET S
    OBVIOUS
  <2> HIDE DEF Bad
  <2>2. QED
    BY <2>1, LeastSet
<1>2. IsFiniteSet(T) /\ T \subseteq S /\ SumFunctionOnSet(f, T) # 0
  BY FS_Subset
<1>3. T # {}
  BY <1>2, SumEmpty
<1> DEFINE c == CHOOSE x \in T : TRUE
<1>4. SumFunctionOnSet(f, T) = f[c] + SumFunctionOnSet(f, T \ {c})
  BY <1>2, <1>3, SumOfChosen
<1>5. c \in T
  BY <1>3
<1> HIDE DEF c
<1>6. SumFunctionOnSet(f, T \ {c}) = 0 /\ f[c] = 0
  BY <1>1, <1>2, <1>5
<1>7. QED
  BY <1>2, <1>4, <1>6

LEMMA FreeInvInit == Init => FreeInv
<1> SUFFICES ASSUME Init
             PROVE  FreeInv
  OBVIOUS
<1>1. BaseInv
  BY BaseInit
<1>2. WritesInv /\ RowsInv /\ CountedInv
  BY DEF Init, WritesInv, RowsInv, CountedInv
<1>3. ReservedOnce /\ ReleasedHeld
  BY DEF Init, ReservedOnce, ReleasedHeld, InventoryEventType
<1>4. HeldIsMoved
  BY DEF Init, HeldIsMoved, MovementType
<1>5. Ledger
  <2>1. ASSUME NEW m \in MovementType, NEW p \in Products
        PROVE  Moved(m, p) = 0
    <3> DEFINE f == [o \in Orders |-> moved[o][m][p]]
    <3>1. \A o \in Orders : f[o] = 0
      BY DEF Init
    <3> HIDE DEF f
    <3>2. SumFunctionOnSet(f, Orders) = 0
      BY <3>1, SumZero, FiniteAssumption
    <3>3. QED
      BY <3>2 DEF Moved, f
  <2>2. \A p \in Products : available[p] = Initial[p] /\ reserved[p] = 0 /\ Initial[p] \in Nat
    BY InitialAssumption DEF Init
  <2>3. QED
    BY <2>1, <2>2 DEF Ledger, MovementType
<1>6. QED
  BY <1>1, <1>2, <1>3, <1>4, <1>5 DEF FreeInv

LEMMA NextIsStep == Next => \E t \in Txs : StepOf(t)
  BY ArrivingAssumption DEF Next, StepOf

LEMMA FreeInvStep == FreeInv /\ [Next]_vars => FreeInv'
<1> SUFFICES ASSUME FreeInv, [Next]_vars
             PROVE  FreeInv'
  OBVIOUS
<1>0. BaseInv /\ WritesInv /\ RowsInv /\ ReservedOnce /\ ReleasedHeld /\ CountedInv /\ HeldIsMoved
      /\ Ledger
  BY DEF FreeInv
<1>1. BaseInv'
  BY <1>0, BaseStep
<1>2. CASE UNCHANGED vars
  <2>1. UNCHANGED <<available, reserved, row, held, moved, announced, pc, call, line, found, tx>>
    BY <1>2 DEF vars, committed, progress
  <2>2. \A u, p : RowSeenBy(u, p)' = RowSeenBy(u, p)
    BY <2>1 DEF RowSeenBy
  <2>3. \A u : Inserting(u)' <=> Inserting(u)
    BY <2>1, <2>2 DEF Inserting
  <2>4. \A u : Marking(u)' <=> Marking(u)
    BY <2>1 DEF Marking, Settled, Returned
  <2>5. WritesInv'
    BY <1>0, <2>1, <2>3, <2>4 DEF WritesInv
  <2>6. RowsInv' /\ ReservedOnce' /\ ReleasedHeld' /\ HeldIsMoved'
    BY <1>0, <2>1 DEF RowsInv, ReservedOnce, Asked, Named, FirstLines, ReleasedHeld, HeldIsMoved
  <2>7. \A m, p : Moved(m, p)' = Moved(m, p)
    BY <2>1 DEF Moved
  <2>8. Ledger'
    BY <1>0, <2>1, <2>7 DEF Ledger
  <2>9. \A u : Here(u)' = Here(u) /\ \A p : Taken(u, p)' <=> Taken(u, p)
    BY <2>1 DEF Here, Taken
  <2>10. CountedInv'
    BY <1>0, <2>1, <2>9 DEF CountedInv, Counted, Returned
  <2>11. QED
    BY <1>1, <2>5, <2>6, <2>8, <2>10 DEF FreeInv
<1>3. ASSUME NEW t \in Txs, StepOf(t)
      PROVE  FreeInv'
  <2>1. WritesInv' /\ RowsInv' /\ ReservedOnce' /\ ReleasedHeld'
    BY <1>0, <1>3, WritesInvStep, RowsInvStep, ReservedOnceStep, ReleasedHeldStep
  <2>2. CountedInv' /\ HeldIsMoved' /\ Ledger'
    BY <1>0, <1>1, <1>3, CountedInvStep, HeldIsMovedStep, LedgerStep
  <2>3. QED
    BY <1>1, <2>1, <2>2 DEF FreeInv
<1>4. QED
  BY <1>2, <1>3, NextIsStep

\* In any interleaving of calls, overlapping ones of the same order included: what the
\* counters, the rows and the movements are, and what is written of them.
THEOREM SpecFreeInv == Spec => []FreeInv
<1>1. QED
  BY FreeInvInit, FreeInvStep, PTL DEF Spec

\* What an order wants of a product is what the first line that names it asks for.
LEMMA WantedOfLine ==
    ASSUME NEW o \in Orders, NEW p \in Products
    PROVE  /\ ~ Asked(o, p) => Wanted(o, p) = 0
           /\ \A q : Named(o, p, q) => Wanted(o, p) = q
<1>1. ~ Asked(o, p) => FirstLines(o, p) = {}
  BY DEF Asked, FirstLines
<1>2. ASSUME NEW q, Named(o, p, q)
      PROVE  Wanted(o, p) = q
  <2>1. PICK i \in FirstLines(o, p) : Lines[o][i].quantity = q
    BY <1>2 DEF Named
  <2>2. \A j \in DOMAIN Lines[o] : j \in Nat
    <3>1. Lines[o] \in Seq([product : Products, quantity : Nat \ {0}])
      BY LinesAssumption
    <3>2. QED
      BY <3>1, LenProperties
  <2>3. \A j \in FirstLines(o, p) : j = i
    BY <2>2 DEF FirstLines
  <2>4. (CHOOSE j \in FirstLines(o, p) : TRUE) = i
    BY <2>3
  <2>5. QED
    BY <2>1, <2>4 DEF Wanted
<1>3. QED
  BY <1>1, <1>2 DEF Wanted

LEMMA WantedIsAsked ==
    ASSUME NEW o \in Orders, NEW p \in Products, Wanted(o, p) > 0
    PROVE  Asked(o, p)
  BY WantedOfLine

\* A reservation row goes from none to reserved and from there to released or committed, and
\* the rows of an order go there in the same commit, whatever calls overlap: retried
\* releases, and events that overtake reservations, included.
THEOREM SpecReservationsSettle == Spec => ReservationsSettle
<1> DEFINE Settle ==
      \A o \in Orders, p \in Products :
         row'[o][p] # row[o][p] =>
            /\ <<row[o][p], row'[o][p]>> \in
                  {<<"none", "reserved">>, <<"reserved", "released">>, <<"reserved", "committed">>}
            /\ \A r \in Products : row[o][r] = row[o][p] /\ Wanted(o, r) > 0
                                      => row'[o][r] = row'[o][p]
<1>1. FreeInv /\ [Next]_vars => [Settle]_vars
  <2> SUFFICES ASSUME FreeInv, Next
               PROVE  Settle
    OBVIOUS
  <2>1. PICK t \in Txs : StepOf(t)
    BY NextIsStep
  <2>2. BaseInv /\ WritesInv /\ RowsInv
    BY DEF FreeInv
  <2> SUFFICES ASSUME NEW o \in Orders, NEW p \in Products, row'[o][p] # row[o][p]
               PROVE  /\ <<row[o][p], row'[o][p]>> \in {<<"none", "reserved">>,
                            <<"reserved", "released">>, <<"reserved", "committed">>}
                      /\ \A r \in Products : row[o][r] = row[o][p] /\ Wanted(o, r) > 0
                                                => row'[o][r] = row'[o][p]
    OBVIOUS
  <2>3. Commit(t)
    BY <2>1, VisibleAtCommit DEF committed
  <2>4. o = call[t].order
    BY <2>2, <2>3, OtherOrders
  <2>5. \A r \in Products : Wanted(o, r) > 0 => Asked(o, r)
    BY WantedIsAsked
  <2>6. CASE \A r \in Products : /\ row[o][r] = "none"
                                 /\ row'[o][r] = IF Asked(o, r) THEN "reserved" ELSE "none"
    BY <2>5, <2>6
  <2>7. CASE \A r \in Products :
               row'[o][r] = IF row[o][r] = "reserved" THEN Settled(t) ELSE row[o][r]
    <3>1. Settled(t) \in {"released", "committed"}
      BY DEF Settled
    <3>2. QED
      BY <2>7, <3>1
  <2>8. QED
    BY <2>2, <2>3, <2>4, <2>6, <2>7, RowsGoOn
<1>2. QED
  BY <1>1, SpecFreeInv, PTL DEF Spec, ReservationsSettle

----------------------------------------------------------------------------
\* The rows of an order implement Reservation

\* Rows that are of one status have that status.
LEMMA OneStatus ==
    ASSUME NEW f,
           \A p, q \in Products : f[p] # "none" /\ f[q] # "none" => f[p] = f[q]
    PROVE  LET ss == {f[p] : p \in Products} \ {"none"}
               status == IF ss = {} THEN "none" ELSE CHOOSE s \in ss : TRUE
           IN /\ (\A p \in Products : f[p] = "none") => status = "none"
              /\ \A p \in Products : f[p] # "none" => status = f[p]
<1> DEFINE ss == {f[p] : p \in Products} \ {"none"}
           status == IF ss = {} THEN "none" ELSE CHOOSE s \in ss : TRUE
<1>1. (\A p \in Products : f[p] = "none") => ss = {}
  OBVIOUS
<1>2. ASSUME NEW p \in Products, f[p] # "none"
      PROVE  status = f[p]
  <2>1. f[p] \in ss /\ \A s \in ss : s = f[p]
    BY <1>2
  <2>2. ss # {}
    BY <2>1
  <2> HIDE DEF ss
  <2>3. QED
    BY <2>1, <2>2
<1>3. QED
  BY <1>1, <1>2

LEMMA KeptOf ==
    ASSUME RowsInv, NEW o \in Orders
    PROVE  /\ (\A p \in Products : row[o][p] = "none") => Kept[o] = "none"
           /\ \A p \in Products : row[o][p] # "none" => Kept[o] = row[o][p]
<1>1. \A p, q \in Products : row[o][p] # "none" /\ row[o][q] # "none" => row[o][p] = row[o][q]
  BY DEF RowsInv
<1>2. Kept[o] = StatusOf(o)
  BY DEF Kept
<1>3. QED
  BY <1>1, <1>2, OneStatus DEF StatusOf

LEMMA KeptOfNext ==
    ASSUME RowsInv', NEW o \in Orders
    PROVE  /\ (\A p \in Products : row'[o][p] = "none") => Kept'[o] = "none"
           /\ \A p \in Products : row'[o][p] # "none" => Kept'[o] = row'[o][p]
<1>1. \A p, q \in Products :
         row'[o][p] # "none" /\ row'[o][q] # "none" => row'[o][p] = row'[o][q]
  BY DEF RowsInv
<1>2. Kept'[o] = StatusOf(o)'
  BY DEF Kept
<1>3. QED
  BY <1>1, <1>2, OneStatus DEF StatusOf

\* A step of the service is a step of one reservation, or none of them notices.
LEMMA ReservationStep ==
    ASSUME FreeInv, RowsInv', NEW t \in Txs, StepOf(t)
    PROVE  [Contract!Next]_Kept
<1>1. CASE UNCHANGED committed
  <2>1. UNCHANGED row
    BY <1>1 DEF committed
  <2>2. UNCHANGED Kept
    BY <2>1 DEF Kept, StatusOf
  <2>3. QED
    BY <2>2
<1>2. CASE Commit(t)
  <2> DEFINE o == call[t].order
  <2>0. BaseInv /\ WritesInv /\ RowsInv /\ o \in Orders
    BY <1>2, CommittedRows DEF FreeInv
  <2>1. ASSUME NEW x \in Orders, \A p \in Products : row'[x][p] = row[x][p]
        PROVE  Kept'[x] = Kept[x]
    <3>1. {row'[x][p] : p \in Products} = {row[x][p] : p \in Products}
      BY <2>1
    <3>2. StatusOf(x)' = StatusOf(x)
      BY <3>1 DEF StatusOf
    <3>3. QED
      BY <3>2 DEF Kept
  <2>2. \A x \in Orders \ {o} : Kept'[x] = Kept[x]
    BY <1>2, <2>0, <2>1, OtherOrders
  <2>3. Kept = [x \in Orders |-> Kept[x]] /\ Kept' = [x \in Orders |-> Kept'[x]]
    BY DEF Kept
  <2> SUFFICES ASSUME NEW p \in Products, row'[o][p] # row[o][p]
               PROVE  Contract!Hold(o) \/ Contract!GiveBack(o) \/ Contract!TakeOut(o)
    <3>1. CASE \A p \in Products : row'[o][p] = row[o][p]
      <4>1. \A x \in Orders : Kept'[x] = Kept[x]
        BY <2>0, <2>1, <2>2, <3>1
      <4>2. Kept' = Kept
        BY <2>3, <4>1
      <4>3. QED
        BY <4>2
    <3>2. QED
      BY <2>0, <3>1 DEF Contract!Next
  <2> HIDE DEF o
  <2>4. CASE /\ call[t].op = "reserve"
             /\ \A q \in Products : /\ row[o][q] = "none"
                                    /\ row'[o][q] = IF Asked(o, q) THEN "reserved" ELSE "none"
    <3>1. row'[o][p] = "reserved"
      BY <2>4
    <3>2. Kept[o] = "none" /\ Kept'[o] = "reserved"
      BY <2>0, <2>4, <3>1, KeptOf, KeptOfNext
    <3>3. Kept' = [Kept EXCEPT ![o] = "reserved"]
      BY <2>0, <2>2, <2>3, <3>2
    <3>4. QED
      BY <3>2, <3>3 DEF Contract!Hold
  <2>5. CASE \A q \in Products :
               row'[o][q] = IF row[o][q] = "reserved" THEN Settled(t) ELSE row[o][q]
    <3>1. Settled(t) \in {"released", "committed"}
      BY DEF Settled
    <3>2. row[o][p] = "reserved" /\ row'[o][p] = Settled(t)
      BY <2>5
    <3>3. Kept[o] = "reserved" /\ Kept'[o] = Settled(t)
      BY <2>0, <3>1, <3>2, KeptOf, KeptOfNext
    <3>4. Kept' = [Kept EXCEPT ![o] = Settled(t)]
      BY <2>0, <2>2, <2>3, <3>3
    <3>5. QED
      BY <3>1, <3>3, <3>4 DEF Contract!GiveBack, Contract!TakeOut
  <2>6. QED
    BY <1>2, <2>0, <2>4, <2>5, RowsGoOn DEF o
<1>3. QED
  BY <1>1, <1>2, VisibleAtCommit

\* The inventory implements Reservation, line by line and row by row, whatever calls overlap:
\* to a caller an order has one reservation, which is made, given back or taken out as a whole.
THEOREM SpecImplementsReservation == Spec => ImplementsReservation
<1>1. Init => Contract!Init
  <2> SUFFICES ASSUME Init
               PROVE  Kept = [o \in Orders |-> "none"]
    BY DEF Contract!Init
  <2>1. \A o \in Orders : StatusOf(o) = "none"
    BY DEF Init, StatusOf
  <2>2. QED
    BY <2>1 DEF Kept
<1>2. FreeInv /\ FreeInv' /\ [Next]_vars => [Contract!Next]_Kept
  <2> SUFFICES ASSUME FreeInv, FreeInv', [Next]_vars
               PROVE  [Contract!Next]_Kept
    OBVIOUS
  <2>1. CASE UNCHANGED vars
    <3>1. UNCHANGED row
      BY <2>1 DEF vars, committed
    <3>2. QED
      BY <3>1 DEF Kept, StatusOf
  <2>2. ASSUME NEW t \in Txs, StepOf(t)
        PROVE  [Contract!Next]_Kept
    BY <2>2, ReservationStep DEF FreeInv
  <2>3. QED
    BY <2>1, <2>2, NextIsStep
<1>3. QED
  BY <1>1, <1>2, SpecFreeInv, PTL DEF Spec, ImplementsReservation, Contract!Spec

----------------------------------------------------------------------------
\* What reservations and releases write of an order that is not raced

\* An order that was raced stays so, and becomes so when a call begins.
LEMMA RacedGrows ==
    ASSUME NEW t \in Txs, StepOf(t)
    PROVE  /\ raced \subseteq raced'
           /\ (\E c \in Call : Begin(t, c)) \/ raced' = raced
<1>1. (\E c \in Call : Begin(t, c)) => raced \subseteq raced'
  BY DEF Begin
<1>2. (\E c \in Call : Begin(t, c)) \/ raced' = raced
  BY DEF StepOf, Statement, Fail, DeadlockVictim, Rollback, MarkProcessed, CheckDuplicate,
         TakeStock, InsertReservation, SelectReserved, UpdateCounters, MarkRows, Commit
<1>3. QED
  BY <1>1, <1>2

LEMMA SideBySideStep ==
    ASSUME BaseInv, SideBySide, NEW t \in Txs, StepOf(t)
    PROVE  SideBySide'
<1> SUFFICES ASSUME NEW u \in Txs, NEW v \in Txs, u # v, pc'[u] # "idle", pc'[v] # "idle",
                    call'[u].order = call'[v].order, call'[u].order \notin raced'
             PROVE  call'[u].op = "reserve"
  BY DEF SideBySide
<1>0. ControlTyped /\ call'[u].order \notin raced
  BY RacedGrows DEF BaseInv
<1>1. CASE u # t /\ v # t
  BY <1>0, <1>1, OthersUntouched DEF Untouched, SideBySide
<1>2. CASE \E c \in Call : Begin(t, c)
  <2>1. PICK c \in Call : Begin(t, c)
    BY <1>2
  <2>2. call'[t] = c
    BY <1>0, <2>1 DEF Begin, ControlTyped
  <2>3. \A w \in Txs : pc[w] # "idle" /\ call[w].order = c.order /\ c.order \notin raced'
                          => c.op = "reserve" /\ call[w].op = "reserve"
    BY <2>1 DEF Begin, Race
  <2>4. QED
    BY <1>1, <2>2, <2>3, OthersUntouched DEF Untouched
<1>3. CASE ~ (\E c \in Call : Begin(t, c))
  <2>1. pc'[t] = "idle" \/ (call'[t] = call[t] /\ pc[t] # "idle")
    BY <1>3, OwnStep
  <2>2. QED
    BY <1>0, <1>1, <2>1, OthersUntouched DEF Untouched, SideBySide
<1>4. QED
  BY <1>2, <1>3

\* What somebody else's commit can do to a reservation under way: it reserves rows that
\* this one did not write.
LEMMA ReservingNextToOthers ==
    ASSUME BaseInv, WritesInv, SideBySide, NEW t \in Txs, StepOf(t), NEW u \in Txs \ {t},
           pc[u] # "idle", call[u].op = "reserve", call[u].order \notin raced, Reserving(u)
    PROVE  Reserving(u)'
<1> DEFINE o == call[u].order
<1>0. Untouched(u) /\ o \in Orders
  BY OthersUntouched, CallTyped DEF BaseInv
<1>1. ASSUME NEW p \in Products
      PROVE  row'[o][p] = row[o][p] \/ (row'[o][p] = "reserved" /\ tx[u].row[p] = "none")
  <2> SUFFICES ASSUME row'[o][p] # row[o][p]
               PROVE  row'[o][p] = "reserved" /\ tx[u].row[p] = "none"
    OBVIOUS
  <2>1. /\ tx[u].row[p] = "none" /\ Commit(t) /\ o = call[t].order
        /\ row'[o][p] = tx[t].row[p] /\ tx[t].row[p] # "none"
    BY RowsNextToOthers
  <2>2. pc[t] # "idle"
    BY <2>1 DEF Commit
  <2>3. call[t].op = "reserve"
    BY <2>1, <2>2 DEF SideBySide
  <2>4. tx[t].row[p] = "reserved"
    BY <2>1, <2>2, <2>3 DEF WritesInv, Inserting
  <2>5. QED
    BY <2>1, <2>4
<1>2. \A i \in DOMAIN Lines[o] : Lines[o][i].product \in Products
  BY <1>0, LineTyped
<1> HIDE DEF o
<1>3. call[u].order = o /\ call'[u].order = o
  BY <1>0 DEF o, Untouched
<1>4. \A p \in Products : RowSeenBy(u, p) = "reserved" => RowSeenBy(u, p)' = "reserved"
  BY <1>0, <1>1, <1>3 DEF RowSeenBy, Untouched
<1>5. QED
  BY <1>0, <1>2, <1>3, <1>4 DEF Reserving, Untouched

LEMMA ReservingBegins ==
    ASSUME BaseInv, NEW t \in Txs, NEW c \in Call, Begin(t, c), c.op = "reserve"
    PROVE  Reserving(t)'
<1>1. pc'[t] = "check" /\ call'[t] = c /\ line'[t] = 1
  <2>0. c \notin OrderEvent /\ c.op # "release"
    BY DEF OrderEvent
  <2>1. pc' = [pc EXCEPT ![t] = "check"]
    BY <2>0 DEF Begin, Goto
  <2>2. pc[t] = "idle" /\ call' = [call EXCEPT ![t] = c] /\ line' = line
    BY DEF Begin
  <2>3. QED
    BY <2>1, <2>2 DEF BaseInv, ControlTyped, CallInv
<1>2. c.order \in Orders
  BY DEF Call, Request, OrderEvent
<1>3. Lines[c.order] \in Seq([product : Products, quantity : Nat \ {0}])
  BY <1>2, LinesAssumption
<1>4. \A i \in DOMAIN Lines[c.order] : i \in Nat \ {0}
  BY <1>3, LenProperties
<1>5. QED
  BY <1>1, <1>4 DEF Reserving

LEMMA ReservingGoesOn ==
    ASSUME BaseInv, NEW t \in Txs, call[t].op = "reserve", Reserving(t), pc[t] # "idle",
           UNCHANGED <<committed, call>>,
           CheckDuplicate(t) \/ TakeStock(t) \/ InsertReservation(t), ~ Rollback(t)
    PROVE  Reserving(t)'
<1> DEFINE o == call[t].order
           Seen(p) == RowSeenBy(t, p)
<1>0. /\ ControlTyped /\ call'[t] = call[t] /\ row' = row /\ o \in Orders
      /\ line[t] \in Nat \ {0} /\ DOMAIN Lines[o] = 1..Len(Lines[o]) /\ Len(Lines[o]) \in Nat
  BY CallTyped DEF BaseInv, committed, ControlTyped
<1>1. \A i \in DOMAIN Lines[o] : Lines[o][i].product \in Products
  BY <1>0, LineTyped
<1>2. \A i \in DOMAIN Lines[o] : i < line[t] => Seen(Lines[o][i].product) = "reserved"
  BY DEF Reserving
<1>3. CASE CheckDuplicate(t)
  <2>1. pc[t] = "check" /\ tx' = tx
    BY <1>3 DEF CheckDuplicate
  <2>2. \A p : RowSeenBy(t, p)' = Seen(p)
    BY <1>0, <2>1 DEF RowSeenBy
  <2>3. CASE line[t] > Len(Lines[o]) /\ Goto(t, "commit") /\ line' = line
    <3>1. \A i \in DOMAIN Lines[o] : i < line[t]
      BY <1>0, <2>3
    <3>2. \A i \in DOMAIN Lines[o] : RowSeenBy(t, Lines[o][i].product)' = "reserved"
      BY <1>2, <2>2, <3>1
    <3>3. QED
      BY <1>0, <3>2 DEF Reserving
  <2>4. CASE /\ line[t] <= Len(Lines[o]) /\ RowSeenBy(t, Here(t).product) = "reserved"
             /\ line' = [line EXCEPT ![t] = @ + 1] /\ pc' = pc
    <3>1. pc'[t] = "check" /\ line'[t] = line[t] + 1
      BY <1>0, <2>1, <2>4 DEF ControlTyped
    <3>2. \A i \in DOMAIN Lines[o] : i < line[t] + 1 => i < line[t] \/ i = line[t]
      BY <1>0
    <3>3. Seen(Lines[o][line[t]].product) = "reserved"
      BY <2>4 DEF Here
    <3>4. \A i \in DOMAIN Lines[o] :
             i < line[t] + 1 => RowSeenBy(t, Lines[o][i].product)' = "reserved"
      BY <1>2, <2>2, <3>2, <3>3
    <3>5. QED
      BY <1>0, <3>1, <3>4 DEF Reserving
  <2>5. CASE Goto(t, "take") /\ line' = line
    <3>1. pc'[t] = "take"
      BY <1>0, <2>5 DEF Goto, ControlTyped
    <3>2. \A i \in DOMAIN Lines[o] : i < line[t] => RowSeenBy(t, Lines[o][i].product)' = "reserved"
      BY <1>2, <2>2
    <3>3. QED
      BY <1>0, <2>5, <3>1, <3>2 DEF Reserving
  <2>6. QED
    BY <1>3, <2>3, <2>4, <2>5 DEF CheckDuplicate
<1>4. CASE TakeStock(t)
  <2>1. pc[t] = "take" /\ Here(t).product \in Products /\ Here(t).quantity \in Nat
    BY <1>4, HereTyped DEF TakeStock
  <2>2. /\ AddToCounters(t, Here(t).product, - Here(t).quantity, Here(t).quantity, 0)
        /\ Goto(t, "insert") /\ line' = line
    BY <1>4 DEF TakeStock, progress
  <2>3. pc'[t] = "insert"
    BY <1>0, <2>2 DEF Goto, ControlTyped
  <2>4. - Here(t).quantity \in Int /\ Here(t).quantity \in Int /\ 0 \in Nat /\ TxTyped
    BY <2>1 DEF BaseInv
  <2>5. CountersWritten(t, Here(t).product, - Here(t).quantity, Here(t).quantity, 0)
    BY <2>1, <2>2, <2>4, CountersChange
  <2>6. \A p \in Products : tx'[t].row[p] = tx[t].row[p]
    BY <2>5 DEF CountersWritten
  <2>7. \A i \in DOMAIN Lines[o] : i < line[t] => RowSeenBy(t, Lines[o][i].product)' = "reserved"
    BY <1>0, <1>1, <1>2, <2>6 DEF RowSeenBy
  <2>8. QED
    BY <1>0, <2>2, <2>3, <2>7 DEF Reserving
<1>5. CASE InsertReservation(t)
  <2>1. /\ pc[t] = "insert" /\ Here(t).product \in Products
        /\ line[t] \in DOMAIN Lines[o] /\ Here(t) = Lines[o][line[t]]
    BY <1>5, HereTyped DEF InsertReservation, Here
  <2>2. Inserts(t)
    BY <1>5, InsertOrRollback
  <2>3. pc'[t] = "check" /\ line'[t] = line[t] + 1 /\ RowWritten(t)
    BY <1>0, <2>2 DEF Inserts, Goto, ControlTyped
  <2>4. \A p \in Products :
           RowSeenBy(t, p)' = IF p = Here(t).product THEN "reserved" ELSE Seen(p)
    BY <1>0, <2>3 DEF RowSeenBy, RowWritten
  <2>5. \A i \in DOMAIN Lines[o] :
           i < line[t] + 1 => RowSeenBy(t, Lines[o][i].product)' = "reserved"
    <3> SUFFICES ASSUME NEW i \in DOMAIN Lines[o], i < line[t] + 1,
                        Lines[o][i].product # Here(t).product
                 PROVE  RowSeenBy(t, Lines[o][i].product)' = "reserved"
      BY <1>1, <2>4
    <3>1. i < line[t]
      BY <1>0, <2>1
    <3>2. QED
      BY <1>1, <1>2, <2>4, <3>1
  <2>6. QED
    BY <1>0, <2>3, <2>5 DEF Reserving
<1>6. QED
  BY <1>3, <1>4, <1>5

LEMMA ReserveInvStep ==
    ASSUME BaseInv, WritesInv, SideBySide, ReserveInv, NEW t \in Txs, StepOf(t)
    PROVE  ReserveInv'
<1> SUFFICES ASSUME NEW u \in Txs, pc'[u] # "idle", call'[u].op = "reserve",
                    call'[u].order \notin raced'
             PROVE  Reserving(u)'
  BY DEF ReserveInv
<1>0. call'[u].order \notin raced
  BY RacedGrows
<1>1. CASE u # t
  BY <1>0, <1>1, OthersUntouched, ReservingNextToOthers DEF Untouched, ReserveInv
<1>2. CASE u = t
  <2>1. CASE \E c \in Call : Begin(t, c)
    <3>1. PICK c \in Call : Begin(t, c)
      BY <2>1
    <3>2. call'[t] = c
      BY <3>1 DEF Begin, BaseInv, ControlTyped
    <3>3. QED
      BY <1>2, <3>1, <3>2, ReservingBegins
  <2>2. CASE /\ MarkProcessed(t) \/ CheckDuplicate(t) \/ TakeStock(t) \/ InsertReservation(t)
                \/ SelectReserved(t) \/ UpdateCounters(t) \/ MarkRows(t)
             /\ pc[t] # "idle" /\ call' = call /\ ~ Rollback(t) /\ UNCHANGED committed
    <3>1. call[t].op = "reserve" /\ Reserving(t)
      BY <1>0, <1>2, <2>2 DEF ReserveInv
    <3>2. pc[t] \notin {"mark_processed", "select", "update"}
      BY <3>1 DEF BaseInv, CallInv
    <3>3. CheckDuplicate(t) \/ TakeStock(t) \/ InsertReservation(t)
      BY <2>2, <3>2 DEF MarkProcessed, SelectReserved, UpdateCounters, MarkRows
    <3>4. QED
      BY <1>2, <2>2, <3>1, <3>3, ReservingGoesOn
  <2>3. QED
    BY <1>2, <2>1, <2>2, OwnStep
<1>3. QED
  BY <1>1, <1>2

\* Nobody else touches the rows of an order while they are released or sold.
LEMMA ReleasingNextToOthers ==
    ASSUME BaseInv, SideBySide, NEW t \in Txs, StepOf(t), NEW u \in Txs \ {t}, Releasing(u),
           pc[u] \in {"update", "commit"}, call[u].op # "reserve", call[u].order \notin raced
    PROVE  Releasing(u)'
<1> DEFINE o == call[u].order
<1>0. Untouched(u) /\ o \in Orders
  BY OthersUntouched, CallTyped DEF BaseInv
<1>1. ASSUME NEW p \in Products
      PROVE  row'[o][p] = row[o][p] /\ held'[o][p] = held[o][p]
  <2>1. CASE UNCHANGED committed
    BY <2>1 DEF committed
  <2>2. CASE Commit(t)
    <3>1. pc[t] # "idle" /\ pc[u] # "idle"
      BY <2>2 DEF Commit
    <3>2. o # call[t].order
      BY <3>1 DEF SideBySide
    <3>3. QED
      BY <1>0, <2>2, <3>2, CommittedRows
  <2>3. QED
    BY <2>1, <2>2, VisibleAtCommit
<1> HIDE DEF o
<1>2. call[u].order = o /\ call'[u].order = o
  BY <1>0 DEF o, Untouched
<1>3. Settled(u)' = Settled(u) /\ Updated(u)' = Updated(u)
  BY <1>0 DEF Settled, Returned, Updated, Untouched
<1>4. {p \in Products : row'[o][p] = "reserved"} = {p \in Products : row[o][p] = "reserved"}
  BY <1>1
<1>5. QED
  BY <1>0, <1>1, <1>2, <1>3, <1>4 DEF Releasing, Untouched

\* What is left of a sequence without repetitions.
LEMMA TailOnce ==
    ASSUME NEW S, NEW s \in Seq(S), s # <<>>, \A i, j \in DOMAIN s : s[i] = s[j] => i = j
    PROVE  /\ Tail(s) \in Seq(S) /\ Head(s) \in ToSet(s)
           /\ ToSet(Tail(s)) = ToSet(s) \ {Head(s)}
           /\ \A i, j \in DOMAIN Tail(s) : Tail(s)[i] = Tail(s)[j] => i = j
<1>1. /\ Tail(s) \in Seq(S) /\ Len(s) \in Nat \ {0} /\ DOMAIN s = 1..Len(s)
      /\ Len(Tail(s)) = Len(s) - 1 /\ DOMAIN Tail(s) = 1..(Len(s) - 1)
      /\ \A i \in DOMAIN Tail(s) : Tail(s)[i] = s[i + 1]
      /\ Head(s) = s[1]
  <2>1. Tail(s) \in Seq(S) /\ Len(s) \in Nat \ {0} /\ Len(Tail(s)) = Len(s) - 1
    BY HeadTailProperties, EmptySeq, LenProperties
  <2>2. DOMAIN s = 1..Len(s) /\ DOMAIN Tail(s) = 1..(Len(s) - 1)
    BY <2>1, LenProperties
  <2>3. \A i \in DOMAIN Tail(s) : Tail(s)[i] = s[i + 1]
    BY <2>1, <2>2, HeadTailProperties
  <2>4. QED
    BY <2>1, <2>2, <2>3
<1>2. 1 \in DOMAIN s
  BY <1>1
<1>3. \A i \in DOMAIN Tail(s) : i + 1 \in DOMAIN s /\ i + 1 # 1 /\ i \in Nat
  BY <1>1
<1>4. \A k \in DOMAIN s : k = 1 \/ (k - 1 \in DOMAIN Tail(s) /\ (k - 1) + 1 = k)
  BY <1>1
<1>5. ToSet(Tail(s)) = ToSet(s) \ {Head(s)}
  <2>1. ASSUME NEW x \in ToSet(Tail(s))
        PROVE  x \in ToSet(s) \ {Head(s)}
    <3>1. PICK i \in DOMAIN Tail(s) : x = Tail(s)[i]
      BY DEF ToSet
    <3>2. x = s[i + 1] /\ i + 1 \in DOMAIN s /\ i + 1 # 1
      BY <1>1, <1>3, <3>1
    <3>3. x # s[1]
      BY <1>2, <3>2
    <3>4. QED
      BY <1>1, <3>2, <3>3 DEF ToSet
  <2>2. ASSUME NEW x \in ToSet(s) \ {Head(s)}
        PROVE  x \in ToSet(Tail(s))
    <3>1. PICK k \in DOMAIN s : x = s[k]
      BY DEF ToSet
    <3>2. k # 1
      BY <1>1, <3>1
    <3>3. k - 1 \in DOMAIN Tail(s) /\ Tail(s)[k - 1] = s[k]
      BY <1>1, <1>4, <3>2
    <3>4. QED
      BY <3>1, <3>3 DEF ToSet
  <2>3. QED
    BY <2>1, <2>2
<1>6. \A i, j \in DOMAIN Tail(s) : Tail(s)[i] = Tail(s)[j] => i = j
  <2> SUFFICES ASSUME NEW i \in DOMAIN Tail(s), NEW j \in DOMAIN Tail(s), Tail(s)[i] = Tail(s)[j]
               PROVE  i = j
    OBVIOUS
  <2>1. i + 1 = j + 1
    BY <1>1, <1>3
  <2>2. QED
    BY <1>3, <2>1
<1>7. QED
  BY <1>1, <1>2, <1>5, <1>6 DEF ToSet

LEMMA ReleasingSelects ==
    ASSUME BaseInv, NEW t \in Txs, SelectReserved(t)
    PROVE  Releasing(t)'
<1> DEFINE o == call[t].order
           S == {p \in Products : row[o][p] = "reserved"}
<1>0. /\ pc[t] = "select" /\ ControlTyped /\ tx[t] = NoWrites
      /\ UNCHANGED <<committed, call, tx>> /\ pc' = [pc EXCEPT ![t] = "update"]
  BY DEF SelectReserved, BaseInv, CallInv, Goto
<1>1. PICK s \in SetToSeqs(S) : found' = [found EXCEPT ![t] = s] /\ todo' = [todo EXCEPT ![t] = s]
  BY DEF SelectReserved
<1>2. ToSet(s) = S /\ \A i, j \in DOMAIN s : s[i] = s[j] => i = j
  BY QueryResult
<1>3. /\ found'[t] = s /\ todo'[t] = s /\ pc'[t] = "update" /\ call'[t].order = o
      /\ row' = row /\ tx'[t] = NoWrites
  BY <1>0, <1>1 DEF ControlTyped, committed
<1> HIDE DEF o
<1>4. Updated(t)' = {}
  BY <1>3 DEF Updated
<1>5. QED
  BY <1>2, <1>3, <1>4, NoWritesTyped DEF Releasing

LEMMA ReleasingUpdates ==
    ASSUME BaseInv, NEW t \in Txs, Releasing(t), UpdateCounters(t), ~ Rollback(t)
    PROVE  Releasing(t)'
<1> DEFINE o == call[t].order
           h == Head(todo[t])
           q == held[o][h]
           r == IF Returned(call[t]) THEN q ELSE 0
<1>0. /\ pc[t] = "update" /\ todo[t] # <<>> /\ ControlTyped /\ TxTyped /\ todo[t] \in Seq(Products)
      /\ o \in Orders /\ ToSet(todo[t]) \subseteq ToSet(found[t])
      /\ \A p \in Products : held[o][p] \in Nat /\ tx[t].moved[p] \in Nat
  <2>1. pc[t] = "update" /\ todo[t] # <<>>
    BY DEF UpdateCounters
  <2>2. ControlTyped /\ TxTyped /\ CommittedTyped
    BY DEF BaseInv
  <2>3. o \in Orders
    BY <2>1, <2>2, CallTyped
  <2>4. todo[t] \in Seq(Products) /\ ToSet(todo[t]) \subseteq ToSet(found[t])
    BY <2>2 DEF ControlTyped
  <2>5. \A p \in Products : tx[t].moved[p] \in Nat
    BY <2>2 DEF TxTyped, Writes
  <2>6. \A p \in Products : held[o][p] \in Nat
    BY <2>2, <2>3 DEF CommittedTyped
  <2>7. QED
    BY <2>1, <2>2, <2>3, <2>4, <2>5, <2>6
<1>1. /\ AddToCounters(t, h, r, - q, q) /\ todo' = [todo EXCEPT ![t] = Tail(todo[t])]
      /\ UNCHANGED <<committed, pc, call, line, found, rowLock>>
  BY DEF UpdateCounters
<1>2. /\ Head(todo[t]) \in ToSet(todo[t])
      /\ ToSet(Tail(todo[t])) = ToSet(todo[t]) \ {h}
      /\ \A i, j \in DOMAIN Tail(todo[t]) : Tail(todo[t])[i] = Tail(todo[t])[j] => i = j
  BY <1>0, TailOnce DEF Releasing
<1>3. h \in Products
  BY <1>0, HeadTailProperties
<1>4. q \in Nat /\ r \in Int /\ - q \in Int
  BY <1>0, <1>3
<1>5. todo'[t] = Tail(todo[t]) /\ pc'[t] = "update" /\ call'[t] = call[t] /\ found'[t] = found[t]
      /\ row' = row /\ held' = held
  BY <1>0, <1>1 DEF ControlTyped, committed
<1>6. \A p : p \in Updated(t)' <=> p \in Updated(t) \/ p = h
  BY <1>0, <1>2, <1>5 DEF Updated
<1>7. h \notin Updated(t)
  BY <1>2 DEF Updated
<1> DEFINE da == r
           dr == - q
<1>8. CountersWritten(t, h, da, dr, q)
  <2> HIDE DEF q, r, h, o
  <2>1. QED
    BY <1>0, <1>1, <1>3, <1>4, CountersChange
<1>9. ASSUME NEW p \in Products
      PROVE  tx'[t].moved[p] = (IF p \in Updated(t)' THEN held[o][p] ELSE 0)
  <2>1. tx[t].moved[p] = (IF p \in Updated(t) THEN held[o][p] ELSE 0)
    BY <1>0 DEF Releasing
  <2>2. tx'[t].moved[p] = tx[t].moved[p] + (IF p = h THEN q ELSE 0)
    BY <1>8 DEF CountersWritten
  <2>3. CASE p = h
    <3>1. q = held[o][p] /\ p \notin Updated(t) /\ p \in Updated(t)'
      BY <1>6, <1>7, <2>3
    <3> HIDE DEF q, h, r, o
    <3>2. QED
      BY <1>4, <2>1, <2>2, <2>3, <3>1
  <2>4. CASE p # h
    BY <1>0, <1>6, <2>1, <2>2, <2>4
  <2>5. QED
    BY <2>3, <2>4
<1> HIDE DEF o
<1>10. call'[t].order = o /\ call[t].order = o
  BY <1>5 DEF o
<1>11. QED
  BY <1>0, <1>2, <1>5, <1>9, <1>10 DEF Releasing

LEMMA ReleasingMarks ==
    ASSUME BaseInv, NEW t \in Txs, Releasing(t), Marking(t), MarkRows(t)
    PROVE  Releasing(t)'
<1> DEFINE o  == call[t].order
           ps == {p \in Products : row[o][p] = "reserved"}
           to == Settled(t)
           m  == [p \in Products |-> IF p \in ps THEN to ELSE tx[t].row[p]]
           w  == [tx[t] EXCEPT !.row = m]
<1>0. /\ pc[t] = "update" /\ todo[t] = <<>> /\ ControlTyped
      /\ pc' = [pc EXCEPT ![t] = "commit"] /\ UNCHANGED <<committed, progress>>
  BY DEF MarkRows, Goto, BaseInv
<1>1. tx' = [tx EXCEPT ![t] = w]
  BY DEF MarkRows, Settled
<1>2. tx[t] \in Writes /\ tx \in [Txs -> Writes]
  BY DEF BaseInv, TxTyped
<1>3. w.row = m /\ w.moved = tx[t].moved
  BY <1>2 DEF Writes
<1>4. tx'[t] = w
  BY <1>1, <1>2
<1> HIDE DEF w
<1>5. \A p \in Products : /\ tx'[t].row[p] = IF p \in ps THEN to ELSE tx[t].row[p]
                          /\ tx'[t].moved[p] = tx[t].moved[p]
  BY <1>3, <1>4
<1>6. /\ pc'[t] = "commit" /\ call' = call /\ found' = found /\ todo' = todo /\ row' = row
      /\ held' = held
  BY <1>0 DEF ControlTyped, committed, progress
<1>7. Updated(t)' = Updated(t) /\ Settled(t)' = to
  BY <1>6 DEF Updated, Settled, Returned
<1>8. ToSet(found[t]) = ps
  BY DEF Releasing
<1> HIDE DEF ps, to, m
<1>9. \A p \in Products : tx[t].row[p] = "none"
  BY <1>0 DEF Marking
<1>10. \A p \in Products : tx'[t].row[p] = IF p \in ToSet(found[t]) THEN to ELSE "none"
  BY <1>5, <1>8, <1>9
<1>11. QED
  BY <1>0, <1>5, <1>6, <1>7, <1>10 DEF Releasing

LEMMA ReleaseInvStep ==
    ASSUME BaseInv, WritesInv, SideBySide, ReleaseInv, NEW t \in Txs, StepOf(t)
    PROVE  ReleaseInv'
<1> SUFFICES ASSUME NEW u \in Txs, pc'[u] \in {"update", "commit"}, call'[u].op # "reserve",
                    call'[u].order \notin raced'
             PROVE  Releasing(u)'
  BY DEF ReleaseInv
<1>0. call'[u].order \notin raced
  BY RacedGrows
<1>1. CASE u # t
  BY <1>0, <1>1, OthersUntouched, ReleasingNextToOthers DEF Untouched, ReleaseInv
<1>2. CASE u = t
  <2>0. ControlTyped
    BY DEF BaseInv
  <2>1. CASE \E c \in Call : Begin(t, c)
    <3>1. PICK c \in Call : Begin(t, c)
      BY <2>1
    <3> DEFINE l == CASE c.op = "reserve" -> "check"
                      [] c.op = "release" -> "select"
                      [] c \in OrderEvent -> "mark_processed"
    <3>2. pc'[t] = l
      BY <2>0, <3>1 DEF Begin, Goto, ControlTyped
    <3>3. c \in OrderEvent <=> c.op \notin {"reserve", "release"}
      BY DEF Call, Request, OrderEvent
    <3>4. l \in {"check", "select", "mark_processed"}
      BY <3>3
    <3>5. QED
      BY <1>2, <3>2, <3>4
  <2>2. CASE /\ MarkProcessed(t) \/ CheckDuplicate(t) \/ TakeStock(t) \/ InsertReservation(t)
                \/ SelectReserved(t) \/ UpdateCounters(t) \/ MarkRows(t)
             /\ pc[t] # "idle" /\ call' = call /\ ~ Rollback(t) /\ UNCHANGED committed
    <3>1. call[t].op # "reserve" /\ call[t].order \notin raced
      BY <1>0, <1>2, <2>2
    <3>2. pc[t] \notin {"check", "take", "insert"}
      BY <3>1 DEF BaseInv, CallInv
    <3>3. MarkProcessed(t) \/ SelectReserved(t) \/ UpdateCounters(t) \/ MarkRows(t)
      BY <2>2, <3>2 DEF CheckDuplicate, TakeStock, InsertReservation
    <3>4. ~ MarkProcessed(t)
      BY <1>2, <2>0, <2>2 DEF MarkProcessed, Goto, ControlTyped
    <3>5. UpdateCounters(t) \/ MarkRows(t) => Releasing(t)
      BY <3>1 DEF UpdateCounters, MarkRows, ReleaseInv
    <3>6. Marking(t)
      BY <2>2, <3>1 DEF WritesInv
    <3>7. QED
      BY <1>2, <2>2, <3>3, <3>4, <3>5, <3>6, ReleasingSelects, ReleasingUpdates, ReleasingMarks
  <2>3. QED
    BY <1>2, <2>1, <2>2, OwnStep
<1>3. QED
  BY <1>1, <1>2

----------------------------------------------------------------------------
\* What a commit makes of an order that is not raced

\* A release or a commit of a reservation settles what was reserved, all of it.
LEMMA CommittedRelease ==
    ASSUME BaseInv, WritesInv, ReleaseInv, NEW t \in Txs, Commit(t), call[t].op # "reserve",
           call[t].order \notin raced
    PROVE  LET o == call[t].order IN
           /\ \A p \in Products :
                /\ row'[o][p] = IF row[o][p] = "reserved" THEN Settled(t) ELSE row[o][p]
                /\ held'[o][p] = held[o][p]
                /\ tx[t].moved[p] = IF row[o][p] = "reserved" THEN held[o][p] ELSE 0
           /\ found[t] # <<>> <=> \E p \in Products : row[o][p] = "reserved"
<1> DEFINE o == call[t].order
<1>0. pc[t] = "commit" /\ Releasing(t) /\ Marking(t) /\ o \in Orders
  BY CommittedRows DEF Commit, ReleaseInv, WritesInv
<1>1. \A p \in Products : p \in Updated(t) <=> row[o][p] = "reserved"
  <2>1. todo[t] = <<>>
    BY <1>0 DEF Releasing
  <2>2. ToSet(todo[t]) = {}
    BY <2>1, EmptyTyped
  <2>3. QED
    BY <1>0, <2>2 DEF Releasing, Updated
<1>2. \A p \in Products :
        /\ row'[o][p] = (IF tx[t].row[p] # "none" THEN tx[t].row[p] ELSE row[o][p])
        /\ held'[o][p] = (IF tx[t].held[p] # 0 THEN tx[t].held[p] ELSE held[o][p])
  BY <1>0, CommittedRows
<1>3. \A p \in Products :
        /\ tx[t].held[p] = 0
        /\ tx[t].moved[p] = (IF p \in Updated(t) THEN held[o][p] ELSE 0)
        /\ tx[t].row[p] = (IF p \in ToSet(found[t]) THEN Settled(t) ELSE "none")
  BY <1>0 DEF Releasing, Marking
<1>4. ToSet(found[t]) = {p \in Products : row[o][p] = "reserved"} /\ found[t] \in Seq(Products)
  BY <1>0 DEF Releasing, BaseInv, ControlTyped
<1>5. found[t] # <<>> <=> \E p \in Products : row[o][p] = "reserved"
  <2>1. found[t] # <<>> => found[t][1] \in ToSet(found[t])
    BY <1>4, EmptySeq, LenProperties DEF ToSet
  <2>2. found[t] = <<>> => ToSet(found[t]) = {}
    BY EmptyTyped
  <2>3. QED
    BY <1>4, <2>1, <2>2
<1>6. Settled(t) # "none"
  BY DEF Settled
<1> HIDE DEF o
<1>7. QED
  BY <1>1, <1>2, <1>3, <1>4, <1>5, <1>6 DEF o

LEMMA ReleasedOnceStep ==
    ASSUME FreeInv, ReleaseInv, ReleasedOnce, NEW t \in Txs, StepOf(t)
    PROVE  ReleasedOnce'
<1>0. BaseInv /\ WritesInv /\ RowsInv
  BY DEF FreeInv
<1>1. CASE UNCHANGED committed
  BY <1>1, RacedGrows DEF committed, ReleasedOnce
<1>2. CASE Commit(t)
  <2> DEFINE L(o) == \E p \in Products : row[o][p] = "released"
             Ln(o) == \E p \in Products : row'[o][p] = "released"
  <2> SUFFICES ASSUME NEW o \in Orders, o \notin raced'
               PROVE  announced'[o]["inventory.released"] = (IF Ln(o) THEN 1 ELSE 0)
    BY DEF ReleasedOnce
  <2>0. /\ o \notin raced /\ announced[o]["inventory.released"] = (IF L(o) THEN 1 ELSE 0)
        /\ pc[t] = "commit" /\ announced \in [Orders -> [InventoryEventType -> Nat]]
        /\ "inventory.released" \in InventoryEventType
    BY <1>0, <1>2, RacedGrows DEF ReleasedOnce, Commit, BaseInv, CommittedTyped, InventoryEventType
  <2>1. CASE o # call[t].order
    <3>1. (Ln(o) <=> L(o)) /\ announced'[o] = announced[o]
      BY <1>0, <1>2, <2>1, OtherOrders
    <3> HIDE DEF L, Ln
    <3>2. QED
      BY <2>0, <3>1
  <2>2. CASE o = call[t].order
    <3> DEFINE A == Announce(t)
               n == announced[o]["inventory.released"]
    <3>1. announced' = [announced EXCEPT ![o] = [type \in InventoryEventType |->
                            IF type \in A THEN @[type] + 1 ELSE @[type]]]
      BY <1>2, <2>2 DEF Commit
    <3>2. "inventory.released" \in A <=> call[t].op \in {"release", "order.cancelled"} /\ found[t] # <<>>
      BY DEF Announce
    <3> HIDE DEF A
    <3>3. announced'[o]["inventory.released"] = IF "inventory.released" \in A THEN n + 1 ELSE n
      BY <2>0, <3>1
    <3>4. CASE call[t].op = "reserve"
      <4>1. \A p \in Products : row'[o][p] = "released" <=> row[o][p] = "released"
        BY <1>0, <1>2, <2>2, <3>4, RowsGoOn
      <4>2. Ln(o) <=> L(o)
        BY <4>1
      <4> HIDE DEF L, Ln
      <4>3. QED
        BY <2>0, <3>2, <3>3, <3>4, <4>2
    <3>5. CASE call[t].op # "reserve"
      <4>1. /\ \A p \in Products :
                 row'[o][p] = IF row[o][p] = "reserved" THEN Settled(t) ELSE row[o][p]
            /\ found[t] # <<>> <=> \E p \in Products : row[o][p] = "reserved"
        BY <1>0, <1>2, <2>0, <2>2, <3>5, CommittedRelease
      <4>2. Returned(call[t]) <=> call[t].op \in {"release", "order.cancelled"}
        <5>1. call[t] \in Call
          BY <1>0, <2>0, CallTyped DEF BaseInv
        <5>2. QED
          BY <3>5, <5>1 DEF Returned, Call, Request, OrderEvent
      <4>3. CASE Returned(call[t]) /\ \E p \in Products : row[o][p] = "reserved"
        <5>1. ~ L(o)
          BY <1>0, <4>3 DEF RowsInv
        <5>2. Ln(o)
          BY <4>1, <4>3 DEF Settled
        <5> HIDE DEF L, Ln
        <5>3. QED
          BY <2>0, <3>2, <3>3, <4>1, <4>2, <4>3, <5>1, <5>2
      <4>4. CASE ~ (Returned(call[t]) /\ \E p \in Products : row[o][p] = "reserved")
        <5>1. Ln(o) <=> L(o)
          BY <4>1, <4>4 DEF Settled
        <5> HIDE DEF L, Ln
        <5>2. QED
          BY <2>0, <3>2, <3>3, <4>1, <4>2, <4>4, <5>1
      <4>5. QED
        BY <4>3, <4>4
    <3>6. QED
      BY <3>4, <3>5
  <2>3. QED
    BY <2>1, <2>2
<1>3. QED
  BY <1>1, <1>2, VisibleAtCommit

LEMMA SettledOnceStep ==
    ASSUME FreeInv, ReleaseInv, SettledOnce, NEW t \in Txs, StepOf(t)
    PROVE  SettledOnce'
<1>0. BaseInv /\ WritesInv /\ RowsInv
  BY DEF FreeInv
<1>1. CASE UNCHANGED committed
  BY <1>1, RacedGrows DEF committed, SettledOnce
<1>2. CASE Commit(t)
  <2> SUFFICES ASSUME NEW o \in Orders, NEW p \in Products, o \notin raced'
               PROVE  /\ moved'[o]["release"][p] = (IF row'[o][p] = "released" THEN held'[o][p] ELSE 0)
                      /\ moved'[o]["sale"][p] = (IF row'[o][p] = "committed" THEN held'[o][p] ELSE 0)
    BY DEF SettledOnce
  <2> DEFINE k == Movement(call[t])
             w == tx[t].moved[p]
             rel == moved[o]["release"][p]
             sale == moved[o]["sale"][p]
  <2>0. /\ o \notin raced /\ pc[t] = "commit" /\ held[o][p] \in Nat /\ w \in Nat
        /\ rel = (IF row[o][p] = "released" THEN held[o][p] ELSE 0)
        /\ sale = (IF row[o][p] = "committed" THEN held[o][p] ELSE 0)
        /\ "release" \in MovementType /\ "sale" \in MovementType
    <3>1. o \notin raced /\ pc[t] = "commit"
      BY <1>2, RacedGrows DEF Commit
    <3>2. held[o][p] \in Nat /\ w \in Nat
      BY <1>0 DEF BaseInv, CommittedTyped, TxTyped, Writes
    <3>3. QED
      BY <1>0, <3>1, <3>2 DEF SettledOnce, MovementType
  <2>1. /\ moved'[o]["release"][p] = rel + (IF o = call[t].order /\ "release" = k THEN w ELSE 0)
        /\ moved'[o]["sale"][p] = sale + (IF o = call[t].order /\ "sale" = k THEN w ELSE 0)
    BY <1>0, <1>2, <2>0, CommittedMovements
  <2>2. call[t] \in Call
    BY <1>0, <2>0, CallTyped DEF BaseInv
  <2>3. /\ call[t].op = "reserve" => k = "reservation"
        /\ call[t].op # "reserve" /\ Returned(call[t]) => k = "release"
        /\ ~ Returned(call[t]) => k = "sale" /\ call[t].op # "reserve"
    BY <2>2, MovementOfCall
  <2>4. CASE o # call[t].order
    <3>1. row'[o][p] = row[o][p] /\ held'[o][p] = held[o][p]
      BY <1>0, <1>2, <2>4, OtherOrders
    <3> HIDE DEF k, w, rel, sale
    <3>2. QED
      BY <2>0, <2>1, <2>4, <3>1
  <2>5. CASE o = call[t].order /\ call[t].op = "reserve"
    <3>1. \/ row'[o][p] = row[o][p] /\ held'[o][p] = held[o][p]
          \/ row[o][p] = "none" /\ row'[o][p] \in {"none", "reserved"}
      BY <1>0, <1>2, <2>5, RowsGoOn
    <3> HIDE DEF k, w, rel, sale
    <3>2. QED
      BY <2>0, <2>1, <2>3, <2>5, <3>1
  <2>6. CASE o = call[t].order /\ call[t].op # "reserve"
    <3>1. /\ row'[o][p] = IF row[o][p] = "reserved" THEN Settled(t) ELSE row[o][p]
          /\ held'[o][p] = held[o][p]
          /\ w = IF row[o][p] = "reserved" THEN held[o][p] ELSE 0
      BY <1>0, <1>2, <2>0, <2>6, CommittedRelease
    <3>2. CASE Returned(call[t])
      <4>1. k = "release" /\ Settled(t) = "released"
        BY <2>3, <2>6, <3>2 DEF Settled
      <4> HIDE DEF k, w, rel, sale
      <4>2. QED
        BY <2>0, <2>1, <2>6, <3>1, <4>1
    <3>3. CASE ~ Returned(call[t])
      <4>1. k = "sale" /\ Settled(t) = "committed"
        BY <2>3, <3>3 DEF Settled
      <4> HIDE DEF k, w, rel, sale
      <4>2. QED
        BY <2>0, <2>1, <2>6, <3>1, <4>1
    <3>4. QED
      BY <3>2, <3>3
  <2>7. QED
    BY <2>4, <2>5, <2>6
<1>3. QED
  BY <1>1, <1>2, VisibleAtCommit

----------------------------------------------------------------------------
\* The stock

LEMMA InvInit == Init => IInv
<1> SUFFICES ASSUME Init
             PROVE  IInv
  OBVIOUS
<1>1. FreeInv
  BY FreeInvInit
<1>2. SideBySide /\ ReserveInv /\ ReleaseInv
  BY DEF Init, SideBySide, ReserveInv, ReleaseInv
<1>3. ReleasedOnce
  BY DEF Init, ReleasedOnce, InventoryEventType
<1>4. SettledOnce
  BY DEF Init, SettledOnce, MovementType
<1>5. QED
  BY <1>1, <1>2, <1>3, <1>4 DEF IInv

LEMMA InvStep == IInv /\ [Next]_vars => IInv'
<1> SUFFICES ASSUME IInv, [Next]_vars
             PROVE  IInv'
  OBVIOUS
<1>1. FreeInv'
  BY FreeInvStep DEF IInv
<1>2. CASE UNCHANGED vars
  <2>1. UNCHANGED <<row, held, moved, announced, pc, call, line, found, todo, tx, raced>>
    BY <1>2 DEF vars, committed, progress
  <2>2. SideBySide'
    BY <2>1 DEF IInv, SideBySide
  <2>3. ReserveInv'
    <3>1. \A u, p : RowSeenBy(u, p)' = RowSeenBy(u, p)
      BY <2>1 DEF RowSeenBy
    <3>2. \A u : Reserving(u)' <=> Reserving(u)
      BY <2>1, <3>1 DEF Reserving
    <3>3. QED
      BY <2>1, <3>2 DEF IInv, ReserveInv
  <2>4. ReleaseInv'
    <3>1. \A u : Releasing(u)' <=> Releasing(u)
      BY <2>1 DEF Releasing, Settled, Returned, Updated
    <3>2. QED
      BY <2>1, <3>1 DEF IInv, ReleaseInv
  <2>5. ReleasedOnce' /\ SettledOnce'
    BY <2>1 DEF IInv, ReleasedOnce, SettledOnce
  <2>6. QED
    BY <1>1, <2>2, <2>3, <2>4, <2>5 DEF IInv
<1>3. ASSUME NEW t \in Txs, StepOf(t)
      PROVE  IInv'
  <2>1. BaseInv /\ WritesInv /\ FreeInv /\ SideBySide /\ ReserveInv /\ ReleaseInv
        /\ ReleasedOnce /\ SettledOnce
    BY DEF IInv, FreeInv
  <2>2. SideBySide'
    BY <1>3, <2>1, SideBySideStep
  <2>3. ReserveInv' /\ ReleaseInv'
    BY <1>3, <2>1, ReserveInvStep, ReleaseInvStep
  <2>4. ReleasedOnce' /\ SettledOnce'
    BY <1>3, <2>1, ReleasedOnceStep, SettledOnceStep
  <2>5. QED
    BY <1>1, <2>2, <2>3, <2>4 DEF IInv
<1>4. QED
  BY <1>2, <1>3, NextIsStep

LEMMA InvAlways == Spec => []IInv
<1>1. QED
  BY InvInit, InvStep, PTL DEF Spec

\* In any interleaving of reservations, releases and commits, those of one order included,
\* the counters are what the movements add up to and what is reserved of an order is what
\* its rows tell; so is what is returned and sold of an order that is not raced.
THEOREM SpecStockAddsUp == Spec => []StockAddsUp
<1>1. IInv => StockAddsUp
  BY DEF IInv, FreeInv, HeldIsMoved, SettledOnce, StockAddsUp
<1>2. QED
  BY <1>1, InvAlways, PTL

\* An order holds the products it asks for, with the quantity of the first line that names
\* each, or nothing, whatever calls overlap, and its reservation is announced once.
THEOREM SpecWholeOrderReserved == Spec => []WholeOrderReserved
<1>1. FreeInv => WholeOrderReserved
  <2> SUFFICES ASSUME RowsInv, ReservedOnce, NEW o \in Orders,
                      \E p \in Products : row[o][p] # "none"
               PROVE  \A p \in Products : held[o][p] = Wanted(o, p)
    BY DEF FreeInv, WholeOrderReserved, ReservedOnce
  <2> SUFFICES ASSUME NEW p \in Products
               PROVE  held[o][p] = Wanted(o, p)
    OBVIOUS
  <2>1. row[o][p] # "none" <=> Asked(o, p)
    BY DEF RowsInv
  <2>2. CASE Asked(o, p)
    <3>1. Named(o, p, held[o][p])
      BY <2>1, <2>2 DEF RowsInv
    <3>2. QED
      BY <3>1, WantedOfLine
  <2>3. CASE ~ Asked(o, p)
    <3>1. held[o][p] = 0
      BY <2>1, <2>3 DEF RowsInv
    <3>2. QED
      BY <2>3, <3>1, WantedOfLine
  <2>4. QED
    BY <2>2, <2>3
<1>2. QED
  BY <1>1, SpecFreeInv, PTL

\* Nothing is announced as released that was not announced as reserved, and of an order that
\* is not raced inventory.released is announced once.
THEOREM SpecWholeOrderAnnouncedOnce == Spec => []WholeOrderAnnouncedOnce
<1>1. IInv /\ WholeOrderReserved => WholeOrderAnnouncedOnce
  <2> SUFFICES ASSUME ReservedOnce, ReleasedHeld, ReleasedOnce, WholeOrderReserved
               PROVE  WholeOrderAnnouncedOnce
    BY DEF IInv, FreeInv
  <2>1. \A o \in Orders : announced[o]["inventory.released"] > 0 => announced[o]["inventory.reserved"] = 1
    BY DEF ReservedOnce, ReleasedHeld
  <2>2. QED
    BY <2>1 DEF ReleasedOnce, WholeOrderAnnouncedOnce
<1>2. QED
  BY <1>1, InvAlways, SpecWholeOrderReserved, PTL

\* What an answer tells the caller: after a reservation that succeeded every line of the
\* order has its row, and it is reserved if the order is not raced; then a release, a
\* cancellation or a confirmation leaves nothing reserved.
THEOREM SpecCallsTakeEffect == Spec => CallsTakeEffect
<1> DEFINE Effect(t) ==
      LET o == call[t].order IN
      IF call[t].op = "reserve"
      THEN \A i \in DOMAIN Lines[o] :
              /\ row'[o][Lines[o][i].product] # "none"
              /\ o \notin raced => row'[o][Lines[o][i].product] = "reserved"
      ELSE o \notin raced => \A p \in Products : row'[o][p] # "reserved"
<1>1. IInv => [\A t \in Txs : Commit(t) => Effect(t)]_vars
  <2> SUFFICES ASSUME IInv, NEW t \in Txs, Commit(t)
               PROVE  Effect(t)
    OBVIOUS
  <2> DEFINE o == call[t].order
  <2>0. BaseInv /\ WritesInv /\ ReserveInv /\ ReleaseInv /\ o \in Orders /\ pc[t] = "commit"
    BY CommittedRows DEF IInv, FreeInv, Commit
  <2>1. CASE call[t].op = "reserve"
    <3> SUFFICES ASSUME NEW i \in DOMAIN Lines[o]
                 PROVE  /\ row'[o][Lines[o][i].product] # "none"
                        /\ o \notin raced => row'[o][Lines[o][i].product] = "reserved"
      BY <2>1
    <3> DEFINE p == Lines[o][i].product
    <3>1. p \in Products
      BY <2>0, LineTyped
    <3>2. RowSeenBy(t, p) # "none"
      BY <2>0, <2>1 DEF WritesInv, Inserting
    <3>3. o \notin raced => RowSeenBy(t, p) = "reserved"
      BY <2>0, <2>1 DEF ReserveInv, Reserving
    <3>4. row'[o][p] = RowSeenBy(t, p)
      <4> HIDE DEF p
      <4>1. row'[o][p] = (IF tx[t].row[p] # "none" THEN tx[t].row[p] ELSE row[o][p])
        BY <2>0, <3>1, CommittedRows
      <4>2. QED
        BY <4>1 DEF RowSeenBy
    <3>5. QED
      BY <3>2, <3>3, <3>4
  <2>2. CASE call[t].op # "reserve"
    <3>1. ASSUME o \notin raced, NEW p \in Products
          PROVE  row'[o][p] # "reserved"
      <4>1. row'[o][p] = IF row[o][p] = "reserved" THEN Settled(t) ELSE row[o][p]
        BY <2>0, <2>2, <3>1, CommittedRelease
      <4>2. Settled(t) # "reserved"
        BY DEF Settled
      <4>3. QED
        BY <4>1, <4>2
    <3>2. QED
      BY <2>2, <3>1
  <2>3. QED
    BY <2>1, <2>2
<1>2. QED
  BY <1>1, InvAlways, PTL DEF CallsTakeEffect

=============================================================================
