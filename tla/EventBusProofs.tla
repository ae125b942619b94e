-------------------------- MODULE EventBusProofs --------------------------
(***************************************************************************)
(* The safety properties of EventBus for every set of rows, relays,       *)
(* partitions and consumers, every batch size and every failure bound.     *)
(*                                                                         *)
(* The relay's half: a row belongs to at most one open batch, and what     *)
(* that batch did to it bounds how often it was published. The consumers'  *)
(* half: what a reader has passed is settled (handled, in the DLQ or lost) *)
(* or at its hand, so whatever offset it commits, however late, passes     *)
(* settled messages only, and follows one that was handled or dead-lettered.*)
(* Together: the bus implements Delivery.                                  *)
(***************************************************************************)
EXTENDS EventBus, FiniteSetTheorems, SequenceTheorems, WellFoundedInduction, TLAPS

InHand(l, r) == rpc[l] = "mark" /\ r = Current(l)

\* An open batch holds the locks of its rows, and only it has work on them.
LockInv ==
    \A l \in Relays :
        /\ rpc[l] = "idle" => ~aborted[l]
        /\ \A r \in Rows :
              /\ rowLock[r] = l => outbox[r] = "pending" /\ rpc[l] # "idle"
              /\ r \in batch[l] => rowLock[r] = l /\ r \notin marked[l]
              /\ r \in marked[l] => rowLock[r] = l

\* Nothing is marked that is not on the topic.
TopicInv ==
    /\ \A r \in Rows : outbox[r] = "published" => OnTopic(r)
    /\ \A l \in Relays : \A r \in Rows :
          r \in marked[l] \/ InHand(l, r) => OnTopic(r)

\* An aborted transaction has cost a failure, which pays for the rows it still
\* publishes; without an abort only a row that is marked, or about to be, was
\* published once more than there were failures.
LockedCopies(l, r) ==
    IF aborted[l]
    THEN /\ copies[r] <= failures
         /\ r \in batch[l] /\ ~InHand(l, r) => copies[r] < failures
    ELSE /\ copies[r] <= 1 + failures
         /\ copies[r] <= failures \/ r \in marked[l] \/ InHand(l, r)

CopiesInv ==
    \A r \in Rows :
        /\ outbox[r] = "published" => copies[r] <= 1 + failures
        /\ outbox[r] # "published" /\ rowLock[r] = Nobody => copies[r] <= failures
        /\ \A l \in Relays : rowLock[r] = l => LockedCopies(l, r)

RelayInv == LockInv /\ TopicInv /\ CopiesInv

\* Nothing is owed any more to these messages.
Settled == Handled \cup Lost

\* Index i of partition p is settled.
SettledAt(p, i) == log[p][i] \in Settled

\* No offset is ahead of the log, and only a message that was handled or handed to the
\* DLQ is committed.
BoundsInv ==
    /\ \A p \in Partitions : offset[p] <= Len(log[p]) + 1 /\ position[p] <= Len(log[p]) + 1
    /\ \A p \in Partitions : offset[p] > 1 => log[p][offset[p] - 1] \in Handled
    /\ \A c \in Consumers : cpc[c] = "commit" => AtHand(c) \in Handled

\* What is behind a committed offset, behind a message at hand or behind a reader is
\* settled, except the one message the reader has at hand.
PassedInv ==
    \A p \in Partitions : \A i \in DOMAIN log[p] :
        /\ i < offset[p] => SettledAt(p, i)
        /\ \A c \in Consumers :
              cpc[c] # "idle" /\ at[c][1] = p /\ i < at[c][2] => SettledAt(p, i)
        /\ i < position[p] =>
              \/ SettledAt(p, i)
              \/ cpc[owner[p]] # "idle" /\ at[owner[p]] = <<p, i>>

DeliveryInv == BoundsInv /\ PassedInv

----------------------------------------------------------------------------
\* Operators of the model

\* The least element of a set of row numbers exists.
LEMMA MinIsLeast ==
    ASSUME NEW S \in SUBSET Nat, S # {}
    PROVE  Min(S) \in S /\ \A x \in S : Min(S) <= x
<1> DEFINE R == {ss \in Nat \X Nat : ss[1] < ss[2]}
<1>1. IsWellFoundedOn(R, Nat)
  BY NatLessThanWellFounded DEF OpToRel
<1>2. PICK x \in S : \A y \in S : ~ (<<y, x>> \in R)
  <2> HIDE DEF R
  <2> QED BY <1>1, WFMin
<1>3. ASSUME NEW y \in S PROVE x <= y
  <2>1. <<y, x>> \in Nat \X Nat /\ ~ (<<y, x>> \in R)
    BY <1>2
  <2>2. ~ (y < x)
    BY <2>1
  <2>3. QED
    BY <2>2
<1>4. QED
  BY <1>3 DEF Min

LEMMA CurrentInBatch ==
    ASSUME TypeOK, NEW l \in Relays, batch[l] # {}
    PROVE  Current(l) \in batch[l] /\ Current(l) \in Rows
<1>1. batch[l] \in SUBSET Nat
  BY RowsAssumption DEF TypeOK, RelayTypeOK
<1>2. QED
  BY <1>1, MinIsLeast DEF Current, TypeOK, RelayTypeOK

\* Messages keep their places.
LogGrows ==
    \A p \in Partitions :
        /\ Len(log[p]) <= Len(log'[p])
        /\ \A i \in DOMAIN log[p] : i \in DOMAIN log'[p] /\ log'[p][i] = log[p][i]

LEMMA PublishAppends ==
    ASSUME TypeOK, NEW r \in Rows, NEW times \in {1, 2}, Publish(r, times)
    PROVE  /\ copies' = [copies EXCEPT ![r] = @ + 1]
           /\ copies' \in [Rows -> Nat]
           /\ log' \in [Partitions -> Seq(Message)]
           /\ LogGrows
           /\ OnTopic(r)'
<1> DEFINE m == [row |-> r, copy |-> copies[r] + 1]
           new == [i \in 1..times |-> m]
<1>1. PICK p \in Partitions : log' = [log EXCEPT ![p] = @ \o new]
  BY DEF Publish
<1>2. copies' = [copies EXCEPT ![r] = @ + 1] /\ copies' \in [Rows -> Nat]
  BY DEF Publish, TypeOK, RelayTypeOK
<1>3. m \in Message
  BY DEF Message, TypeOK, RelayTypeOK
<1>4. new \in Seq(Message) /\ Len(new) = times /\ new[1] = m
  BY <1>3
<1> HIDE DEF new
<1>5. log[p] \in Seq(Message) /\ log'[p] = log[p] \o new
  BY <1>1 DEF TypeOK, RelayTypeOK
<1>6. /\ log'[p] \in Seq(Message)
      /\ Len(log'[p]) = Len(log[p]) + times
      /\ \A i \in 1..(Len(log[p]) + times) :
            log'[p][i] = IF i <= Len(log[p]) THEN log[p][i] ELSE new[i - Len(log[p])]
  BY <1>4, <1>5, ConcatProperties
<1>7. log' \in [Partitions -> Seq(Message)]
  BY <1>1, <1>5, <1>6 DEF TypeOK, RelayTypeOK
<1>8. LogGrows
  <2> SUFFICES ASSUME NEW q \in Partitions
               PROVE  /\ Len(log[q]) <= Len(log'[q])
                      /\ \A i \in DOMAIN log[q] : i \in DOMAIN log'[q] /\ log'[q][i] = log[q][i]
    BY DEF LogGrows
  <2>1. CASE q = p
    BY <2>1, <1>5, <1>6, LenProperties
  <2>2. CASE q # p
    <3>1. log'[q] = log[q] /\ log[q] \in Seq(Message)
      BY <2>2, <1>1 DEF TypeOK, RelayTypeOK
    <3>2. QED
      BY <3>1
  <2>3. QED
    BY <2>1, <2>2
<1>9. OnTopic(r)'
  <2>1. LET n == Len(log[p]) + 1 IN n \in DOMAIN log'[p] /\ log'[p][n] = m
    BY <1>4, <1>5, <1>6, LenProperties
  <2>2. m \in ToSet(log'[p])
    BY <2>1 DEF ToSet
  <2>3. m.row = r
    OBVIOUS
  <2>4. QED
    BY <2>2, <2>3 DEF OnTopic
<1>10. QED
  BY <1>2, <1>7, <1>8, <1>9

\* What is on the topic stays there.
LEMMA OnTopicStays ==
    ASSUME LogGrows, NEW r \in Rows, OnTopic(r)
    PROVE  OnTopic(r)'
<1>1. PICK p \in Partitions : \E i \in DOMAIN log[p] : log[p][i].row = r
  BY DEF OnTopic, ToSet
<1>2. PICK i \in DOMAIN log[p] : log[p][i].row = r
  BY <1>1
<1>3. i \in DOMAIN log'[p] /\ log'[p][i].row = r
  BY <1>2 DEF LogGrows
<1>4. QED
  BY <1>3 DEF OnTopic, ToSet

----------------------------------------------------------------------------
\* Type correctness

LEMMA TypeInit == Init => TypeOK
<1> SUFFICES ASSUME Init PROVE TypeOK
  OBVIOUS
<1>1. /\ log \in [Partitions -> Seq(Message)]
      /\ offset \in [Partitions -> Nat]
      /\ position \in [Partitions -> Nat \ {0}]
  BY DEF Init
<1>2. failures \in 0..MaxFailures /\ rebalances \in 0..MaxRebalances
      /\ attempt \in [Consumers -> 0..MaxRetries]
  BY BoundsAssumption DEF Init
<1>3. QED
  BY <1>1, <1>2 DEF Init, TypeOK, RelayTypeOK, GroupTypeOK

\* A relay's step leaves the group's types alone, a consumer's step the relays'.
LEMMA RelayTypeKept ==
    ASSUME RelayTypeOK, UNCHANGED producerVars
    PROVE  RelayTypeOK' /\ LogGrows
BY DEF RelayTypeOK, producerVars, relayVars, topicVars, LogGrows

LEMMA GroupTypeKept ==
    ASSUME TypeOK, LogGrows, UNCHANGED consumerVars
    PROVE  GroupTypeOK'
<1> USE DEF TypeOK, GroupTypeOK, consumerVars, groupVars, workVars, resultVars
<1>1. ASSUME NEW c \in Consumers
      PROVE  IF cpc'[c] = "idle" THEN at'[c] = NoMessage
             ELSE at'[c] \in Partitions \X Nat /\ at'[c][2] \in DOMAIN log'[at'[c][1]]
  BY DEF LogGrows
<1>2. QED
  BY <1>1

LEMMA RelayTypeStep ==
    ASSUME TypeOK, NEW l \in Relays, RelayStep(l) \/ PublishFails(l) \/ RelayCrash(l)
    PROVE  RelayTypeOK' /\ LogGrows
<1>0. UNCHANGED topicVars => LogGrows
  BY DEF LogGrows, topicVars
<1>a. /\ RelayTypeOK
      /\ aborted \in [Relays -> BOOLEAN]
      /\ failures \in 0..MaxFailures /\ MaxFailures \in Nat
  BY BoundsAssumption DEF TypeOK, RelayTypeOK
<1>1. CASE SelectPending(l)
  <2>1. OldestSelectable \subseteq Rows
    BY DEF OldestSelectable, Selectable
  <2>2. QED
    BY <1>a, <1>0, <1>1, <2>1 DEF SelectPending, RelayGoto, topicVars, RelayTypeOK
<1>2. CASE PublishOK(l)
  <2>1. Current(l) \in Rows
    BY <1>2, CurrentInBatch DEF PublishOK
  <2>2. PICK times \in {1, 2} : Publish(Current(l), times)
    BY <1>2 DEF PublishOK
  <2>3. /\ copies' \in [Rows -> Nat]
        /\ log' \in [Partitions -> Seq(Message)]
        /\ LogGrows
    BY <2>1, <2>2, PublishAppends
  <2>4. QED
    BY <1>a, <1>2, <2>3 DEF PublishOK, RelayGoto, RelayTypeOK
<1>3. CASE MarkPublished(l)
  <2>1. Current(l) \in Rows
    BY <1>a, <1>3, CurrentInBatch DEF MarkPublished, RelayTypeOK
  <2>2. failures' \in 0..MaxFailures
    BY <1>3, <1>a DEF MarkPublished
  <2>3. aborted' \in [Relays -> BOOLEAN]
    BY <1>3, <1>a DEF MarkPublished
  <2>4. /\ marked' \in [Relays -> SUBSET Rows] /\ batch' \in [Relays -> SUBSET Rows]
        /\ rpc' \in [Relays -> {"idle", "publish", "mark"}]
        /\ \A k \in Relays : rpc'[k] = "mark" => batch'[k] # {}
    BY <1>a, <1>3, <2>1, SMTT(30) DEF MarkPublished, RelayGoto, RelayTypeOK
  <2>5. QED
    BY <1>a, <1>0, <1>3, <2>2, <2>3, <2>4 DEF MarkPublished, topicVars, RelayTypeOK
<1>4. CASE CommitBatch(l)
  BY <1>a, <1>0, <1>4 DEF CommitBatch, EndBatch, RelayGoto, topicVars, RelayTypeOK
<1>5. CASE PublishFails(l)
  <2>1. Current(l) \in Rows
    BY <1>5, CurrentInBatch DEF PublishFails
  <2>2. /\ copies' \in [Rows -> Nat]
        /\ log' \in [Partitions -> Seq(Message)]
        /\ LogGrows
    BY <1>a, <1>0, <1>5, <2>1, PublishAppends DEF PublishFails, topicVars, RelayTypeOK
  <2>3. failures' \in 0..MaxFailures
    BY <1>5, <1>a DEF PublishFails
  <2>4. aborted' \in [Relays -> BOOLEAN]
    BY <1>5, <1>a DEF PublishFails
  <2>5. /\ batch' \in [Relays -> SUBSET Rows]
        /\ \A k \in Relays : rpc'[k] = "mark" => batch'[k] # {}
    BY <1>a, <1>5, <2>1 DEF PublishFails, RelayTypeOK
  <2>6. QED
    BY <1>a, <1>5, <2>2, <2>3, <2>4, <2>5 DEF PublishFails, RelayTypeOK
<1>6. CASE RelayCrash(l)
  BY <1>a, <1>0, <1>6 DEF RelayCrash, EndBatch, RelayGoto, topicVars, RelayTypeOK
<1>7. QED
  BY <1>1, <1>2, <1>3, <1>4, <1>5, <1>6 DEF RelayStep

\* What a consumer has at hand is a place in the log.
AtOK(c) ==
    IF cpc[c] = "idle" THEN at[c] = NoMessage
    ELSE at[c] \in Partitions \X Nat /\ at[c][2] \in DOMAIN log[at[c][1]]

LEMMA AtHandIsMessage ==
    ASSUME TypeOK, NEW c \in Consumers, cpc[c] # "idle"
    PROVE  /\ at[c][1] \in Partitions /\ at[c][2] \in DOMAIN log[at[c][1]]
           /\ AtHand(c) \in Message /\ AtHand(c).row \in Rows
<1>1. at[c] \in Partitions \X Nat /\ at[c][2] \in DOMAIN log[at[c][1]]
  BY DEF TypeOK, GroupTypeOK
<1>2. log[at[c][1]] \in Seq(Message)
  BY <1>1 DEF TypeOK, RelayTypeOK
<1>3. AtHand(c) \in Message
  BY <1>1, <1>2, ElementOfSeq, LenProperties DEF AtHand
<1>4. QED
  BY <1>1, <1>3 DEF Message

\* What a rebalance skips is all of a partition without a committed offset.
LEMMA SkippedOnTopic ==
    ASSUME log \in [Partitions -> Seq(Message)]
    PROVE  /\ Skipped \subseteq Message
           /\ \A p \in Partitions : \A i \in DOMAIN log[p] : offset[p] = 0 => log[p][i] \in Skipped
<1>1. \A p \in Partitions : ToSet(log[p]) \subseteq Message
  BY ElementOfSeq, LenProperties DEF ToSet
<1>2. \A p \in Partitions : \A i \in DOMAIN log[p] : log[p][i] \in ToSet(log[p])
  BY DEF ToSet
<1>3. QED
  BY <1>1, <1>2 DEF Skipped

LEMMA GroupTypeStep ==
    ASSUME TypeOK, UNCHANGED producerVars, (\E c \in Consumers : ConsumerStep(c)) \/ Rebalance
    PROVE  GroupTypeOK'
<1>0. /\ UNCHANGED log /\ log \in [Partitions -> Seq(Message)]
      /\ offset \in [Partitions -> Nat]
      /\ owner \in [Partitions -> Consumers]
      /\ position \in [Partitions -> Nat \ {0}]
      /\ cpc \in [Consumers -> {"idle", "handle", "dlq", "commit"}]
      /\ effects \in [Rows -> Nat]
      /\ processed \cup dlq \cup leftBehind \cup missed \subseteq Message
  BY DEF producerVars, topicVars, TypeOK, RelayTypeOK, GroupTypeOK
<1>a. /\ at \in [Consumers -> {NoMessage} \cup (Partitions \X Nat)]
      /\ \A c \in Consumers : AtOK(c)
  BY DEF TypeOK, GroupTypeOK, AtOK
<1>b. attempt \in [Consumers -> 0..MaxRetries] /\ MaxRetries \in Nat
  BY BoundsAssumption DEF TypeOK, GroupTypeOK
<1>c. rebalances \in 0..MaxRebalances /\ MaxRebalances \in Nat
  BY BoundsAssumption DEF TypeOK, GroupTypeOK
<1>d. ASSUME NEW c \in Consumers, Drop(c)
      PROVE  /\ cpc' \in [Consumers -> {"idle", "handle", "dlq", "commit"}]
             /\ at' \in [Consumers -> {NoMessage} \cup (Partitions \X Nat)]
             /\ attempt' \in [Consumers -> 0..MaxRetries]
             /\ \A d \in Consumers : AtOK(d)'
  BY <1>0, <1>a, <1>b, <1>d DEF Drop, ConsumerGoto, AtOK
<1>e. ASSUME UNCHANGED at,
             \E c \in Consumers, s \in {"handle", "dlq", "commit"} : cpc[c] # "idle" /\ ConsumerGoto(c, s)
      PROVE  /\ cpc' \in [Consumers -> {"idle", "handle", "dlq", "commit"}]
             /\ \A d \in Consumers : AtOK(d)'
  BY <1>0, <1>a, <1>e DEF ConsumerGoto, AtOK
<1>f. GroupTypeOK' = (/\ offset' \in [Partitions -> Nat]
                      /\ owner' \in [Partitions -> Consumers]
                      /\ position' \in [Partitions -> Nat \ {0}]
                      /\ cpc' \in [Consumers -> {"idle", "handle", "dlq", "commit"}]
                      /\ at' \in [Consumers -> {NoMessage} \cup (Partitions \X Nat)]
                      /\ \A c \in Consumers : AtOK(c)'
                      /\ attempt' \in [Consumers -> 0..MaxRetries]
                      /\ processed' \cup dlq' \cup leftBehind' \cup missed' \subseteq Message
                      /\ effects' \in [Rows -> Nat]
                      /\ rebalances' \in 0..MaxRebalances)
  BY DEF GroupTypeOK, AtOK
<1>1. ASSUME NEW c \in Consumers, NEW p \in Partitions, Fetch(c, p)
      PROVE  GroupTypeOK'
  <2>1. position[p] \in DOMAIN log[p] /\ position[p] \in Nat
    BY <1>0, <1>1, LenProperties DEF Fetch
  <2>2. at' \in [Consumers -> {NoMessage} \cup (Partitions \X Nat)]
    BY <1>a, <1>1, <2>1 DEF Fetch
  <2>3. \A d \in Consumers : AtOK(d)'
    BY <1>0, <1>a, <1>1, <2>1 DEF Fetch, ConsumerGoto, AtOK
  <2>4. cpc' \in [Consumers -> {"idle", "handle", "dlq", "commit"}]
    BY <1>0, <1>1 DEF Fetch, ConsumerGoto
  <2>5. attempt' \in [Consumers -> 0..MaxRetries]
    BY <1>b, <1>1 DEF Fetch
  <2>6. position' \in [Partitions -> Nat \ {0}]
    BY <1>0, <1>1 DEF Fetch
  <2>7. QED
    BY <1>0, <1>c, <1>f, <1>1, <2>2, <2>3, <2>4, <2>5, <2>6 DEF Fetch, resultVars
<1>2. ASSUME NEW c \in Consumers, Handle(c)
      PROVE  GroupTypeOK'
  <2>1. AtHand(c) \in Message /\ AtHand(c).row \in Rows
    BY <1>2, AtHandIsMessage DEF Handle
  <2>2. processed' \cup dlq' \cup leftBehind' \cup missed' \subseteq Message
    BY <1>0, <1>2, <2>1 DEF Handle
  <2>3. effects' \in [Rows -> Nat]
    <3>1. effects \in [Rows -> Nat]
      BY <1>0
    <3>2. QED
      BY <1>2, <2>1, <3>1 DEF Handle
  <2>4. QED
    BY <1>0, <1>a, <1>b, <1>c, <1>e, <1>f, <1>2, <2>2, <2>3 DEF Handle, groupVars
<1>3. ASSUME NEW c \in Consumers, HandleFails(c)
      PROVE  GroupTypeOK'
  <2>1. attempt' \in [Consumers -> 0..MaxRetries]
    BY <1>b, <1>3 DEF HandleFails
  <2>2. /\ cpc' \in [Consumers -> {"idle", "handle", "dlq", "commit"}]
        /\ \A d \in Consumers : AtOK(d)'
    BY <1>0, <1>a, <1>e, <1>3 DEF HandleFails, AtOK
  <2>3. QED
    BY <1>0, <1>a, <1>c, <1>f, <1>3, <2>1, <2>2 DEF HandleFails, groupVars, resultVars
<1>4. ASSUME NEW c \in Consumers, SendToDLQ(c)
      PROVE  GroupTypeOK'
  <2>1. AtHand(c) \in Message
    BY <1>4, AtHandIsMessage DEF SendToDLQ
  <2>2. processed' \cup dlq' \cup leftBehind' \cup missed' \subseteq Message
    BY <1>0, <1>4, <2>1 DEF SendToDLQ
  <2>3. /\ cpc' \in [Consumers -> {"idle", "handle", "dlq", "commit"}]
        /\ at' \in [Consumers -> {NoMessage} \cup (Partitions \X Nat)]
        /\ attempt' \in [Consumers -> 0..MaxRetries]
        /\ \A d \in Consumers : AtOK(d)'
    <3>1. CASE Drop(c)
      BY <3>1, <1>d
    <3>2. CASE ConsumerGoto(c, "commit") /\ UNCHANGED <<at, attempt>>
      BY <3>2, <1>a, <1>b, <1>e, <1>4 DEF SendToDLQ
    <3>3. QED
      BY <3>1, <3>2, <1>4 DEF SendToDLQ
  <2>4. QED
    BY <1>0, <1>c, <1>f, <1>4, <2>2, <2>3 DEF SendToDLQ, groupVars
<1>5. ASSUME NEW c \in Consumers, CommitOffset(c)
      PROVE  GroupTypeOK'
  <2>1. at[c] \in Partitions \X Nat
    BY <1>a, <1>5 DEF CommitOffset, AtOK
  <2>2. offset' \in [Partitions -> Nat]
    <3>1. at[c][1] \in Partitions /\ at[c][2] + 1 \in Nat /\ offset \in [Partitions -> Nat]
      BY <1>0, <2>1
    <3>2. QED
      BY <1>5, <3>1 DEF CommitOffset
  <2>3. QED
    BY <1>0, <1>c, <1>d, <1>f, <1>5, <2>2 DEF CommitOffset, resultVars
<1>6. ASSUME Rebalance
      PROVE  GroupTypeOK'
  <2>1. position' \in [Partitions -> Nat \ {0}]
    BY <1>0, <1>6, LenProperties DEF Rebalance, ResumeAt
  <2>2. rebalances' \in 0..MaxRebalances
    BY <1>c, <1>6 DEF Rebalance
  <2>m. processed' \cup dlq' \cup leftBehind' \cup missed' \subseteq Message
    <3>1. Skipped \subseteq Message
      BY <1>0, SkippedOnTopic
    <3>2. QED
      BY <1>0, <1>6, <3>1 DEF Rebalance
  <2>3. CASE UNCHANGED workVars
    <3>1. \A d \in Consumers : AtOK(d)'
      BY <1>0, <1>a, <2>3 DEF workVars, AtOK
    <3>2. QED
      BY <1>0, <1>a, <1>b, <1>f, <1>6, <2>1, <2>2, <2>m, <2>3, <3>1 DEF Rebalance, workVars
  <2>4. CASE \E c \in Consumers : Drop(c)
    BY <1>0, <1>d, <1>f, <1>6, <2>1, <2>2, <2>m, <2>4 DEF Rebalance
  <2>5. QED
    BY <1>6, <2>3, <2>4 DEF Rebalance
<1>7. QED
  BY <1>1, <1>2, <1>3, <1>4, <1>5, <1>6 DEF ConsumerStep

LEMMA TypeStep == TypeOK /\ [Next]_vars => TypeOK' /\ LogGrows
<1> SUFFICES ASSUME TypeOK, [Next]_vars
             PROVE  TypeOK' /\ LogGrows
  OBVIOUS
<1>1. CASE \E r \in Rows : Enqueue(r)
  <2>1. RelayTypeOK' /\ LogGrows /\ UNCHANGED consumerVars
    BY <1>1 DEF Enqueue, topicVars, TypeOK, RelayTypeOK, LogGrows
  <2>2. QED
    BY <2>1, GroupTypeKept DEF TypeOK
<1>2. CASE \E l \in Relays : RelayStep(l) \/ PublishFails(l) \/ RelayCrash(l)
  <2>1. RelayTypeOK' /\ LogGrows
    BY <1>2, RelayTypeStep
  <2>2. UNCHANGED consumerVars
    BY <1>2 DEF RelayStep, SelectPending, PublishOK, MarkPublished, CommitBatch, PublishFails,
                RelayCrash, EndBatch
  <2>3. QED
    BY <2>1, <2>2, GroupTypeKept DEF TypeOK
<1>3. CASE (\E c \in Consumers : ConsumerStep(c)) \/ Rebalance
  <2>1. UNCHANGED producerVars
    BY <1>3 DEF ConsumerStep, Fetch, Handle, HandleFails, SendToDLQ, CommitOffset, Rebalance
  <2>2. QED
    BY <1>3, <2>1, GroupTypeStep, RelayTypeKept DEF TypeOK
<1>4. CASE UNCHANGED vars
  <2>1. UNCHANGED producerVars /\ UNCHANGED consumerVars
    BY <1>4 DEF vars, producerVars, consumerVars
  <2>2. QED
    BY <2>1, RelayTypeKept, GroupTypeKept DEF TypeOK
<1>5. QED
  BY <1>1, <1>2, <1>3, <1>4 DEF Next

\* Every variable keeps its type, and what a consumer has at hand is on the topic: the
\* indexes that Fetch, CommitOffset and Rebalance compute never leave the log.
THEOREM SpecTypeOK == Spec => []TypeOK
<1>1. TypeOK /\ [Next]_vars => TypeOK'
  BY TypeStep
<1>2. QED
  BY TypeInit, <1>1, PTL DEF Spec

----------------------------------------------------------------------------
\* The relay

\* Everything the relay's invariants read.
LEMMA RelayInvKept ==
    ASSUME RelayInv, UNCHANGED producerVars
    PROVE  RelayInv'
BY DEF RelayInv, LockInv, TopicInv, CopiesInv, LockedCopies, InHand, Current, OnTopic,
       producerVars, relayVars, topicVars

LEMMA SelectedUnlockedRows ==
    ASSUME TypeOK, NEW r \in OldestSelectable
    PROVE  r \in Rows /\ outbox[r] = "pending" /\ rowLock[r] = Nobody
BY DEF OldestSelectable, Selectable

LEMMA LockStep ==
    ASSUME TypeOK, LockInv, NEW l \in Relays, RelayStep(l) \/ PublishFails(l) \/ RelayCrash(l)
    PROVE  LockInv'
<1>0. /\ outbox \in [Rows -> {"none", "pending", "published"}]
      /\ rowLock \in [Rows -> Relays \cup {Nobody}]
      /\ batch \in [Relays -> SUBSET Rows] /\ marked \in [Relays -> SUBSET Rows]
      /\ rpc \in [Relays -> {"idle", "publish", "mark"}]
      /\ \A k \in Relays : rpc[k] = "mark" => batch[k] # {}
      /\ aborted \in [Relays -> BOOLEAN]
      /\ Nobody \notin Relays
  BY NobodyAssumption DEF TypeOK, RelayTypeOK
<1> USE DEF LockInv
<1>1. CASE SelectPending(l)
  <2>1. /\ batch' = [batch EXCEPT ![l] = OldestSelectable]
        /\ rowLock' = [r \in Rows |-> IF r \in OldestSelectable THEN l ELSE rowLock[r]]
        /\ rpc' = [rpc EXCEPT ![l] = "publish"] /\ rpc[l] = "idle"
        /\ UNCHANGED <<outbox, marked, aborted>>
    BY <1>1 DEF SelectPending, RelayGoto
  <2>2. \A r \in OldestSelectable : outbox[r] = "pending" /\ rowLock[r] = Nobody
    BY SelectedUnlockedRows
  <2>3. QED
    BY <1>0, <2>1, <2>2
<1>2. CASE PublishOK(l)
  <2>1. /\ UNCHANGED <<outbox, rowLock, batch, marked, aborted>>
        /\ rpc' = [rpc EXCEPT ![l] = "mark"] /\ rpc[l] = "publish"
    BY <1>2 DEF PublishOK, RelayGoto
  <2>2. QED
    BY <1>0, <2>1
<1>3. CASE MarkPublished(l)
  <2>1. Current(l) \in batch[l]
    BY <1>0, <1>3, CurrentInBatch DEF MarkPublished
  <2>2. /\ UNCHANGED <<outbox, rowLock>>
        /\ batch' = [batch EXCEPT ![l] = @ \ {Current(l)}]
        /\ rpc' = [rpc EXCEPT ![l] = "publish"] /\ rpc[l] = "mark"
        /\ marked' = [marked EXCEPT ![l] = @ \cup {Current(l)}] \/ marked' = marked
        /\ aborted' = [aborted EXCEPT ![l] = TRUE] \/ aborted' = aborted
    BY <1>3 DEF MarkPublished, RelayGoto
  <2>3. ASSUME NEW k \in Relays
        PROVE  rpc'[k] = "idle" => ~aborted'[k]
    BY <1>0, <2>2
  <2>4. ASSUME NEW k \in Relays, NEW r \in Rows
        PROVE  /\ rowLock'[r] = k => outbox'[r] = "pending" /\ rpc'[k] # "idle"
               /\ r \in batch'[k] => rowLock'[r] = k /\ r \notin marked'[k]
               /\ r \in marked'[k] => rowLock'[r] = k
    BY <1>0, <2>1, <2>2
  <2>5. QED
    BY <2>3, <2>4
<1>4. CASE CommitBatch(l)
  <2>1. /\ batch[l] = {} /\ rpc[l] = "publish"
        /\ batch' = [batch EXCEPT ![l] = {}] /\ marked' = [marked EXCEPT ![l] = {}]
        /\ aborted' = [aborted EXCEPT ![l] = FALSE] /\ rpc' = [rpc EXCEPT ![l] = "idle"]
        /\ rowLock' = [r \in Rows |-> IF rowLock[r] = l THEN Nobody ELSE rowLock[r]]
        /\ outbox' = [r \in Rows |->
                         IF r \in marked[l] /\ ~aborted[l] THEN "published" ELSE outbox[r]]
    BY <1>4 DEF CommitBatch, EndBatch, RelayGoto
  <2>2. ASSUME NEW k \in Relays
        PROVE  rpc'[k] = "idle" => ~aborted'[k]
    BY <1>0, <2>1
  <2>3. ASSUME NEW k \in Relays, NEW r \in Rows
        PROVE  /\ rowLock'[r] = k => outbox'[r] = "pending" /\ rpc'[k] # "idle"
               /\ r \in batch'[k] => rowLock'[r] = k /\ r \notin marked'[k]
               /\ r \in marked'[k] => rowLock'[r] = k
    BY <1>0, <2>1
  <2>4. QED
    BY <2>2, <2>3
<1>5. CASE PublishFails(l)
  <2>1. /\ UNCHANGED <<outbox, rowLock, marked, rpc>> /\ rpc[l] = "publish"
        /\ batch' = [batch EXCEPT ![l] = @ \ {Current(l)}]
        /\ aborted' = [aborted EXCEPT ![l] = TRUE] \/ aborted' = aborted
    BY <1>5 DEF PublishFails
  <2>2. QED
    BY <1>0, <2>1
<1>6. CASE RelayCrash(l)
  <2>1. /\ batch' = [batch EXCEPT ![l] = {}] /\ marked' = [marked EXCEPT ![l] = {}]
        /\ aborted' = [aborted EXCEPT ![l] = FALSE] /\ rpc' = [rpc EXCEPT ![l] = "idle"]
        /\ rowLock' = [r \in Rows |-> IF rowLock[r] = l THEN Nobody ELSE rowLock[r]]
        /\ outbox' = outbox
    BY <1>6 DEF RelayCrash, EndBatch, RelayGoto
  <2>2. ASSUME NEW k \in Relays
        PROVE  rpc'[k] = "idle" => ~aborted'[k]
    BY <1>0, <2>1
  <2>3. ASSUME NEW k \in Relays, NEW r \in Rows
        PROVE  /\ rowLock'[r] = k => outbox'[r] = "pending" /\ rpc'[k] # "idle"
               /\ r \in batch'[k] => rowLock'[r] = k /\ r \notin marked'[k]
               /\ r \in marked'[k] => rowLock'[r] = k
    BY <1>0, <2>1
  <2>4. QED
    BY <2>2, <2>3
<1>7. QED
  BY <1>1, <1>2, <1>3, <1>4, <1>5, <1>6 DEF RelayStep

\* Which row a relay has in hand changes with its own steps only.
LEMMA OthersHandKept ==
    ASSUME NEW l \in Relays, NEW k \in Relays, k # l, NEW r \in Rows,
           batch'[k] = batch[k], rpc'[k] = rpc[k]
    PROVE  InHand(k, r)' = InHand(k, r)
BY DEF InHand, Current

LEMMA TopicStep ==
    ASSUME TypeOK, TypeOK', LogGrows, LockInv, TopicInv,
           NEW l \in Relays, RelayStep(l) \/ PublishFails(l) \/ RelayCrash(l)
    PROVE  TopicInv'
<1>0. /\ outbox \in [Rows -> {"none", "pending", "published"}]
      /\ batch \in [Relays -> SUBSET Rows] /\ marked \in [Relays -> SUBSET Rows]
      /\ rpc \in [Relays -> {"idle", "publish", "mark"}]
  BY DEF TypeOK, RelayTypeOK
<1>1. \A r \in Rows : OnTopic(r) => OnTopic(r)'
  BY OnTopicStays
<1>2. /\ \A r \in Rows : outbox[r] = "published" => OnTopic(r)
      /\ \A k \in Relays : \A r \in Rows : r \in marked[k] \/ InHand(k, r) => OnTopic(r)
  BY DEF TopicInv
<1>3. ASSUME outbox' = outbox \/ \E m \in {marked[l]} :
                outbox' = [r \in Rows |-> IF r \in m /\ ~aborted[l] THEN "published" ELSE outbox[r]],
             \A k \in Relays \ {l} : marked'[k] = marked[k] /\ batch'[k] = batch[k] /\ rpc'[k] = rpc[k],
             \A r \in Rows : r \in marked'[l] \/ InHand(l, r)' => OnTopic(r)'
      PROVE  TopicInv'
  <2>1. ASSUME NEW r \in Rows, outbox'[r] = "published"
        PROVE  OnTopic(r)'
    BY <1>0, <1>1, <1>2, <1>3, <2>1
  <2>2. ASSUME NEW k \in Relays, NEW r \in Rows, r \in marked'[k] \/ InHand(k, r)'
        PROVE  OnTopic(r)'
    <3>1. CASE k = l
      BY <3>1, <2>2, <1>3
    <3>2. CASE k # l
      BY <3>2, <2>2, <1>1, <1>2, <1>3, OthersHandKept
    <3>3. QED
      BY <3>1, <3>2
  <2>3. QED
    BY <2>1, <2>2 DEF TopicInv
<1>4. CASE SelectPending(l)
  <2>1. \A r \in Rows : r \in marked'[l] \/ InHand(l, r)' => OnTopic(r)'
    BY <1>0, <1>1, <1>2, <1>4 DEF SelectPending, RelayGoto, InHand
  <2>2. QED
    BY <1>0, <1>3, <1>4, <2>1 DEF SelectPending, RelayGoto
<1>5. CASE PublishOK(l)
  <2>1. Current(l) \in Rows /\ Current(l)' = Current(l)
    BY <1>5, CurrentInBatch DEF PublishOK, Current
  <2>2. PICK times \in {1, 2} : Publish(Current(l), times)
    BY <1>5 DEF PublishOK
  <2>3. OnTopic(Current(l))'
    <3>1. \A r \in Rows : Publish(r, times) => OnTopic(r)'
      BY PublishAppends
    <3>2. LET r == Current(l) IN OnTopic(r)'
      BY <2>1, <2>2, <3>1
    <3>3. QED
      BY <2>1, <3>2 DEF OnTopic
  <2>4. \A r \in Rows : r \in marked'[l] \/ InHand(l, r)' => OnTopic(r)'
    BY <1>0, <1>1, <1>2, <1>5, <2>1, <2>3 DEF PublishOK, InHand, OnTopic
  <2>5. QED
    BY <1>0, <1>3, <1>5, <2>4 DEF PublishOK, RelayGoto
<1>6. CASE MarkPublished(l)
  <2>1. \A r \in Rows : r \in marked'[l] \/ InHand(l, r)' => OnTopic(r)'
    BY <1>0, <1>1, <1>2, <1>6 DEF MarkPublished, RelayGoto, InHand
  <2>2. QED
    BY <1>0, <1>3, <1>6, <2>1 DEF MarkPublished, RelayGoto
<1>7. CASE CommitBatch(l)
  <2>1. \A r \in Rows : r \in marked'[l] \/ InHand(l, r)' => OnTopic(r)'
    BY <1>0, <1>7 DEF CommitBatch, EndBatch, RelayGoto, InHand
  <2>2. QED
    BY <1>0, <1>3, <1>7, <2>1 DEF CommitBatch, EndBatch, RelayGoto
<1>8. CASE PublishFails(l)
  <2>1. \A r \in Rows : r \in marked'[l] \/ InHand(l, r)' => OnTopic(r)'
    BY <1>0, <1>1, <1>2, <1>8 DEF PublishFails, InHand
  <2>2. QED
    BY <1>0, <1>3, <1>8, <2>1 DEF PublishFails
<1>9. CASE RelayCrash(l)
  <2>1. \A r \in Rows : r \in marked'[l] \/ InHand(l, r)' => OnTopic(r)'
    BY <1>0, <1>9 DEF RelayCrash, EndBatch, RelayGoto, InHand
  <2>2. QED
    BY <1>0, <1>3, <1>9, <2>1 DEF RelayCrash, EndBatch, RelayGoto
<1>10. QED
  BY <1>4, <1>5, <1>6, <1>7, <1>8, <1>9 DEF RelayStep

LEMMA CopiesStep ==
    ASSUME TypeOK, TypeOK', LockInv, LockInv', CopiesInv,
           NEW l \in Relays, RelayStep(l) \/ PublishFails(l) \/ RelayCrash(l)
    PROVE  CopiesInv'
<1>0. /\ outbox \in [Rows -> {"none", "pending", "published"}]
      /\ rowLock \in [Rows -> Relays \cup {Nobody}]
      /\ batch \in [Relays -> SUBSET Rows] /\ marked \in [Relays -> SUBSET Rows]
      /\ rpc \in [Relays -> {"idle", "publish", "mark"}]
      /\ \A k \in Relays : rpc[k] = "mark" => batch[k] # {}
      /\ copies \in [Rows -> Nat] /\ copies' \in [Rows -> Nat]
      /\ failures \in Nat /\ failures' \in Nat
      /\ Nobody \notin Relays
  BY NobodyAssumption, BoundsAssumption DEF TypeOK, RelayTypeOK
<1>a. aborted \in [Relays -> BOOLEAN]
  BY DEF TypeOK, RelayTypeOK
\* The rows of other relays, and the rows that nobody locks.
<1>1. ASSUME \A k \in Relays \ {l} : /\ marked'[k] = marked[k] /\ batch'[k] = batch[k]
                                     /\ rpc'[k] = rpc[k] /\ aborted'[k] = aborted[k],
             failures' >= failures,
             \A r \in Rows : copies'[r] = copies[r] \/ rowLock[r] = l,
             \A r \in Rows : rowLock[r] # l /\ rowLock'[r] # l =>
                                 rowLock'[r] = rowLock[r] /\ outbox'[r] = outbox[r],
             \A r \in Rows : rowLock[r] = l \/ rowLock'[r] = l =>
                 /\ outbox'[r] = "published" => copies'[r] <= 1 + failures'
                 /\ outbox'[r] # "published" /\ rowLock'[r] = Nobody => copies'[r] <= failures'
                 /\ rowLock'[r] \in {l, Nobody}
                 /\ rowLock'[r] = l => LockedCopies(l, r)'
      PROVE  CopiesInv'
  <2> SUFFICES ASSUME NEW r \in Rows
               PROVE  /\ outbox'[r] = "published" => copies'[r] <= 1 + failures'
                      /\ outbox'[r] # "published" /\ rowLock'[r] = Nobody => copies'[r] <= failures'
                      /\ \A k \in Relays : rowLock'[r] = k => LockedCopies(k, r)'
    BY DEF CopiesInv
  <2>1. CASE rowLock[r] = l \/ rowLock'[r] = l
    BY <1>0, <1>1, <2>1
  <2>2. CASE rowLock[r] # l /\ rowLock'[r] # l
    <3>1. copies'[r] = copies[r] /\ rowLock'[r] = rowLock[r] /\ outbox'[r] = outbox[r]
      BY <1>1, <2>2
    <3>2. ASSUME NEW k \in Relays, rowLock[r] = k
          PROVE  LockedCopies(k, r)'
      <4>1. k # l /\ LockedCopies(k, r)
        BY <2>2, <3>2 DEF CopiesInv
      <4>2. InHand(k, r)' = InHand(k, r)
        BY <1>1, <4>1, OthersHandKept
      <4>3. QED
        BY <1>0, <1>1, <3>1, <4>1, <4>2 DEF LockedCopies
    <3>3. QED
      BY <1>0, <1>1, <3>1, <3>2 DEF CopiesInv
  <2>3. QED
    BY <2>1, <2>2
<1>2. CASE SelectPending(l)
  <2>1. /\ batch' = [batch EXCEPT ![l] = OldestSelectable]
        /\ rowLock' = [r \in Rows |-> IF r \in OldestSelectable THEN l ELSE rowLock[r]]
        /\ rpc' = [rpc EXCEPT ![l] = "publish"] /\ rpc[l] = "idle"
        /\ UNCHANGED <<outbox, marked, aborted, copies, failures>>
    BY <1>2 DEF SelectPending, RelayGoto, topicVars
  <2>2. ASSUME NEW r \in Rows, rowLock[r] = l \/ rowLock'[r] = l
        PROVE  /\ outbox'[r] = "pending" /\ rowLock'[r] = l /\ copies'[r] <= failures'
               /\ ~aborted'[l]
    BY <1>0, <2>1, <2>2, SelectedUnlockedRows DEF LockInv, CopiesInv
  <2>3. ASSUME NEW r \in Rows, rowLock[r] = l \/ rowLock'[r] = l
        PROVE  LockedCopies(l, r)'
    BY <1>0, <2>1, <2>2, <2>3 DEF LockedCopies
  <2>4. QED
    BY <1>0, <1>1, <2>1, <2>2, <2>3
<1>3. CASE PublishOK(l)
  <2>1. Current(l) \in batch[l] /\ Current(l) \in Rows /\ Current(l)' = Current(l)
    BY <1>3, CurrentInBatch DEF PublishOK, Current
  <2>2. /\ UNCHANGED <<outbox, rowLock, batch, marked, aborted>>
        /\ rpc' = [rpc EXCEPT ![l] = "mark"] /\ rpc[l] = "publish"
        /\ copies' = [copies EXCEPT ![Current(l)] = @ + 1]
        /\ failures' >= failures
    BY <1>0, <1>3 DEF PublishOK, Publish, RelayGoto
  <2>3. \A r \in Rows : ~InHand(l, r) /\ (InHand(l, r)' <=> r = Current(l))
    BY <1>0, <2>1, <2>2 DEF InHand
  <2>4. ASSUME NEW r \in Rows, rowLock[r] = l
        PROVE  outbox'[r] # "published" /\ LockedCopies(l, r)'
    <3>1. outbox[r] = "pending" /\ LockedCopies(l, r)
      BY <2>4 DEF LockInv, CopiesInv
    <3>2. CASE r = Current(l)
      <4>1. r \in batch[l] /\ r \notin marked[l] /\ ~InHand(l, r) /\ InHand(l, r)'
        BY <2>1, <2>3, <2>4, <3>2 DEF LockInv
      <4>2. copies'[r] = copies[r] + 1
        BY <1>0, <2>2, <3>2
      <4>3. QED
        BY <1>0, <2>2, <3>1, <4>1, <4>2 DEF LockedCopies
    <3>3. CASE r # Current(l)
      <4>1. copies'[r] = copies[r] /\ ~InHand(l, r) /\ ~InHand(l, r)'
        BY <1>0, <2>2, <2>3, <3>3
      <4>2. QED
        BY <1>0, <2>2, <3>1, <4>1 DEF LockedCopies
    <3>4. QED
      BY <3>2, <3>3
  <2>5. \A r \in Rows : copies'[r] = copies[r] \/ rowLock[r] = l
    BY <1>0, <2>1, <2>2 DEF LockInv
  <2>6. QED
    BY <1>0, <1>1, <2>2, <2>4, <2>5
<1>4. CASE MarkPublished(l)
  <2>1. Current(l) \in batch[l] /\ Current(l) \in Rows
    BY <1>0, <1>4, CurrentInBatch DEF MarkPublished
  <2>2. /\ UNCHANGED <<outbox, rowLock, copies>>
        /\ batch' = [batch EXCEPT ![l] = @ \ {Current(l)}]
        /\ rpc' = [rpc EXCEPT ![l] = "publish"] /\ rpc[l] = "mark"
    BY <1>4 DEF MarkPublished, RelayGoto, topicVars
  <2>3. \/ /\ ~aborted[l] /\ aborted' = aborted /\ failures' = failures
           /\ marked' = [marked EXCEPT ![l] = @ \cup {Current(l)}]
        \/ ~aborted[l] /\ aborted' = [aborted EXCEPT ![l] = TRUE]
              /\ failures' = failures + 1 /\ marked' = marked
        \/ aborted[l] /\ aborted' = [aborted EXCEPT ![l] = TRUE]
              /\ failures' = failures /\ marked' = marked
    BY <1>a, <1>4 DEF MarkPublished
  <2>4. \A r \in Rows : (InHand(l, r) <=> r = Current(l)) /\ ~InHand(l, r)'
    BY <1>0, <2>2 DEF InHand
  <2>5. ASSUME NEW r \in Rows, rowLock[r] = l
        PROVE  outbox'[r] # "published" /\ LockedCopies(l, r)'
    <3>1. outbox[r] = "pending" /\ LockedCopies(l, r)
      BY <2>5 DEF LockInv, CopiesInv
    <3>2. /\ r \in batch'[l] <=> r \in batch[l] /\ r # Current(l)
          /\ copies'[r] = copies[r] /\ copies[r] \in Nat
      BY <1>0, <2>2
    <3>3. CASE ~aborted[l] /\ failures' = failures
      <4>1. aborted'[l] = FALSE /\ marked'[l] = marked[l] \cup {Current(l)}
        BY <1>0, <1>a, <2>3, <3>3
      <4>2. QED
        BY <1>0, <2>2, <2>4, <3>1, <3>2, <3>3, <4>1 DEF LockedCopies
    <3>4. CASE ~aborted[l] /\ failures' = failures + 1
      <4>1. aborted'[l] = TRUE /\ marked'[l] = marked[l]
        BY <1>0, <1>a, <2>3, <3>4
      <4>2. r \in batch[l] => r \notin marked[l]
        BY DEF LockInv
      <4>3. QED
        BY <1>0, <2>2, <2>4, <3>1, <3>2, <3>4, <4>1, <4>2 DEF LockedCopies
    <3>5. CASE aborted[l]
      <4>1. aborted'[l] = TRUE /\ failures' = failures
        BY <1>0, <1>a, <2>3, <3>5
      <4>2. QED
        BY <1>0, <2>2, <2>4, <3>1, <3>2, <3>5, <4>1 DEF LockedCopies
    <3>6. QED
      BY <2>3, <3>3, <3>4, <3>5
  <2>6. \A k \in Relays \ {l} : /\ marked'[k] = marked[k] /\ batch'[k] = batch[k]
                                /\ rpc'[k] = rpc[k] /\ aborted'[k] = aborted[k]
    BY <1>0, <1>a, <2>2, <2>3
  <2>7. failures' >= failures
    BY <1>0, <2>3
  <2>8. QED
    BY <1>0, <1>1, <2>2, <2>5, <2>6, <2>7
<1>5. ASSUME EndBatch(l), UNCHANGED copies, failures' >= failures,
             \A r \in Rows : rowLock[r] # l => outbox'[r] = outbox[r],
             \A r \in Rows : rowLock[r] = l =>
                 copies[r] <= IF outbox'[r] = "published" THEN 1 + failures' ELSE failures'
      PROVE  CopiesInv'
  <2>1. /\ batch' = [batch EXCEPT ![l] = {}] /\ marked' = [marked EXCEPT ![l] = {}]
        /\ aborted' = [aborted EXCEPT ![l] = FALSE] /\ rpc' = [rpc EXCEPT ![l] = "idle"]
        /\ rowLock' = [r \in Rows |-> IF rowLock[r] = l THEN Nobody ELSE rowLock[r]]
    BY <1>5 DEF EndBatch, RelayGoto
  <2>2. \A k \in Relays \ {l} : /\ marked'[k] = marked[k] /\ batch'[k] = batch[k]
                                /\ rpc'[k] = rpc[k] /\ aborted'[k] = aborted[k]
    BY <1>0, <1>a, <2>1
  <2>3. \A r \in Rows : rowLock'[r] = IF rowLock[r] = l THEN Nobody ELSE rowLock[r]
    BY <2>1
  <2>4. \A r \in Rows : rowLock[r] = l \/ rowLock'[r] = l =>
           /\ outbox'[r] = "published" => copies'[r] <= 1 + failures'
           /\ outbox'[r] # "published" /\ rowLock'[r] = Nobody => copies'[r] <= failures'
           /\ rowLock'[r] \in {l, Nobody}
           /\ rowLock'[r] # l
    BY <1>0, <1>5, <2>3
  <2>5. QED
    BY <1>1, <1>5, <2>2, <2>3, <2>4
<1>6. CASE CommitBatch(l)
  <2>1. ASSUME NEW r \in Rows, rowLock[r] = l
        PROVE  copies[r] <= IF outbox'[r] = "published" THEN 1 + failures' ELSE failures'
    <3>1. outbox[r] = "pending" /\ LockedCopies(l, r) /\ failures' = failures
      BY <1>6, <2>1 DEF LockInv, CopiesInv, CommitBatch
    <3>2. outbox'[r] = IF r \in marked[l] /\ ~aborted[l] THEN "published" ELSE outbox[r]
      BY <1>6 DEF CommitBatch
    <3>3. ~InHand(l, r)
      BY <1>6 DEF CommitBatch, InHand
    <3>4. QED
      BY <1>0, <3>1, <3>2, <3>3 DEF LockedCopies
  <2>2. \A r \in Rows : rowLock[r] # l => outbox'[r] = outbox[r]
    BY <1>0, <1>6 DEF CommitBatch, LockInv
  <2>3. QED
    BY <1>0, <1>5, <1>6, <2>1, <2>2 DEF CommitBatch, EndBatch, topicVars
<1>7. CASE PublishFails(l)
  <2>1. Current(l) \in batch[l] /\ Current(l) \in Rows
    BY <1>7, CurrentInBatch DEF PublishFails
  <2>2. /\ UNCHANGED <<outbox, rowLock, marked, rpc>> /\ rpc[l] = "publish"
        /\ batch' = [batch EXCEPT ![l] = @ \ {Current(l)}]
        /\ copies' = copies \/ copies' = [copies EXCEPT ![Current(l)] = @ + 1]
        /\ failures' = failures + 1
    BY <1>7 DEF PublishFails, Publish, topicVars
  <2>3. aborted' = aborted \/ aborted' = [aborted EXCEPT ![l] = TRUE]
    BY <1>7 DEF PublishFails
  <2>4. \A r \in Rows : ~InHand(l, r) /\ ~InHand(l, r)'
    BY <1>0, <2>2 DEF InHand
  <2>5. ASSUME NEW r \in Rows, rowLock[r] = l
        PROVE  outbox'[r] # "published" /\ LockedCopies(l, r)'
    <3>1. outbox[r] = "pending" /\ LockedCopies(l, r)
      BY <2>5 DEF LockInv, CopiesInv
    <3>2. CASE r = Current(l)
      <4>1. r \in batch[l] /\ r \notin marked[l] /\ r \notin batch'[l]
        BY <1>0, <2>1, <2>2, <3>2 DEF LockInv
      <4>2. copies'[r] <= copies[r] + 1 /\ copies[r] <= failures
        BY <1>0, <2>2, <2>4, <3>1, <3>2, <4>1 DEF LockedCopies
      <4>3. QED
        BY <1>0, <2>2, <3>1, <4>1, <4>2 DEF LockedCopies
    <3>3. CASE r # Current(l)
      <4>1. copies'[r] = copies[r] /\ (r \in batch'[l] <=> r \in batch[l]) /\ marked' = marked
        BY <1>0, <2>2, <3>3
      <4>2. r \in batch[l] => r \notin marked[l]
        BY DEF LockInv
      <4>3. QED
        BY <1>0, <2>2, <2>4, <3>1, <4>1, <4>2 DEF LockedCopies
    <3>4. QED
      BY <3>2, <3>3
  <2>6. \A r \in Rows : copies'[r] = copies[r] \/ rowLock[r] = l
    BY <1>0, <2>1, <2>2 DEF LockInv
  <2>7. \A k \in Relays \ {l} : /\ marked'[k] = marked[k] /\ batch'[k] = batch[k]
                                /\ rpc'[k] = rpc[k] /\ aborted'[k] = aborted[k]
    BY <1>0, <1>a, <2>2, <2>3
  <2>8. QED
    BY <1>0, <1>1, <2>2, <2>5, <2>6, <2>7
<1>8. CASE RelayCrash(l)
  <2>1. ASSUME NEW r \in Rows, rowLock[r] = l
        PROVE  copies[r] <= IF outbox'[r] = "published" THEN 1 + failures' ELSE failures'
    <3>1. LockedCopies(l, r) /\ failures' = failures + 1
      BY <1>8, <2>1 DEF CopiesInv, RelayCrash
    <3>2. copies[r] <= failures + 1
      BY <1>0, <3>1 DEF LockedCopies
    <3>3. QED
      BY <1>0, <3>1, <3>2
  <2>2. \A r \in Rows : rowLock[r] # l => outbox'[r] = outbox[r]
    BY <1>8 DEF RelayCrash
  <2>3. QED
    BY <1>0, <1>5, <1>8, <2>1, <2>2 DEF RelayCrash, EndBatch, topicVars
<1>9. QED
  BY <1>2, <1>3, <1>4, <1>6, <1>7, <1>8 DEF RelayStep

LEMMA RelayInvInit == Init => RelayInv
<1> SUFFICES ASSUME Init PROVE RelayInv
  OBVIOUS
<1>1. LockInv
  BY NobodyAssumption DEF Init, LockInv
<1>2. TopicInv
  BY DEF Init, TopicInv, InHand
<1>3. CopiesInv
  BY NobodyAssumption DEF Init, CopiesInv
<1>4. QED
  BY <1>1, <1>2, <1>3 DEF RelayInv

LEMMA RelayInvStep == TypeOK /\ RelayInv /\ [Next]_vars => RelayInv'
<1> SUFFICES ASSUME TypeOK, RelayInv, [Next]_vars
             PROVE  RelayInv'
  OBVIOUS
<1>0. TypeOK' /\ LogGrows
  BY TypeStep
<1>1. ASSUME NEW r \in Rows, Enqueue(r)
      PROVE  RelayInv'
  <2>1. /\ outbox[r] = "none" /\ outbox' = [outbox EXCEPT ![r] = "pending"]
        /\ UNCHANGED <<rowLock, batch, marked, rpc, aborted, log, copies, failures>>
    BY <1>1 DEF Enqueue, topicVars
  <2>2. outbox \in [Rows -> {"none", "pending", "published"}]
    BY DEF TypeOK, RelayTypeOK
  <2>3. LockInv'
    BY <2>1, <2>2 DEF RelayInv, LockInv
  <2>4. TopicInv'
    BY <2>1, <2>2 DEF RelayInv, TopicInv, InHand, Current, OnTopic
  <2>5. CopiesInv'
    BY <2>1, <2>2 DEF RelayInv, CopiesInv, LockedCopies, InHand, Current
  <2>6. QED
    BY <2>3, <2>4, <2>5 DEF RelayInv
<1>2. ASSUME NEW l \in Relays, RelayStep(l) \/ PublishFails(l) \/ RelayCrash(l)
      PROVE  RelayInv'
  BY <1>0, <1>2, LockStep, TopicStep, CopiesStep DEF RelayInv
<1>3. CASE (\E c \in Consumers : ConsumerStep(c)) \/ Rebalance
  <2>1. UNCHANGED producerVars
    BY <1>3 DEF ConsumerStep, Fetch, Handle, HandleFails, SendToDLQ, CommitOffset, Rebalance
  <2>2. QED
    BY <2>1, RelayInvKept
<1>4. CASE UNCHANGED vars
  <2>1. UNCHANGED producerVars
    BY <1>4 DEF vars, producerVars
  <2>2. QED
    BY <2>1, RelayInvKept
<1>5. QED
  BY <1>1, <1>2, <1>3, <1>4 DEF Next

\* A row leaves the backlog only when its event is on the topic, and is published at
\* most once more than there were failures, whatever the batch size and however many
\* relays poll the table side by side.
THEOREM SpecBacklogMatchesTopic == Spec => []BacklogMatchesTopic
<1>1. Init => TypeOK /\ RelayInv
  BY TypeInit, RelayInvInit
<1>2. TypeOK /\ RelayInv /\ [Next]_vars => (TypeOK /\ RelayInv)'
  BY TypeStep, RelayInvStep
<1>3. TypeOK /\ RelayInv => BacklogMatchesTopic
  <2> SUFFICES ASSUME TypeOK, RelayInv, NEW r \in Rows
               PROVE  (outbox[r] = "published" => OnTopic(r)) /\ copies[r] <= 1 + failures
    BY DEF BacklogMatchesTopic
  <2>1. copies[r] \in Nat /\ failures \in Nat /\ rowLock[r] \in Relays \cup {Nobody}
    BY BoundsAssumption DEF TypeOK, RelayTypeOK
  <2>2. CASE rowLock[r] = Nobody
    BY <2>1, <2>2 DEF RelayInv, TopicInv, CopiesInv
  <2>3. CASE rowLock[r] \in Relays
    <3>1. LockedCopies(rowLock[r], r)
      BY <2>3 DEF RelayInv, CopiesInv
    <3>2. QED
      BY <2>1, <3>1 DEF RelayInv, TopicInv, LockedCopies
  <2>4. QED
    BY <2>1, <2>2, <2>3
<1>4. QED
  BY <1>1, <1>2, <1>3, PTL DEF Spec

----------------------------------------------------------------------------
\* The consumer group

EffectsInv == IsFiniteSet(processed) /\ OncePerEventId

LEMMA EffectsInit == Init => EffectsInv
BY FS_EmptySet DEF Init, EffectsInv, OncePerEventId

LEMMA EffectsStep == TypeOK /\ EffectsInv /\ [Next]_vars => EffectsInv'
<1> SUFFICES ASSUME TypeOK, EffectsInv, [Next]_vars
             PROVE  EffectsInv'
  OBVIOUS
<1>1. ASSUME NEW c \in Consumers, Handle(c), AtHand(c) \notin processed
      PROVE  EffectsInv'
  <2> DEFINE m == AtHand(c)
             Of(r) == {x \in processed : x.row = r}
  <2>1. /\ m.row \in Rows /\ effects \in [Rows -> Nat]
        /\ processed' = processed \cup {m}
        /\ effects' = [effects EXCEPT ![m.row] = @ + 1]
    BY <1>1, AtHandIsMessage DEF Handle, TypeOK, GroupTypeOK
  <2>2. IsFiniteSet(processed')
    BY <2>1, FS_AddElement DEF EffectsInv
  <2>3. ASSUME NEW r \in Rows
        PROVE  effects'[r] = Cardinality({x \in processed' : x.row = r})
    <3>1. IsFiniteSet(Of(r)) /\ effects[r] = Cardinality(Of(r))
      BY FS_Subset DEF EffectsInv, OncePerEventId
    <3>2. CASE r = m.row
      <4>1. {x \in processed' : x.row = r} = Of(r) \cup {m} /\ m \notin Of(r)
        BY <2>1, <3>2, <1>1
      <4>2. Cardinality(Of(r) \cup {m}) = Cardinality(Of(r)) + 1
        BY <3>1, <4>1, FS_AddElement
      <4>3. QED
        BY <2>1, <3>1, <3>2, <4>1, <4>2
    <3>3. CASE r # m.row
      <4>1. {x \in processed' : x.row = r} = Of(r)
        BY <2>1, <3>3
      <4>2. QED
        BY <2>1, <3>1, <3>3, <4>1
    <3>4. QED
      BY <3>2, <3>3
  <2>4. QED
    BY <2>2, <2>3 DEF EffectsInv, OncePerEventId
<1>2. CASE UNCHANGED <<processed, effects>>
  BY <1>2 DEF EffectsInv, OncePerEventId
<1>3. \/ UNCHANGED <<processed, effects>>
      \/ \E c \in Consumers : Handle(c) /\ AtHand(c) \notin processed
  <2>1. ASSUME NEW r \in Rows, Enqueue(r) PROVE UNCHANGED <<processed, effects>>
    BY <2>1 DEF Enqueue, consumerVars, resultVars
  <2>2. ASSUME NEW l \in Relays, RelayStep(l) \/ PublishFails(l) \/ RelayCrash(l)
        PROVE  UNCHANGED <<processed, effects>>
    BY <2>2 DEF RelayStep, SelectPending, PublishOK, MarkPublished, CommitBatch, PublishFails,
                RelayCrash, EndBatch, consumerVars, resultVars
  <2>3. ASSUME NEW c \in Consumers, ConsumerStep(c)
        PROVE  \/ UNCHANGED <<processed, effects>>
               \/ Handle(c) /\ AtHand(c) \notin processed
    BY <2>3 DEF ConsumerStep, Fetch, Handle, HandleFails, SendToDLQ, CommitOffset, resultVars
  <2>4. Rebalance \/ UNCHANGED vars => UNCHANGED <<processed, effects>>
    BY DEF Rebalance, vars, resultVars
  <2>5. QED
    BY <2>1, <2>2, <2>3, <2>4 DEF Next
<1>4. QED
  BY <1>1, <1>2, <1>3

\* An event takes effect exactly once for every event id that processed_events holds,
\* on however many replicas and however often it was delivered.
THEOREM SpecOncePerEventId == Spec => []OncePerEventId
<1>1. Init => TypeOK /\ EffectsInv
  BY TypeInit, EffectsInit
<1>2. TypeOK /\ EffectsInv /\ [Next]_vars => (TypeOK /\ EffectsInv)'
  BY TypeStep, EffectsStep
<1>3. EffectsInv => OncePerEventId
  BY DEF EffectsInv
<1>4. QED
  BY <1>1, <1>2, <1>3, PTL DEF Spec

LEMMA DeliveryInit == Init => DeliveryInv
BY DEF Init, DeliveryInv, BoundsInv, PassedInv

LEMMA DeliveryKept ==
    ASSUME TypeOK, TypeOK', DeliveryInv, LogGrows, UNCHANGED consumerVars
    PROVE  DeliveryInv'
<1>0. /\ log \in [Partitions -> Seq(Message)]
      /\ offset \in [Partitions -> Nat] /\ position \in [Partitions -> Nat \ {0}]
      /\ owner \in [Partitions -> Consumers]
  BY DEF TypeOK, RelayTypeOK, GroupTypeOK
<1>1. UNCHANGED <<offset, owner, position, cpc, at, Settled, Handled>>
  BY DEF consumerVars, groupVars, workVars, resultVars, Settled, Handled, Lost
<1>2. \A c \in Consumers : cpc[c] # "idle" =>
         at[c][1] \in Partitions /\ at[c][2] \in DOMAIN log[at[c][1]] /\ AtHand(c)' = AtHand(c)
  BY <1>1, AtHandIsMessage DEF LogGrows, AtHand
<1>3. \A p \in Partitions : DOMAIN log[p] = 1..Len(log[p]) /\ Len(log[p]) \in Nat
  BY <1>0, LenProperties
<1>4. \A p \in Partitions : DOMAIN log'[p] = 1..Len(log'[p]) /\ Len(log'[p]) \in Nat
  <2>1. log' \in [Partitions -> Seq(Message)]
    BY DEF TypeOK, RelayTypeOK
  <2>2. QED
    BY <2>1, LenProperties
<1>5. BoundsInv'
  <2>1. \A p \in Partitions : offset'[p] <= Len(log'[p]) + 1 /\ position'[p] <= Len(log'[p]) + 1
    BY <1>0, <1>1, <1>3 DEF DeliveryInv, BoundsInv, LogGrows
  <2>2. ASSUME NEW p \in Partitions, offset'[p] > 1
        PROVE  log'[p][offset'[p] - 1] \in Handled'
    <3>1. /\ offset[p] \in Nat /\ offset[p] > 1 /\ offset[p] <= Len(log[p]) + 1
          /\ log[p][offset[p] - 1] \in Handled
      BY <1>0, <1>1, <2>2 DEF DeliveryInv, BoundsInv
    <3>2. offset[p] - 1 \in DOMAIN log[p]
      BY <1>3, <3>1
    <3>3. log'[p][offset[p] - 1] = log[p][offset[p] - 1]
      BY <3>2 DEF LogGrows
    <3>4. QED
      BY <1>1, <3>1, <3>3
  <2>3. QED
    BY <1>1, <1>2, <2>1, <2>2 DEF DeliveryInv, BoundsInv
<1>6. PassedInv'
  <2> SUFFICES ASSUME NEW p \in Partitions, NEW i \in DOMAIN log'[p]
               PROVE  /\ i < offset'[p] => SettledAt(p, i)'
                      /\ \A c \in Consumers :
                            cpc'[c] # "idle" /\ at'[c][1] = p /\ i < at'[c][2] => SettledAt(p, i)'
                      /\ i < position'[p] =>
                            \/ SettledAt(p, i)'
                            \/ cpc'[owner'[p]] # "idle" /\ at'[owner'[p]] = <<p, i>>
    BY DEF PassedInv
  <2>1. CASE i \in DOMAIN log[p]
    <3>1. SettledAt(p, i)' = SettledAt(p, i)
      BY <1>1, <2>1 DEF SettledAt, LogGrows
    <3>2. QED
      BY <1>1, <2>1, <3>1 DEF DeliveryInv, PassedInv
  <2>2. CASE i \notin DOMAIN log[p] /\ i \in Nat /\ i > Len(log[p])
    <3>1. offset[p] <= i /\ position[p] <= i
      BY <1>0, <1>3, <2>2 DEF DeliveryInv, BoundsInv
    <3>2. \A c \in Consumers : cpc[c] # "idle" /\ at[c][1] = p => at[c][2] <= i
      BY <1>2, <1>3, <2>2
    <3>3. offset[p] \in Nat /\ position[p] \in Nat
      BY <1>0
    <3>4. ~ (i < offset'[p]) /\ ~ (i < position'[p])
      BY <1>1, <2>2, <3>1, <3>3
    <3>5. ASSUME NEW c \in Consumers, cpc'[c] # "idle", at'[c][1] = p
          PROVE  ~ (i < at'[c][2])
      <4>1. at[c][2] \in Nat /\ at[c][2] <= i
        BY <1>1, <1>2, <1>3, <3>2, <3>5
      <4>2. QED
        BY <1>1, <2>2, <4>1
    <3>6. QED
      BY <3>4, <3>5
  <2>3. i \in Nat /\ i >= 1
    <3>1. DOMAIN log'[p] = 1..Len(log'[p]) /\ Len(log'[p]) \in Nat
      BY <1>4
    <3>2. QED
      BY <3>1
  <2>4. QED
    BY <1>3, <2>1, <2>2, <2>3
<1>7. QED
  BY <1>5, <1>6 DEF DeliveryInv

LEMMA DeliveryConsumerStep ==
    ASSUME TypeOK, TypeOK', DeliveryInv, UNCHANGED producerVars,
           (\E c \in Consumers : ConsumerStep(c)) \/ Rebalance
    PROVE  DeliveryInv'
<1>0. /\ log \in [Partitions -> Seq(Message)] /\ log' = log
      /\ offset \in [Partitions -> Nat] /\ position \in [Partitions -> Nat \ {0}]
      /\ owner \in [Partitions -> Consumers]
      /\ cpc \in [Consumers -> {"idle", "handle", "dlq", "commit"}]
  BY DEF TypeOK, RelayTypeOK, GroupTypeOK, producerVars, topicVars
<1>a. at \in [Consumers -> {NoMessage} \cup (Partitions \X Nat)]
  BY DEF TypeOK, GroupTypeOK
<1>b. \A c \in Consumers : cpc[c] # "idle" =>
         at[c] \in Partitions \X Nat /\ at[c][2] \in DOMAIN log[at[c][1]]
  BY DEF TypeOK, GroupTypeOK
<1>c. \A p \in Partitions : DOMAIN log[p] = 1..Len(log[p]) /\ Len(log[p]) \in Nat
  BY <1>0, LenProperties
<1>d. /\ \A p \in Partitions : /\ offset[p] <= Len(log[p]) + 1 /\ position[p] <= Len(log[p]) + 1
                               /\ offset[p] > 1 => log[p][offset[p] - 1] \in Handled
      /\ \A c \in Consumers : cpc[c] = "commit" => AtHand(c) \in Handled
  BY DEF DeliveryInv, BoundsInv
<1>e. \A p \in Partitions : \A i \in DOMAIN log[p] :
        /\ i < offset[p] => SettledAt(p, i)
        /\ \A c \in Consumers :
              cpc[c] # "idle" /\ at[c][1] = p /\ i < at[c][2] => SettledAt(p, i)
        /\ i < position[p] =>
              \/ SettledAt(p, i)
              \/ cpc[owner[p]] # "idle" /\ at[owner[p]] = <<p, i>>
  BY DEF DeliveryInv, PassedInv
<1>f. ASSUME Settled \subseteq Settled', NEW p \in Partitions, NEW i \in DOMAIN log[p], SettledAt(p, i)
      PROVE  SettledAt(p, i)'
  BY <1>0, <1>f DEF SettledAt
<1>1. ASSUME NEW c \in Consumers, NEW p \in Partitions, Fetch(c, p)
      PROVE  DeliveryInv'
  <2>1. /\ cpc[c] = "idle" /\ owner[p] = c /\ position[p] <= Len(log[p])
        /\ at' = [at EXCEPT ![c] = <<p, position[p]>>]
        /\ position' = [position EXCEPT ![p] = @ + 1]
        /\ cpc' = [cpc EXCEPT ![c] = "handle"]
        /\ UNCHANGED <<offset, owner, Settled, Handled>>
    BY <1>1 DEF Fetch, ConsumerGoto, resultVars, Settled, Handled, Lost
  <2>2. BoundsInv'
    <3>1. \A d \in Consumers : cpc'[d] = "commit" => AtHand(d)' \in Handled'
      BY <1>0, <1>a, <1>d, <2>1 DEF AtHand
    <3>2. \A q \in Partitions : position'[q] <= Len(log'[q]) + 1
      BY <1>0, <1>c, <1>d, <2>1
    <3>3. QED
      BY <1>0, <1>d, <2>1, <3>1, <3>2 DEF BoundsInv
  <2>3. PassedInv'
    <3> SUFFICES ASSUME NEW q \in Partitions, NEW i \in DOMAIN log[q]
                 PROVE  /\ i < offset[q] => SettledAt(q, i)
                        /\ \A d \in Consumers :
                              cpc'[d] # "idle" /\ at'[d][1] = q /\ i < at'[d][2] => SettledAt(q, i)
                        /\ i < position'[q] =>
                              \/ SettledAt(q, i)
                              \/ cpc'[owner[q]] # "idle" /\ at'[owner[q]] = <<q, i>>
      BY <1>0, <2>1 DEF PassedInv, SettledAt
    <3>1. i \in Nat
      BY <1>c
    <3>2. cpc[owner[p]] = "idle" /\ (q = p /\ i < position[p] => SettledAt(q, i))
      BY <1>e, <2>1
    <3>3. ASSUME NEW d \in Consumers, cpc'[d] # "idle", at'[d][1] = q, i < at'[d][2]
          PROVE  SettledAt(q, i)
      <4>1. CASE d = c
        <5>1. at'[c] = <<p, position[p]>>
          BY <1>a, <2>1
        <5>2. QED
          BY <3>2, <3>3, <4>1, <5>1
      <4>2. CASE d # c
        <5>1. at'[d] = at[d] /\ cpc'[d] = cpc[d]
          BY <1>0, <1>a, <2>1, <4>2
        <5>2. QED
          BY <1>e, <3>3, <5>1
      <4>3. QED
        BY <4>1, <4>2
    <3>4. ASSUME i < position'[q]
          PROVE  SettledAt(q, i) \/ (cpc'[owner[q]] # "idle" /\ at'[owner[q]] = <<q, i>>)
      <4>1. CASE q = p
        <5>1. cpc'[c] = "handle" /\ at'[c] = <<p, position[p]>> /\ position'[p] = position[p] + 1
          BY <1>0, <1>a, <2>1
        <5>2. i < position[p] \/ i = position[p]
          BY <1>0, <3>1, <3>4, <4>1, <5>1
        <5>3. QED
          BY <2>1, <3>2, <4>1, <5>1, <5>2
      <4>2. CASE q # p
        <5>1. position'[q] = position[q]
          BY <1>0, <2>1, <4>2
        <5>2. CASE owner[q] = c
          BY <1>e, <2>1, <3>4, <5>1, <5>2
        <5>3. CASE owner[q] # c
          <6>1. cpc'[owner[q]] = cpc[owner[q]] /\ at'[owner[q]] = at[owner[q]]
            BY <1>0, <1>a, <2>1, <5>3
          <6>2. QED
            BY <1>e, <3>4, <5>1, <6>1
        <5>4. QED
          BY <5>2, <5>3
      <4>3. QED
        BY <4>1, <4>2
    <3>5. QED
      BY <1>e, <3>3, <3>4
  <2>4. QED
    BY <2>2, <2>3 DEF DeliveryInv
\* A consumer goes on with, or lets go of, a message, and may settle it.
<1>2. ASSUME NEW c \in Consumers, cpc[c] # "idle",
             Settled \subseteq Settled', Handled \subseteq Handled',
             UNCHANGED <<owner, position>>,
             \/ /\ at' = at
                /\ \E s \in {"handle", "dlq", "commit"} :
                      cpc' = [cpc EXCEPT ![c] = s] /\ (s = "commit" => AtHand(c) \in Handled')
             \/ /\ at' = [at EXCEPT ![c] = NoMessage] /\ cpc' = [cpc EXCEPT ![c] = "idle"]
                /\ AtHand(c) \in Settled',
             \/ offset' = offset
             \/ offset' = [offset EXCEPT ![at[c][1]] = at[c][2] + 1] /\ AtHand(c) \in Handled
      PROVE  DeliveryInv'
  <2>1. /\ at[c] \in Partitions \X Nat /\ at[c][2] \in DOMAIN log[at[c][1]]
        /\ at[c] = <<at[c][1], at[c][2]>>
    BY <1>b, <1>2
  <2>2. ASSUME NEW q \in Partitions
        PROVE  /\ offset'[q] <= Len(log[q]) + 1
               /\ offset'[q] > 1 => log[q][offset'[q] - 1] \in Handled'
    <3>1. /\ offset[q] \in Nat /\ offset[q] <= Len(log[q]) + 1
          /\ offset[q] > 1 => log[q][offset[q] - 1] \in Handled'
          /\ Len(log[q]) \in Nat
      BY <1>0, <1>c, <1>d, <1>2
    <3>2. CASE offset'[q] = offset[q]
      BY <3>1, <3>2
    <3>3. CASE q = at[c][1] /\ offset'[q] = at[c][2] + 1 /\ AtHand(c) \in Handled
      <4>1. at[c][2] \in 1..Len(log[q])
        BY <1>c, <2>1, <3>3
      <4>2. offset'[q] - 1 = at[c][2]
        BY <3>3, <4>1
      <4>3. log[q][offset'[q] - 1] \in Handled'
        BY <1>2, <3>3, <4>2 DEF AtHand
      <4>4. QED
        BY <3>1, <3>3, <4>1, <4>3
    <3>4. QED
      BY <1>0, <1>2, <3>2, <3>3
  <2>3. BoundsInv'
    <3>1. ASSUME NEW d \in Consumers, cpc'[d] = "commit"
          PROVE  AtHand(d)' \in Handled'
      <4>1. CASE d = c
        <5>1. at' = at
          BY <1>0, <1>2, <3>1, <4>1
        <5>2. QED
          BY <1>0, <1>2, <3>1, <4>1, <5>1 DEF AtHand
      <4>2. CASE d # c
        <5>1. cpc[d] = "commit" /\ at'[d] = at[d]
          BY <1>0, <1>a, <1>2, <3>1, <4>2
        <5>2. QED
          BY <1>0, <1>d, <1>2, <5>1 DEF AtHand
      <4>3. QED
        BY <4>1, <4>2
    <3>2. QED
      BY <1>0, <1>d, <1>2, <2>2, <3>1 DEF BoundsInv
  <2>4. PassedInv'
    <3> SUFFICES ASSUME NEW q \in Partitions, NEW i \in DOMAIN log[q]
                 PROVE  /\ i < offset'[q] => SettledAt(q, i)'
                        /\ \A d \in Consumers :
                              cpc'[d] # "idle" /\ at'[d][1] = q /\ i < at'[d][2] => SettledAt(q, i)'
                        /\ i < position[q] =>
                              \/ SettledAt(q, i)'
                              \/ cpc'[owner[q]] # "idle" /\ at'[owner[q]] = <<q, i>>
      BY <1>0, <1>2 DEF PassedInv
    <3>1. i \in Nat /\ (SettledAt(q, i) => SettledAt(q, i)')
      BY <1>c, <1>f, <1>2
    <3>2. ASSUME i < offset'[q]
          PROVE  SettledAt(q, i)'
      <4>1. CASE i < offset[q]
        BY <1>e, <3>1, <4>1
      <4>2. CASE ~ (i < offset[q])
        <5>1. q = at[c][1] /\ offset'[q] = at[c][2] + 1 /\ AtHand(c) \in Settled
          BY <1>0, <1>2, <2>1, <3>2, <4>2 DEF Settled
        <5>2. i < at[c][2] \/ i = at[c][2]
          BY <2>1, <3>1, <3>2, <5>1
        <5>3. CASE i < at[c][2]
          BY <1>e, <1>2, <3>1, <5>1, <5>3
        <5>4. CASE i = at[c][2]
          BY <3>1, <5>1, <5>4 DEF SettledAt, AtHand
        <5>5. QED
          BY <5>2, <5>3, <5>4
      <4>3. QED
        BY <4>1, <4>2
    <3>3. ASSUME NEW d \in Consumers, cpc'[d] # "idle", at'[d][1] = q, i < at'[d][2]
          PROVE  SettledAt(q, i)'
      <4>1. cpc[d] # "idle" /\ at'[d] = at[d]
        BY <1>0, <1>a, <1>2, <3>3
      <4>2. QED
        BY <1>e, <3>1, <3>3, <4>1
    <3>4. ASSUME i < position[q]
          PROVE  SettledAt(q, i)' \/ (cpc'[owner[q]] # "idle" /\ at'[owner[q]] = <<q, i>>)
      <4>1. CASE SettledAt(q, i)
        BY <3>1, <4>1
      <4>2. CASE ~SettledAt(q, i)
        <5>1. cpc[owner[q]] # "idle" /\ at[owner[q]] = <<q, i>> /\ owner[q] \in Consumers
          BY <1>0, <1>e, <3>4, <4>2
        <5> DEFINE Drops == /\ at' = [at EXCEPT ![c] = NoMessage] /\ cpc' = [cpc EXCEPT ![c] = "idle"]
                            /\ AtHand(c) \in Settled'
        <5>2. CASE at' = at /\ \E s \in {"handle", "dlq", "commit"} : cpc' = [cpc EXCEPT ![c] = s]
          BY <1>0, <5>1, <5>2
        <5>3. CASE Drops /\ owner[q] # c
          BY <1>0, <1>a, <5>1, <5>3
        <5>4. CASE Drops /\ owner[q] = c
          <6>1. AtHand(c) \in Settled'
            BY <5>4
          <6>2. AtHand(c) = log[q][i]
            BY <5>1, <5>4 DEF AtHand
          <6>3. QED
            BY <1>0, <6>1, <6>2 DEF SettledAt
        <5>5. QED
          BY <1>2, <5>2, <5>3, <5>4
      <4>3. QED
        BY <4>1, <4>2
    <3>5. QED
      BY <3>2, <3>3, <3>4
  <2>5. QED
    BY <2>3, <2>4 DEF DeliveryInv
<1>3. ASSUME NEW c \in Consumers, Handle(c)
      PROVE  DeliveryInv'
  <2>1. AtHand(c) \in Handled' /\ Settled \subseteq Settled' /\ Handled \subseteq Handled'
    BY <1>3 DEF Handle, Settled, Handled, Lost
  <2>2. cpc' = [cpc EXCEPT ![c] = "commit"] /\ cpc[c] = "handle" /\ UNCHANGED <<at, owner, position, offset>>
    BY <1>3 DEF Handle, ConsumerGoto, groupVars
  <2>3. QED
    BY <1>2, <2>1, <2>2
<1>4. ASSUME NEW c \in Consumers, HandleFails(c)
      PROVE  DeliveryInv'
  <2>1. UNCHANGED <<at, owner, position, offset, Settled, Handled>> /\ cpc[c] = "handle"
    BY <1>4 DEF HandleFails, groupVars, resultVars, Settled, Handled, Lost
  <2>2. \E s \in {"handle", "dlq"} : cpc' = [cpc EXCEPT ![c] = s]
    BY <1>0, <1>4 DEF HandleFails, ConsumerGoto
  <2>3. QED
    BY <1>2, <2>1, <2>2
<1>5. ASSUME NEW c \in Consumers, SendToDLQ(c)
      PROVE  DeliveryInv'
  <2>1. AtHand(c) \in Settled' /\ Settled \subseteq Settled' /\ Handled \subseteq Handled'
    BY <1>5 DEF SendToDLQ, Settled, Handled, Lost
  <2>2. UNCHANGED <<owner, position, offset>> /\ cpc[c] = "dlq"
    BY <1>5 DEF SendToDLQ, groupVars
  <2>3. \/ at' = at /\ cpc' = [cpc EXCEPT ![c] = "commit"] /\ AtHand(c) \in Handled'
        \/ at' = [at EXCEPT ![c] = NoMessage] /\ cpc' = [cpc EXCEPT ![c] = "idle"]
    BY <1>5 DEF SendToDLQ, Drop, ConsumerGoto, Handled
  <2>4. QED
    BY <1>2, <2>1, <2>2, <2>3
<1>6. ASSUME NEW c \in Consumers, CommitOffset(c)
      PROVE  DeliveryInv'
  <2>1. /\ AtHand(c) \in Handled /\ AtHand(c) \in Settled /\ cpc[c] = "commit"
        /\ UNCHANGED <<Settled, Handled>>
    BY <1>6, <1>d DEF CommitOffset, resultVars, Settled, Handled, Lost
  <2>2. /\ UNCHANGED <<owner, position>>
        /\ offset' = offset \/ offset' = [offset EXCEPT ![at[c][1]] = at[c][2] + 1]
        /\ at' = [at EXCEPT ![c] = NoMessage] /\ cpc' = [cpc EXCEPT ![c] = "idle"]
    BY <1>6 DEF CommitOffset, Drop, ConsumerGoto
  <2>3. QED
    BY <1>2, <2>1, <2>2
<1>7. ASSUME Rebalance
      PROVE  DeliveryInv'
  <2>1. /\ \A p \in Partitions :
              position'[p] = IF offset[p] = 0 THEN Len(log[p]) + 1 ELSE offset[p]
        /\ UNCHANGED <<offset, Handled>>
        /\ Settled' = Settled \cup Skipped
    BY <1>0, <1>7 DEF Rebalance, ResumeAt, Settled, Handled, Lost
  <2>2. \A d \in Consumers : cpc'[d] # "idle" => cpc'[d] = cpc[d] /\ at'[d] = at[d]
    BY <1>0, <1>a, <1>7 DEF Rebalance, workVars, Drop, ConsumerGoto
  <2>3. \A d \in Consumers : cpc'[d] = "commit" => AtHand(d)' \in Handled'
    BY <1>0, <1>d, <2>1, <2>2 DEF AtHand
  <2>4. BoundsInv'
    <3>1. ASSUME NEW p \in Partitions
          PROVE  /\ offset'[p] <= Len(log'[p]) + 1 /\ position'[p] <= Len(log'[p]) + 1
                 /\ offset'[p] > 1 => log'[p][offset'[p] - 1] \in Handled'
      <4>1. Len(log[p]) \in Nat /\ offset[p] <= Len(log[p]) + 1
        BY <1>c, <1>d
      <4>2. position'[p] <= Len(log[p]) + 1
        BY <2>1, <4>1
      <4>3. QED
        BY <1>0, <1>d, <2>1, <4>1, <4>2
    <3>2. QED
      BY <2>3, <3>1 DEF BoundsInv
  <2>5. PassedInv'
    <3> SUFFICES ASSUME NEW p \in Partitions, NEW i \in DOMAIN log[p]
                 PROVE  /\ i < offset[p] => SettledAt(p, i)'
                        /\ \A d \in Consumers :
                              cpc'[d] # "idle" /\ at'[d][1] = p /\ i < at'[d][2] => SettledAt(p, i)'
                        /\ i < position'[p] => SettledAt(p, i)'
      BY <1>0, <2>1 DEF PassedInv
    <3>1. SettledAt(p, i) => SettledAt(p, i)'
      BY <1>0, <2>1 DEF SettledAt
    <3>2. offset[p] = 0 => SettledAt(p, i)'
      BY <1>0, <2>1, SkippedOnTopic DEF SettledAt
    <3>3. i < offset[p] => SettledAt(p, i)'
      BY <1>e, <3>1
    <3>4. ASSUME NEW d \in Consumers, cpc'[d] # "idle", at'[d][1] = p, i < at'[d][2]
          PROVE  SettledAt(p, i)'
      <4>1. cpc[d] # "idle" /\ at'[d] = at[d]
        BY <2>2, <3>4
      <4>2. QED
        BY <1>e, <3>1, <3>4, <4>1
    <3>5. QED
      BY <2>1, <3>2, <3>3, <3>4
  <2>6. QED
    BY <2>4, <2>5 DEF DeliveryInv
<1>8. QED
  BY <1>1, <1>3, <1>4, <1>5, <1>6, <1>7 DEF ConsumerStep

LEMMA DeliveryStep == TypeOK /\ DeliveryInv /\ [Next]_vars => DeliveryInv'
<1> SUFFICES ASSUME TypeOK, DeliveryInv, [Next]_vars
             PROVE  DeliveryInv'
  OBVIOUS
<1>0. TypeOK' /\ LogGrows
  BY TypeStep
<1>1. CASE \E r \in Rows : Enqueue(r)
  BY <1>0, <1>1, DeliveryKept DEF Enqueue
<1>2. CASE \E l \in Relays : RelayStep(l) \/ PublishFails(l) \/ RelayCrash(l)
  <2>1. UNCHANGED consumerVars
    BY <1>2 DEF RelayStep, SelectPending, PublishOK, MarkPublished, CommitBatch, PublishFails,
                RelayCrash, EndBatch
  <2>2. QED
    BY <1>0, <2>1, DeliveryKept
<1>3. CASE (\E c \in Consumers : ConsumerStep(c)) \/ Rebalance
  <2>1. UNCHANGED producerVars
    BY <1>3 DEF ConsumerStep, Fetch, Handle, HandleFails, SendToDLQ, CommitOffset, Rebalance
  <2>2. QED
    BY <1>0, <1>3, <2>1, DeliveryConsumerStep
<1>4. CASE UNCHANGED vars
  <2>1. UNCHANGED consumerVars
    BY <1>4 DEF vars, consumerVars
  <2>2. QED
    BY <1>0, <2>1, DeliveryKept
<1>5. QED
  BY <1>1, <1>2, <1>3, <1>4 DEF Next

\* In a new group as in one with committed offsets, and however many rebalances, crashes
\* and late commits of old owners there were: an offset is only committed behind a
\* message that was handled or handed to the DLQ, and a message that is neither, nor lost
\* because the DLQ refused it or its partition had no committed offset, lies ahead of the
\* committed offset and is at somebody's hand or still to be fetched.
THEOREM SpecUnsettledIsDelivered == Spec => []UnsettledIsDelivered
<1>1. Init => TypeOK /\ DeliveryInv
  BY TypeInit, DeliveryInit
<1>2. TypeOK /\ DeliveryInv /\ [Next]_vars => (TypeOK /\ DeliveryInv)'
  BY TypeStep, DeliveryStep
<1>3. TypeOK /\ DeliveryInv => UnsettledIsDelivered
  <2> SUFFICES ASSUME TypeOK, DeliveryInv, NEW p \in Partitions, NEW i \in DOMAIN log[p],
                      log[p][i] \notin Settled
               PROVE  i >= offset[p] /\ (i >= position[p] \/ \E c \in Consumers : at[c] = <<p, i>>)
    BY DEF UnsettledIsDelivered, Settled, DeliveryInv, BoundsInv
  <2>1. /\ log[p] \in Seq(Message) /\ offset[p] \in Nat /\ position[p] \in Nat
        /\ owner[p] \in Consumers
    BY DEF TypeOK, RelayTypeOK, GroupTypeOK
  <2>2. i \in Nat
    BY <2>1, LenProperties
  <2>3. ~ (i < offset[p]) /\ (i < position[p] => at[owner[p]] = <<p, i>>)
    BY DEF DeliveryInv, PassedInv, SettledAt
  <2>4. QED
    BY <2>1, <2>2, <2>3
<1>4. QED
  BY <1>1, <1>2, <1>3, PTL DEF Spec

----------------------------------------------------------------------------
\* The bus implements Delivery

\* Ids of a row that are on a topic have been drawn.
DrawnInv == \A m \in OnTopics : m.copy <= copies[m.row]

Drawn(r) == [row |-> r, copy |-> copies[r] + 1]

LEMMA TopicsTyped ==
    ASSUME TypeOK
    PROVE  /\ OnTopics \subseteq Message
           /\ \A p \in Partitions : \A i \in DOMAIN log[p] : log[p][i] \in OnTopics
           /\ \A r \in Rows : OnTopic(r) => \E m \in OnTopics : m.row = r
<1>1. ASSUME NEW p \in Partitions, NEW m \in ToSet(log[p])
      PROVE  m \in Message
  <2>1. PICK i \in DOMAIN log[p] : m = log[p][i]
    BY DEF ToSet
  <2>2. log[p] \in Seq(Message)
    BY DEF TypeOK, RelayTypeOK
  <2>3. QED
    BY <2>1, <2>2, ElementOfSeq, LenProperties
<1>2. OnTopics \subseteq Message
  BY <1>1 DEF OnTopics
<1>3. \A p \in Partitions : \A i \in DOMAIN log[p] : log[p][i] \in OnTopics
  BY DEF OnTopics, ToSet
<1>4. \A r \in Rows : OnTopic(r) => \E m \in OnTopics : m.row = r
  BY DEF OnTopics, OnTopic
<1>5. QED
  BY <1>2, <1>3, <1>4

\* Publishing puts one event on the topics, however often the writer sends it.
LEMMA PublishTopics ==
    ASSUME TypeOK, NEW r \in Rows, NEW times \in {1, 2}, Publish(r, times)
    PROVE  OnTopics' = OnTopics \cup {Drawn(r)}
<1> DEFINE m == Drawn(r)
           new == [i \in 1..times |-> m]
<1>1. PICK p \in Partitions : log' = [log EXCEPT ![p] = @ \o new]
  BY DEF Publish, Drawn
<1>2. m \in Message
  BY DEF Message, Drawn, TypeOK, RelayTypeOK
<1>3. new \in Seq(Message) /\ Len(new) = times /\ \A i \in 1..times : new[i] = m
  BY <1>2
<1> HIDE DEF new, m
<1>4. log \in [Partitions -> Seq(Message)] /\ log[p] \in Seq(Message) /\ log'[p] = log[p] \o new
  BY <1>1 DEF TypeOK, RelayTypeOK
<1>5. /\ log'[p] \in Seq(Message)
      /\ Len(log'[p]) = Len(log[p]) + times
      /\ \A i \in 1..(Len(log[p]) + times) :
            log'[p][i] = IF i <= Len(log[p]) THEN log[p][i] ELSE new[i - Len(log[p])]
  BY <1>3, <1>4, ConcatProperties
<1>6. DOMAIN log'[p] = 1..(Len(log[p]) + times) /\ DOMAIN log[p] = 1..Len(log[p]) /\ Len(log[p]) \in Nat
  BY <1>4, <1>5, LenProperties
<1>7. ToSet(log'[p]) = ToSet(log[p]) \cup {m}
  <2>1. ASSUME NEW i \in DOMAIN log'[p]
        PROVE  log'[p][i] \in ToSet(log[p]) \cup {m}
    <3>1. CASE i <= Len(log[p])
      BY <1>5, <1>6, <3>1 DEF ToSet
    <3>2. CASE i > Len(log[p])
      <4>1. i - Len(log[p]) \in 1..times
        BY <1>6, <3>2
      <4>2. QED
        BY <1>3, <1>5, <1>6, <3>2, <4>1
    <3>3. QED
      BY <1>6, <3>1, <3>2
  <2>2. ASSUME NEW i \in DOMAIN log[p]
        PROVE  log[p][i] \in ToSet(log'[p])
    <3>1. i \in DOMAIN log'[p] /\ log'[p][i] = log[p][i]
      BY <1>5, <1>6
    <3>2. QED
      BY <3>1 DEF ToSet
  <2>3. m \in ToSet(log'[p])
    <3>1. LET n == Len(log[p]) + 1 IN n \in DOMAIN log'[p] /\ log'[p][n] = m
      BY <1>3, <1>5, <1>6, SMTT(40)
    <3>2. QED
      BY <3>1 DEF ToSet
  <2>4. ToSet(log'[p]) \subseteq ToSet(log[p]) \cup {m}
    BY <2>1 DEF ToSet
  <2>5. ToSet(log[p]) \subseteq ToSet(log'[p])
    BY <2>2 DEF ToSet
  <2>6. QED
    BY <2>3, <2>4, <2>5
<1>8. \A q \in Partitions \ {p} : log'[q] = log[q]
  BY <1>1, <1>4
<1>9. \A q \in Partitions \ {p} : ToSet(log'[q]) = ToSet(log[q])
  BY <1>8
<1>10. OnTopics' = OnTopics \cup {m}
  BY <1>7, <1>9 DEF OnTopics
<1>11. QED
  BY <1>10 DEF m

\* What the relay's steps do to the topics.
LEMMA TopicsStep ==
    ASSUME TypeOK, LockInv, [Next]_vars
    PROVE  \/ UNCHANGED <<OnTopics, copies>>
           \/ \E r \in Rows :
                /\ outbox[r] = "pending"
                /\ OnTopics' = OnTopics \cup {Drawn(r)}
                /\ copies' = [copies EXCEPT ![r] = @ + 1]
                /\ UNCHANGED <<outbox, resultVars>>
<1>1. ASSUME UNCHANGED topicVars
      PROVE  UNCHANGED <<OnTopics, copies>>
  BY <1>1 DEF topicVars, OnTopics
<1>2. ASSUME NEW l \in Relays, PublishOK(l) \/ PublishFails(l)
      PROVE  \/ UNCHANGED topicVars
             \/ \E r \in Rows :
                  /\ outbox[r] = "pending"
                  /\ OnTopics' = OnTopics \cup {Drawn(r)}
                  /\ copies' = [copies EXCEPT ![r] = @ + 1]
                  /\ UNCHANGED <<outbox, resultVars>>
  <2>1. batch[l] # {} /\ UNCHANGED <<outbox, resultVars>>
    BY <1>2 DEF PublishOK, PublishFails, consumerVars
  <2>2. Current(l) \in batch[l] /\ Current(l) \in Rows
    BY <2>1, CurrentInBatch
  <2>3. outbox[Current(l)] = "pending"
    <3>1. \A r \in Rows : r \in batch[l] => rowLock[r] = l /\ (rowLock[r] = l => outbox[r] = "pending")
      BY DEF LockInv
    <3>2. QED
      BY <2>2, <3>1
  <2>4. CASE UNCHANGED topicVars
    BY <2>4
  <2>5. ASSUME NEW times \in {1, 2}, Publish(Current(l), times)
        PROVE  \E r \in Rows :
                 /\ outbox[r] = "pending"
                 /\ OnTopics' = OnTopics \cup {Drawn(r)}
                 /\ copies' = [copies EXCEPT ![r] = @ + 1]
                 /\ UNCHANGED <<outbox, resultVars>>
    <3>1. ASSUME NEW r \in Rows, r = Current(l)
          PROVE  /\ OnTopics' = OnTopics \cup {Drawn(r)}
                 /\ copies' = [copies EXCEPT ![r] = @ + 1]
      <4>1. Publish(r, times)
        BY <2>5, <3>1
      <4>2. QED
        BY <4>1, PublishTopics, PublishAppends
    <3>2. QED
      BY <2>1, <2>2, <2>3, <3>1
  <2>6. QED
    BY <1>2, <2>4, <2>5 DEF PublishOK, PublishFails
<1>3. ASSUME NEW l \in Relays,
             SelectPending(l) \/ MarkPublished(l) \/ CommitBatch(l) \/ RelayCrash(l)
      PROVE  UNCHANGED topicVars
  BY <1>3 DEF SelectPending, MarkPublished, CommitBatch, RelayCrash, EndBatch
<1>4. ASSUME (\E r \in Rows : Enqueue(r)) \/ (\E c \in Consumers : ConsumerStep(c)) \/ Rebalance
             \/ UNCHANGED vars
      PROVE  UNCHANGED topicVars
  BY <1>4 DEF Enqueue, ConsumerStep, Fetch, Handle, HandleFails, SendToDLQ, CommitOffset,
              Rebalance, vars, producerVars
<1>5. QED
  BY <1>1, <1>2, <1>3, <1>4 DEF Next, RelayStep

LEMMA DrawnStep ==
    ASSUME TypeOK, LockInv, DrawnInv, [Next]_vars
    PROVE  DrawnInv'
<1>1. CASE UNCHANGED <<OnTopics, copies>>
  BY <1>1 DEF DrawnInv
<1>2. CASE \E r \in Rows : /\ OnTopics' = OnTopics \cup {Drawn(r)}
                           /\ copies' = [copies EXCEPT ![r] = @ + 1]
  <2>1. PICK r \in Rows : /\ OnTopics' = OnTopics \cup {Drawn(r)}
                          /\ copies' = [copies EXCEPT ![r] = @ + 1]
    BY <1>2
  <2>2. copies \in [Rows -> Nat] /\ copies'[r] = copies[r] + 1
    BY <2>1 DEF TypeOK, RelayTypeOK
  <2>3. Drawn(r).copy <= copies'[Drawn(r).row]
    BY <2>2 DEF Drawn
  <2>4. ASSUME NEW m \in OnTopics
        PROVE  m.copy <= copies'[m.row]
    <3>1. m.row \in Rows /\ m.copy \in Nat
      BY TopicsTyped DEF Message
    <3>2. m.copy <= copies[m.row]
      BY DEF DrawnInv
    <3>3. copies'[m.row] >= copies[m.row]
      <4>1. ASSUME NEW x \in Rows
            PROVE  copies'[x] = IF x = r THEN copies[x] + 1 ELSE copies[x]
        BY <2>1, <2>2
      <4>2. ASSUME NEW x \in Rows
            PROVE  copies[x] \in Nat /\ copies'[x] >= copies[x]
        BY <2>2, <4>1
      <4>3. QED
        BY <3>1, <4>2
    <3>4. copies[m.row] \in Nat /\ copies'[m.row] \in Nat
      <4>1. copies' \in [Rows -> Nat]
        BY <2>1, <2>2
      <4>2. QED
        BY <2>2, <3>1, <4>1
    <3>5. QED
      BY <3>1, <3>2, <3>3, <3>4
  <2>5. QED
    BY <2>1, <2>3, <2>4 DEF DrawnInv
<1>3. QED
  BY <1>1, <1>2, TopicsStep

\* A handler takes effect once, and what it settles is on a topic.
LEMMA ConsumerSimulation ==
    ASSUME TypeOK, NEW c \in Consumers, ConsumerStep(c)
    PROVE  [Contract!Next]_(Contract!deliveryVars)
<1> USE DEF Contract!deliveryVars
<1>1. UNCHANGED <<outbox, log>>
  BY DEF ConsumerStep, Fetch, Handle, HandleFails, SendToDLQ, CommitOffset, producerVars,
         relayVars, topicVars
<1>2. UNCHANGED <<outbox, OnTopics>>
  BY <1>1 DEF OnTopics
<1>3. CASE UNCHANGED resultVars
  BY <1>2, <1>3 DEF resultVars
<1>4. ASSUME cpc[c] # "idle"
      PROVE  AtHand(c) \in OnTopics /\ AtHand(c) \in Contract!Event
  BY <1>4, AtHandIsMessage, TopicsTyped DEF AtHand, Message, Contract!Event
<1>5. CASE Handle(c) /\ ~ UNCHANGED resultVars
  <2>1. Contract!Apply(AtHand(c))
    BY <1>2, <1>4, <1>5 DEF Handle, resultVars, Contract!Apply
  <2>2. QED
    BY <1>4, <1>5, <2>1 DEF Contract!Next, Handle
<1>6. CASE SendToDLQ(c)
  <2>1. (dlq \cup leftBehind)' = (dlq \cup leftBehind) \cup {AtHand(c)}
        /\ UNCHANGED <<processed, effects>>
    BY <1>6 DEF SendToDLQ
  <2>2. Contract!GiveUp(AtHand(c))
    BY <1>2, <1>4, <1>6, <2>1 DEF SendToDLQ, Contract!GiveUp
  <2>3. QED
    BY <1>4, <1>6, <2>2 DEF Contract!Next, SendToDLQ
<1>7. CASE HandleFails(c) \/ CommitOffset(c) \/ \E p \in Partitions : Fetch(c, p)
  BY <1>3, <1>7 DEF HandleFails, CommitOffset, Fetch
<1>8. QED
  BY <1>3, <1>5, <1>6, <1>7 DEF ConsumerStep

\* A batch retires the rows it marked, and these have been published.
LEMMA RelaySimulation ==
    ASSUME TypeOK, RelayInv, DrawnInv, [Next]_vars,
           NEW l \in Relays, RelayStep(l) \/ PublishFails(l) \/ RelayCrash(l)
    PROVE  [Contract!Next]_(Contract!deliveryVars)
<1> USE DEF Contract!deliveryVars
<1>0. UNCHANGED resultVars
  BY DEF RelayStep, SelectPending, PublishOK, MarkPublished, CommitBatch, PublishFails,
         RelayCrash, EndBatch, consumerVars
<1>1. CASE UNCHANGED <<outbox, OnTopics>>
  BY <1>0, <1>1 DEF resultVars
<1>2. CASE \E r \in Rows : /\ outbox[r] = "pending"
                           /\ OnTopics' = OnTopics \cup {Drawn(r)}
                           /\ UNCHANGED outbox
  <2>1. PICK r \in Rows : /\ outbox[r] = "pending"
                          /\ OnTopics' = OnTopics \cup {Drawn(r)}
                          /\ UNCHANGED outbox
    BY <1>2
  <2>2. copies[r] \in Nat
    BY DEF TypeOK, RelayTypeOK
  <2>3. Drawn(r) \in Contract!Event /\ Drawn(r).row = r /\ Drawn(r).copy = copies[r] + 1
    BY <2>2 DEF Drawn, Contract!Event
  <2>4. Drawn(r) \notin OnTopics
    BY <2>2, <2>3 DEF DrawnInv
  <2>5. Contract!Send(Drawn(r))
    BY <1>0, <2>1, <2>3, <2>4 DEF Contract!Send, resultVars
  <2>6. QED
    BY <2>3, <2>5 DEF Contract!Next
<1>3. CASE CommitBatch(l)
  <2> DEFINE done == {r \in Rows : r \in marked[l] /\ ~ aborted[l]}
  <2>1. outbox' = [r \in Rows |-> IF r \in done THEN "published" ELSE outbox[r]]
    BY <1>3 DEF CommitBatch
  <2>2. UNCHANGED OnTopics
    BY <1>3 DEF CommitBatch, EndBatch, topicVars, OnTopics
  <2>3. ASSUME NEW r \in done
        PROVE  outbox[r] = "pending" /\ \E m \in OnTopics : m.row = r
    <3>1. outbox[r] = "pending"
      BY DEF RelayInv, LockInv
    <3>2. OnTopic(r)
      BY DEF RelayInv, TopicInv
    <3>3. QED
      BY <3>1, <3>2, TopicsTyped
  <2>4. done \in SUBSET Rows
    OBVIOUS
  <2> HIDE DEF done
  <2>5. Contract!Retire(done)
    BY <1>0, <2>1, <2>2, <2>3 DEF Contract!Retire, resultVars
  <2>6. QED
    BY <2>4, <2>5 DEF Contract!Next
<1>4. CASE ~ CommitBatch(l)
  <2>1. UNCHANGED outbox
    BY <1>4 DEF RelayStep, SelectPending, PublishOK, MarkPublished, PublishFails, RelayCrash
  <2>2. QED
    BY <1>1, <1>2, <2>1, TopicsStep DEF RelayInv
<1>5. QED
  BY <1>3, <1>4

LEMMA DeliverySimulation ==
    ASSUME TypeOK, RelayInv, DrawnInv, [Next]_vars
    PROVE  [Contract!Next]_(Contract!deliveryVars)
<1> USE DEF Contract!deliveryVars
<1>1. ASSUME NEW r \in Rows, Enqueue(r)
      PROVE  [Contract!Next]_(Contract!deliveryVars)
  <2>1. UNCHANGED OnTopics
    BY <1>1 DEF Enqueue, topicVars, OnTopics
  <2>2. Contract!Enqueue(r)
    BY <1>1, <2>1 DEF Enqueue, consumerVars, resultVars, Contract!Enqueue
  <2>3. QED
    BY <2>2 DEF Contract!Next
<1>2. CASE Rebalance \/ UNCHANGED vars
  <2>1. UNCHANGED <<outbox, log, processed, effects, dlq, leftBehind>>
    BY <1>2 DEF Rebalance, vars, producerVars, relayVars, topicVars, resultVars
  <2>2. QED
    BY <2>1 DEF OnTopics
<1>3. QED
  BY <1>1, <1>2, RelaySimulation, ConsumerSimulation DEF Next

\* Relays side by side, failing batches, duplicated messages, rebalances and late commits:
\* to the services at both ends the bus only publishes what was committed, retires a row
\* only when its event is out, and lets an event take effect at most once.
THEOREM SpecImplementsDelivery == Spec => ImplementsDelivery
<1>1. Init => Contract!Init
  <2> SUFFICES ASSUME Init
               PROVE  OnTopics = {}
    BY DEF Init, Contract!Init
  <2>1. \A p \in Partitions : ToSet(log[p]) = {}
    BY DEF Init, ToSet
  <2>2. QED
    BY <2>1 DEF OnTopics
<1>2. Init => TypeOK /\ RelayInv /\ DrawnInv
  <2>1. Init => DrawnInv
    BY <1>1 DEF Contract!Init, DrawnInv
  <2>2. QED
    BY <2>1, TypeInit, RelayInvInit
<1>3. TypeOK /\ RelayInv /\ DrawnInv /\ [Next]_vars => (TypeOK /\ RelayInv /\ DrawnInv)'
  BY TypeStep, RelayInvStep, DrawnStep DEF RelayInv
<1>4. TypeOK /\ RelayInv /\ DrawnInv /\ [Next]_vars => [Contract!Next]_(Contract!deliveryVars)
  BY DeliverySimulation
<1>5. QED
  BY <1>1, <1>2, <1>3, <1>4, PTL DEF Spec, ImplementsDelivery, Contract!Spec
=============================================================================
