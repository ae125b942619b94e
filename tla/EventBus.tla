----------------------------- MODULE EventBus ------------------------------
(***************************************************************************)
(* How an event gets from a business transaction of one service to a      *)
(* handler of another: the outbox table, the relays that poll it, the     *)
(* topic's partitions, and one consumer group with its subscribers, its   *)
(* DLQ and its processed_events table.                                     *)
(*                                                                         *)
(* The broker and the client library are seen from outside: a partition   *)
(* is a log, the group has at most one committed offset per partition,    *)
(* and a rebalance makes every reader start again from those offsets.      *)
(***************************************************************************)
EXTENDS Naturals, Sequences, SequencesExt, FiniteSets, FiniteSetsExt

CONSTANTS
    Rows,           \* ids of outbox rows, numbered by created_at
    Relays,         \* relay goroutines of the publishing service's replicas
    BatchSize,      \* outbox.relay_batch_size
    Partitions,
    Consumers,      \* subscriber goroutines of the consuming service's replicas
    Nobody,
    NoMessage,
    MaxRetries,     \* KAFKA_MAX_RETRIES
    MaxFailures,    \* bound: failures of publishers and relays in one behaviour
    MaxRebalances   \* bound: rebalances (with or without a crash) in one behaviour

ASSUME RowsAssumption == Rows \subseteq Nat /\ IsFiniteSet(Rows)
ASSUME BatchAssumption == BatchSize \in Nat \ {0}
ASSUME NobodyAssumption == Nobody \notin Relays
ASSUME NoMessageAssumption == NoMessage \notin Partitions \X Nat
ASSUME BoundsAssumption == {MaxRetries, MaxFailures, MaxRebalances} \subseteq Nat

VARIABLES
    outbox,       \* outbox[r]: state of the committed outbox_messages row
    rowLock,      \* rowLock[r]: relay that selected r FOR UPDATE
    batch,        \* batch[l]: rows relay l has still to publish
    marked,       \* marked[l]: rows its open transaction has marked published
    rpc,          \* rpc[l]: what relay l does next
    aborted,      \* aborted[l]: a statement of its transaction failed
    copies,       \* copies[r]: event ids drawn for r so far
    log,          \* log[p]: the messages of partition p
    offset,       \* offset[p]: the group's committed offset, 0 without one
    owner,        \* owner[p]: consumer that p is assigned to
    position,     \* position[p]: index its reader fetches next
    cpc,          \* cpc[c]: what subscriber c does next
    at,           \* at[c]: partition and index of the message c has at hand
    attempt,      \* attempt[c]: retries used for it
    processed,    \* processed_events of the consuming service
    effects,      \* effects[r]: how often the event of r took effect
    dlq,          \* messages handed off to the DLQ
    leftBehind,   \* messages given up while the DLQ refused them
    missed,       \* history: messages a reader without a committed offset started behind
    failures,
    rebalances

relayVars  == <<outbox, rowLock, batch, marked, rpc, aborted>>
topicVars  == <<log, copies>>
groupVars  == <<offset, owner, position>>
workVars   == <<cpc, at, attempt>>
resultVars == <<processed, effects, dlq, leftBehind, missed>>
vars == <<relayVars, topicVars, groupVars, workVars, resultVars, failures, rebalances>>

consumerVars == <<groupVars, workVars, resultVars, rebalances>>
producerVars == <<relayVars, topicVars, failures>>

\* An event: which row it announces, under which of the ids drawn for that row.
Message == [row : Rows, copy : Nat]

AtHand(c) == log[at[c][1]][at[c][2]]

----------------------------------------------------------------------------
\* Publishing service

\* A business transaction commits with its outbox row; the commits need not be
\* in the order of created_at.
Enqueue(r) ==
    /\ outbox[r] = "none"
    /\ outbox' = [outbox EXCEPT ![r] = "pending"]
    /\ UNCHANGED <<rowLock, batch, marked, rpc, aborted, topicVars, consumerVars, failures>>

RelayGoto(l, s) == rpc' = [rpc EXCEPT ![l] = s]

\* Mutant: a plain SELECT, without FOR UPDATE SKIP LOCKED.
SelectedUnlocked == {r \in Rows : outbox[r] = "pending"}

\* What the poll's SELECT may return: pending rows that no other relay locked.
Selectable == {r \in Rows : outbox[r] = "pending" /\ rowLock[r] = Nobody}

\* ORDER BY created_at LIMIT BatchSize.
OldestSelectable == {r \in Selectable : Cardinality({s \in Selectable : s < r}) < BatchSize}

\* The oldest rows of the backlog, locked until the batch's transaction ends.
SelectPending(l) ==
    /\ rpc[l] = "idle"
    /\ Selectable # {}
    /\ batch' = [batch EXCEPT ![l] = OldestSelectable]
    /\ rowLock' = [r \in Rows |-> IF r \in OldestSelectable THEN l ELSE rowLock[r]]
    /\ RelayGoto(l, "publish")
    /\ UNCHANGED <<outbox, marked, aborted, topicVars, consumerVars, failures>>

\* The loop of the batch goes by created_at too.
Current(l) == Min(batch[l])

\* The event gets a new id, and the balancer picks any partition. times = 2:
\* the writer sent it again because the first acknowledgement was lost.
Publish(r, times) ==
    \E p \in Partitions :
        /\ copies' = [copies EXCEPT ![r] = @ + 1]
        /\ log' = [log EXCEPT ![p] =
                      @ \o [i \in 1..times |-> [row |-> r, copy |-> copies[r] + 1]]]

PublishOK(l) ==
    /\ rpc[l] = "publish" /\ batch[l] # {}
    /\ \/ Publish(Current(l), 1) /\ UNCHANGED failures
       \/ /\ failures < MaxFailures
          /\ failures' = failures + 1
          /\ Publish(Current(l), 2)
    /\ RelayGoto(l, "mark")
    /\ UNCHANGED <<outbox, rowLock, batch, marked, aborted, consumerVars>>

\* The writer reports an error, whether or not the message landed: the row stays
\* pending and the batch goes on, even if noting the error (markFailed) fails too.
PublishFails(l) ==
    /\ rpc[l] = "publish" /\ batch[l] # {}
    /\ failures < MaxFailures
    /\ failures' = failures + 1
    /\ Publish(Current(l), 1) \/ UNCHANGED topicVars
    /\ batch' = [batch EXCEPT ![l] = @ \ {Current(l)}]
    /\ aborted' \in {aborted, [aborted EXCEPT ![l] = TRUE]}
    /\ UNCHANGED <<outbox, rowLock, marked, rpc, consumerVars>>

\* UPDATE ... SET published_at. An error is only logged; Postgres then refuses
\* the rest of the transaction, and the remaining rows are published regardless.
MarkPublished(l) ==
    /\ rpc[l] = "mark"
    /\ \/ /\ ~aborted[l]
          /\ marked' = [marked EXCEPT ![l] = @ \cup {Current(l)}]
          /\ UNCHANGED <<aborted, failures>>
       \/ /\ aborted[l] \/ failures < MaxFailures
          /\ failures' = IF aborted[l] THEN failures ELSE failures + 1
          /\ aborted' = [aborted EXCEPT ![l] = TRUE]
          /\ UNCHANGED marked
    /\ batch' = [batch EXCEPT ![l] = @ \ {Current(l)}]
    /\ RelayGoto(l, "publish")
    /\ UNCHANGED <<outbox, rowLock, topicVars, consumerVars>>

\* Mutant: the batch's locks outlive its transaction.
EndBatchKeepsLocks(l) ==
    /\ batch' = [batch EXCEPT ![l] = {}]
    /\ marked' = [marked EXCEPT ![l] = {}]
    /\ aborted' = [aborted EXCEPT ![l] = FALSE]
    /\ RelayGoto(l, "idle")
    /\ UNCHANGED <<rowLock, topicVars, consumerVars>>

\* Commit or rollback: the locks are gone, the next tick polls again.
EndBatch(l) ==
    /\ batch' = [batch EXCEPT ![l] = {}]
    /\ marked' = [marked EXCEPT ![l] = {}]
    /\ aborted' = [aborted EXCEPT ![l] = FALSE]
    /\ rowLock' = [r \in Rows |-> IF rowLock[r] = l THEN Nobody ELSE rowLock[r]]
    /\ RelayGoto(l, "idle")
    /\ UNCHANGED <<topicVars, consumerVars>>

CommitBatch(l) ==
    /\ rpc[l] = "publish" /\ batch[l] = {}
    /\ outbox' = [r \in Rows |->
                     IF r \in marked[l] /\ ~aborted[l] THEN "published" ELSE outbox[r]]
    /\ EndBatch(l)
    /\ UNCHANGED failures

\* The relay dies, is stopped, or its commit fails: everything it marked is
\* pending again, what it published is not taken back.
RelayCrash(l) ==
    /\ rpc[l] # "idle"
    /\ failures < MaxFailures
    /\ failures' = failures + 1
    /\ EndBatch(l)
    /\ UNCHANGED outbox

----------------------------------------------------------------------------
\* Consumer group

ConsumerGoto(c, s) == cpc' = [cpc EXCEPT ![c] = s]

Fetch(c, p) ==
    /\ cpc[c] = "idle"
    /\ owner[p] = c
    /\ position[p] <= Len(log[p])
    /\ at' = [at EXCEPT ![c] = <<p, position[p]>>]
    /\ position' = [position EXCEPT ![p] = @ + 1]
    /\ attempt' = [attempt EXCEPT ![c] = 0]
    /\ ConsumerGoto(c, "handle")
    /\ UNCHANGED <<producerVars, offset, owner, resultVars, rebalances>>

\* Mutant: the event takes effect without asking processed_events.
HandleUnchecked(c) ==
    /\ cpc[c] = "handle"
    /\ processed' = processed \cup {AtHand(c)}
    /\ effects' = [effects EXCEPT ![AtHand(c).row] = @ + 1]
    /\ ConsumerGoto(c, "commit")
    /\ UNCHANGED <<dlq, leftBehind, missed, at, attempt, producerVars, groupVars, rebalances>>

\* The handler's transaction: mark the event id, take effect, commit. One step,
\* since a handler of the same id waits at its INSERT for this one to end.
Handle(c) ==
    /\ cpc[c] = "handle"
    /\ \/ AtHand(c) \in processed /\ UNCHANGED <<processed, effects>>
       \/ /\ AtHand(c) \notin processed
          /\ processed' = processed \cup {AtHand(c)}
          /\ effects' = [effects EXCEPT ![AtHand(c).row] = @ + 1]
    /\ ConsumerGoto(c, "commit")
    /\ UNCHANGED <<dlq, leftBehind, missed, at, attempt, producerVars, groupVars, rebalances>>

\* Mutant: the retry loop runs once more than it may.
HandleFailsOnceMore(c) ==
    /\ cpc[c] = "handle"
    /\ IF attempt[c] <= MaxRetries
       THEN attempt' = [attempt EXCEPT ![c] = @ + 1] /\ UNCHANGED cpc
       ELSE ConsumerGoto(c, "dlq") /\ UNCHANGED attempt
    /\ UNCHANGED <<at, producerVars, groupVars, resultVars, rebalances>>

\* The handler returns an error without effect. (A lost commit answer is a Handle
\* that the next attempt finds in processed_events.)
HandleFails(c) ==
    /\ cpc[c] = "handle"
    /\ IF attempt[c] < MaxRetries
       THEN attempt' = [attempt EXCEPT ![c] = @ + 1] /\ UNCHANGED cpc
       ELSE ConsumerGoto(c, "dlq") /\ UNCHANGED attempt
    /\ UNCHANGED <<at, producerVars, groupVars, resultVars, rebalances>>

Drop(c) ==
    /\ at' = [at EXCEPT ![c] = NoMessage]
    /\ attempt' = [attempt EXCEPT ![c] = 0]
    /\ ConsumerGoto(c, "idle")

\* handleFailure: the offset is committed only if the DLQ took the message; the
\* loop goes on to the next message either way.
SendToDLQ(c) ==
    /\ cpc[c] = "dlq"
    /\ \/ /\ dlq' = dlq \cup {AtHand(c)}
          /\ ConsumerGoto(c, "commit")
          /\ UNCHANGED <<leftBehind, at, attempt>>
       \/ /\ leftBehind' = leftBehind \cup {AtHand(c)}
          /\ Drop(c)
          /\ UNCHANGED dlq
    /\ UNCHANGED <<processed, effects, missed, producerVars, groupVars, rebalances>>

\* The broker stores the offset, whoever owns the partition by now; a commit
\* that fails is only logged.
CommitOffset(c) ==
    /\ cpc[c] = "commit"
    /\ \/ offset' = [offset EXCEPT ![at[c][1]] = at[c][2] + 1]
       \/ UNCHANGED offset
    /\ Drop(c)
    /\ UNCHANGED <<owner, position, producerVars, resultVars, rebalances>>

\* Mutant: a reader always starts at the end of the partition.
ResumeAtEnd(p) == Len(log[p]) + 1

\* Where a reader starts: the committed offset, or StartOffset: kafka.LastOffset.
ResumeAt(p) == IF offset[p] = 0 THEN Len(log[p]) + 1 ELSE offset[p]

\* What readers that have no committed offset to resume at start behind.
Skipped == UNION {ToSet(log[p]) : p \in {q \in Partitions : offset[q] = 0}}

\* Partitions are assigned anew, because a consumer joins, stalls or dies. One
\* that dies loses the message at hand; one that lives goes on with it.
Rebalance ==
    /\ rebalances < MaxRebalances
    /\ rebalances' = rebalances + 1
    /\ owner' \in [Partitions -> Consumers]
    /\ position' = [p \in Partitions |-> ResumeAt(p)]
    /\ \/ UNCHANGED workVars
       \/ \E c \in Consumers : cpc[c] # "idle" /\ Drop(c)
    /\ missed' = missed \cup Skipped
    /\ UNCHANGED <<offset, producerVars, processed, effects, dlq, leftBehind>>

----------------------------------------------------------------------------
\* Specification

Init ==
    /\ outbox = [r \in Rows |-> "none"]
    /\ rowLock = [r \in Rows |-> Nobody]
    /\ batch = [l \in Relays |-> {}]
    /\ marked = [l \in Relays |-> {}]
    /\ rpc = [l \in Relays |-> "idle"]
    /\ aborted = [l \in Relays |-> FALSE]
    /\ copies = [r \in Rows |-> 0]
    /\ log = [p \in Partitions |-> <<>>]
    /\ offset \in [Partitions -> {0, 1}]
    /\ owner \in [Partitions -> Consumers]
    /\ position = [p \in Partitions |-> 1]
    /\ cpc = [c \in Consumers |-> "idle"]
    /\ at = [c \in Consumers |-> NoMessage]
    /\ attempt = [c \in Consumers |-> 0]
    /\ processed = {} /\ dlq = {} /\ leftBehind = {} /\ missed = {}
    /\ effects = [r \in Rows |-> 0]
    /\ failures = 0
    /\ rebalances = 0

RelayStep(l) == SelectPending(l) \/ PublishOK(l) \/ MarkPublished(l) \/ CommitBatch(l)

ConsumerStep(c) ==
    \/ \E p \in Partitions : Fetch(c, p)
    \/ Handle(c) \/ HandleFails(c) \/ SendToDLQ(c) \/ CommitOffset(c)

Next ==
    \/ \E r \in Rows : Enqueue(r)
    \/ \E l \in Relays : RelayStep(l) \/ PublishFails(l) \/ RelayCrash(l)
    \/ \E c \in Consumers : ConsumerStep(c)
    \/ Rebalance

Spec == Init /\ [][Next]_vars

\* Relays keep polling, subscribers keep fetching and handling. Neither
\* publications nor handlers nor the DLQ have to succeed.
Fairness ==
    /\ \A l \in Relays : WF_vars(RelayStep(l))
    /\ \A c \in Consumers : WF_vars(ConsumerStep(c))

FairSpec == Spec /\ Fairness

----------------------------------------------------------------------------
\* Properties

RelayTypeOK ==
    /\ outbox \in [Rows -> {"none", "pending", "published"}]
    /\ rowLock \in [Rows -> Relays \cup {Nobody}]
    /\ batch \in [Relays -> SUBSET Rows] /\ marked \in [Relays -> SUBSET Rows]
    /\ rpc \in [Relays -> {"idle", "publish", "mark"}]
    /\ \A l \in Relays : rpc[l] = "mark" => batch[l] # {}
    /\ aborted \in [Relays -> BOOLEAN]
    /\ copies \in [Rows -> Nat]
    /\ log \in [Partitions -> Seq(Message)]
    /\ failures \in 0..MaxFailures

GroupTypeOK ==
    /\ offset \in [Partitions -> Nat]
    /\ owner \in [Partitions -> Consumers]
    /\ position \in [Partitions -> Nat \ {0}]
    /\ cpc \in [Consumers -> {"idle", "handle", "dlq", "commit"}]
    /\ at \in [Consumers -> {NoMessage} \cup (Partitions \X Nat)]
    /\ \A c \in Consumers :
          IF cpc[c] = "idle" THEN at[c] = NoMessage
          ELSE at[c] \in Partitions \X Nat /\ at[c][2] \in DOMAIN log[at[c][1]]
    /\ attempt \in [Consumers -> 0..MaxRetries]
    /\ processed \cup dlq \cup leftBehind \cup missed \subseteq Message
    /\ effects \in [Rows -> Nat]
    /\ rebalances \in 0..MaxRebalances

TypeOK == RelayTypeOK /\ GroupTypeOK

OnTopic(r) == \E p \in Partitions : \E m \in ToSet(log[p]) : m.row = r

\* A row leaves the backlog only when its event is on the topic, whatever failed in
\* its batch or in an earlier one; and relays that run side by side do not publish it
\* twice: a second id for the same row is the price of a failure, one for each
\* (relay.go:91-93).
BacklogMatchesTopic ==
    \A r \in Rows :
        /\ outbox[r] = "published" => OnTopic(r)
        /\ copies[r] <= 1 + failures

\* However often an event is delivered, on however many replicas at once, it takes
\* effect once per event id.
OncePerEventId == \A r \in Rows : effects[r] = Cardinality({m \in processed : m.row = r})

Handled == processed \cup dlq

\* Lost for one of two reasons: the DLQ refused it, or its partition had no committed
\* offset when the readers changed.
Lost == leftBehind \cup missed

\* The group commits an offset only behind a message that was handled or handed to the
\* DLQ, although rebalances let late commits of old owners through. What else a committed
\* offset or a reader has passed is handled, in the DLQ or lost for one of the two
\* reasons; every other message is at somebody's hand or still to be fetched.
UnsettledIsDelivered ==
    \A p \in Partitions :
        /\ offset[p] > 1 => log[p][offset[p] - 1] \in Handled
        /\ \A i \in DOMAIN log[p] :
              \/ log[p][i] \in Handled \cup Lost
              \/ /\ i >= offset[p]
                 /\ i >= position[p] \/ \E c \in Consumers : at[c] = <<p, i>>

\* Every committed outbox row is eventually handled, in the DLQ or lost.
EnqueuedIsSettled ==
    \A r \in Rows : outbox[r] = "pending" ~> \E m \in Handled \cup Lost : m.row = r

OnTopics == UNION {ToSet(log[p]) : p \in Partitions}

\* Over relays, partitions and replicas the bus delivers as Delivery says.
Contract ==
    INSTANCE Delivery WITH
        Ids <- Nat,
        backlog <- outbox,
        topic <- OnTopics,
        applied <- processed,
        setAside <- dlq \cup leftBehind

ImplementsDelivery == Contract!Spec
=============================================================================
