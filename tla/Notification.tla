--------------------------- MODULE Notification ----------------------------
(***************************************************************************)
(* The notification service: replicas that consume one partition of order  *)
(* and payment events, turn the relevant ones into stored notifications,   *)
(* send them and commit the offset.                                        *)
(*                                                                         *)
(* handle_event is a row of statements without a transaction around them.  *)
(* The mail server, the broker and its client library are seen from        *)
(* outside: a send may reach the customer although it reports an error;    *)
(* a replica that lost the partition gets an error from its commit; and    *)
(* one that finds no committed offset starts at the end of the partition   *)
(* (auto_offset_reset is left at "latest").                                *)
(***************************************************************************)
EXTENDS Naturals, Sequences, FiniteSets

CONSTANTS
    Replicas,
    EventIds,
    Topic,          \* the messages of the partition: an event id and a type each; "other" is
                    \* of no interest, "unusable" lacks its template or a field, "undecodable"
                    \* is no JSON, "fatal" is JSON but no object or has a header that is no text
    MAX_ATTEMPTS,
    MaxFailures     \* bound: failing calls, crashes and rebalances in one behaviour

ASSUME TopicAssumption ==
    Topic \in Seq([type : {"relevant", "other", "unusable", "undecodable", "fatal"}, id : EventIds])
ASSUME ReplicasAssumption == IsFiniteSet(Replicas)
ASSUME AttemptsAssumption == MAX_ATTEMPTS \in Nat \ {0} /\ MaxFailures \in Nat

VARIABLES
    offset,     \* the group's committed offset, 0 without one
    owner,      \* the replica that reads the partition
    position,   \* what it fetches next
    missed,     \* history: messages that a reader without a committed offset started behind
    pc,         \* pc[r]: next statement of the consumer task of r
    at,         \* at[r]: the message it has at hand, 0 without one
    attempt,    \* attempt[r]: failed attempts at it
    rows,       \* rows[e]: notifications stored for event e, by status
    sent,       \* sent[e]: mails the customer got for it
    processed,  \* processed_events
    dlq,        \* messages in the dead letter topics
    failures

groupVars == <<offset, owner, position, missed>>
taskVars  == <<pc, at, attempt>>
dataVars  == <<rows, sent, processed, dlq>>
vars == <<groupVars, taskVars, dataVars, failures>>

Messages == DOMAIN Topic

Id(r) == Topic[at[r]].id

Goto(r, l) == pc' = [pc EXCEPT ![r] = l]

Failing == failures < MaxFailures /\ failures' = failures + 1

----------------------------------------------------------------------------
\* _run and _process_traced

Fetch(r) ==
    /\ pc[r] = "idle" /\ owner = r
    /\ position \in Messages
    /\ at' = [at EXCEPT ![r] = position]
    /\ position' = position + 1
    /\ attempt' = [attempt EXCEPT ![r] = 0]
    /\ Goto(r, IF Topic[position].type = "undecodable" THEN "dlq" ELSE "handle")
    /\ UNCHANGED <<offset, owner, missed, dataVars, failures>>

\* Mutant: what was processed before is not looked up.
HandleUnchecked(r) ==
    /\ pc[r] = "handle" /\ Topic[at[r]].type \in {"relevant", "other"}
    /\ Goto(r, IF Topic[at[r]].type = "relevant" THEN "create" ELSE "commit")
    /\ UNCHANGED <<groupVars, at, attempt, dataVars, failures>>

\* handle_event: an event of no interest, or processed before, is left alone.
Handle(r) ==
    /\ pc[r] = "handle" /\ Topic[at[r]].type \in {"relevant", "other"}
    /\ Goto(r, IF Topic[at[r]].type = "relevant" /\ Id(r) \notin processed
               THEN "create" ELSE "commit")
    /\ UNCHANGED <<groupVars, at, attempt, dataVars, failures>>

\* The database statements.
create_notification(r) ==
    /\ rows' = [rows EXCEPT ![Id(r)].pending = @ + 1]
    /\ UNCHANGED processed

mark_sent(r) ==
    /\ rows' = [rows EXCEPT ![Id(r)].pending = @ - 1, ![Id(r)].sent = @ + 1]
    /\ UNCHANGED processed

mark_failed(r) ==
    /\ rows' = [rows EXCEPT ![Id(r)].pending = @ - 1, ![Id(r)].failed = @ + 1]
    /\ UNCHANGED processed

mark_event_processed(r) == processed' = processed \cup {Id(r)} /\ UNCHANGED rows

Statement(r) ==
    \/ pc[r] = "create" /\ create_notification(r)
    \/ pc[r] = "mark_sent" /\ mark_sent(r)
    \/ pc[r] = "mark_failed" /\ mark_failed(r)
    \/ pc[r] = "mark" /\ mark_event_processed(r)

Following == [create |-> "send", mark_sent |-> "mark", mark_failed |-> "mark", mark |-> "commit"]

Execute(r) ==
    /\ Statement(r)
    /\ Goto(r, Following[pc[r]])
    /\ UNCHANGED <<groupVars, at, attempt, sent, dlq, failures>>

\* deliver: a sender that fails is no failure of the event.
Send(r) ==
    /\ pc[r] = "send"
    /\ \/ /\ sent' = [sent EXCEPT ![Id(r)] = @ + 1]
          /\ Goto(r, "mark_sent")
          /\ UNCHANGED failures
       \/ /\ Failing
          /\ sent' \in {sent, [sent EXCEPT ![Id(r)] = @ + 1]}
          /\ Goto(r, "mark_failed")
    /\ UNCHANGED <<groupVars, at, attempt, rows, processed, dlq>>

Drop(r, l) ==
    /\ Goto(r, l)
    /\ at' = [at EXCEPT ![r] = 0]
    /\ attempt' = [attempt EXCEPT ![r] = 0]

\* Mutant: one attempt too many.
RetryOnceMore(r) ==
    /\ attempt' = [attempt EXCEPT ![r] = @ + 1]
    /\ Goto(r, IF attempt[r] <= MAX_ATTEMPTS THEN "handle" ELSE "dlq")

\* All of handle_event again, or the DLQ after the last attempt.
Retry(r) ==
    /\ attempt' = [attempt EXCEPT ![r] = @ + 1]
    /\ Goto(r, IF attempt[r] + 1 < MAX_ATTEMPTS THEN "handle" ELSE "dlq")

\* A database call of handle_event raises, with or without having had its effect.
Raise(r) ==
    /\ pc[r] \in {"handle"} \cup DOMAIN Following /\ Topic[at[r]].type = "relevant"
    /\ Failing
    /\ Statement(r) \/ UNCHANGED <<rows, processed>>
    /\ Retry(r)
    /\ UNCHANGED <<groupVars, at, sent, dlq>>

\* Mutant: attempts at an event that cannot be handled are not counted.
HandleUnusableForever(r) ==
    /\ pc[r] = "handle" /\ Topic[at[r]].type = "unusable"
    /\ attempt' = [attempt EXCEPT ![r] = 1 - @]
    /\ UNCHANGED <<groupVars, pc, at, dataVars, failures>>

HandleUnusable(r) ==
    /\ pc[r] = "handle" /\ Topic[at[r]].type = "unusable"
    /\ Retry(r)
    /\ UNCHANGED <<groupVars, at, dataVars, failures>>

\* event.get raises once more where the error is logged, or _extract_trace_context raised
\* before the event was looked at: the consumer task ends.
HandleFatal(r) ==
    /\ pc[r] = "handle" /\ Topic[at[r]].type = "fatal"
    /\ Drop(r, "dead")
    /\ UNCHANGED <<groupVars, dataVars, failures>>

\* Mutant: an error of the dead letter topic is swallowed.
SendToDLQUnchecked(r) ==
    /\ pc[r] = "dlq"
    /\ \/ dlq' = dlq \cup {at[r]} /\ UNCHANGED failures
       \/ Failing /\ UNCHANGED dlq
    /\ Goto(r, "commit")
    /\ UNCHANGED <<groupVars, at, attempt, rows, sent, processed>>

\* An error of the dead letter topic ends the consumer task.
SendToDLQ(r) ==
    /\ pc[r] = "dlq"
    /\ \/ dlq' = dlq \cup {at[r]} /\ Goto(r, "commit") /\ UNCHANGED <<at, attempt, failures>>
       \/ Failing /\ dlq' \in {dlq, dlq \cup {at[r]}} /\ Drop(r, "dead")
    /\ UNCHANGED <<groupVars, rows, sent, processed>>

\* So does an error of the commit.
Commit(r) ==
    /\ pc[r] = "commit"
    /\ \/ /\ owner = r
          /\ offset' = at[r] + 1
          /\ Drop(r, "idle")
          /\ UNCHANGED failures
       \/ /\ owner = r /\ Failing
          /\ offset' \in {offset, at[r] + 1}
          /\ Drop(r, "dead")
       \/ /\ owner # r
          /\ Drop(r, "dead")
          /\ UNCHANGED <<offset, failures>>
    /\ UNCHANGED <<owner, position, missed, dataVars>>

----------------------------------------------------------------------------
\* Replicas come and go

\* A reader starts at the committed offset. Without one it starts at the end of the
\* partition, which may be anywhere from the last reader's position on.
Resume ==
    /\ position' \in IF offset = 0 THEN position..(Len(Topic) + 1) ELSE {offset}
    /\ missed' = missed \cup {m \in Messages : offset = 0 /\ m < position'}

\* A task that is done is reported by the readiness probe only; the replica stays,
\* and after a while the group gives its partition to another one.
TakeOver(r) ==
    /\ pc[owner] = "dead" /\ pc[r] # "dead"
    /\ owner' = r
    /\ Resume
    /\ UNCHANGED <<offset, taskVars, dataVars, failures>>

Rebalance(r) ==
    /\ pc[r] # "dead"
    /\ Failing
    /\ owner' = r
    /\ Resume
    /\ UNCHANGED <<offset, taskVars, dataVars>>

\* A replica stops, gracefully (the task is cancelled at its await) or not, and
\* starts again.
Restart(r) ==
    /\ pc[r] # "idle"
    /\ Failing
    /\ Drop(r, "idle")
    /\ IF owner = r THEN Resume ELSE UNCHANGED <<position, missed>>
    /\ UNCHANGED <<offset, owner, dataVars>>

----------------------------------------------------------------------------
\* Specification

Init ==
    /\ offset \in {0, 1} /\ position = 1 /\ missed = {}
    /\ owner \in Replicas
    /\ pc = [r \in Replicas |-> "idle"]
    /\ at = [r \in Replicas |-> 0]
    /\ attempt = [r \in Replicas |-> 0]
    /\ rows = [e \in EventIds |-> [pending |-> 0, sent |-> 0, failed |-> 0]]
    /\ sent = [e \in EventIds |-> 0]
    /\ processed = {} /\ dlq = {}
    /\ failures = 0

Task(r) ==
    \/ Fetch(r) \/ Handle(r) \/ HandleUnusable(r) \/ HandleFatal(r)
    \/ Execute(r) \/ Send(r) \/ SendToDLQ(r) \/ Commit(r)

Next == \E r \in Replicas : Task(r) \/ Raise(r) \/ TakeOver(r) \/ Rebalance(r) \/ Restart(r)

Spec == Init /\ [][Next]_vars

\* Tasks run; the broker notices a member that does not poll.
Fairness == \A r \in Replicas : WF_vars(Task(r)) /\ WF_vars(TakeOver(r))

FairSpec == Spec /\ Fairness

----------------------------------------------------------------------------
\* Properties

TypeOK ==
    /\ offset \in 0..(Len(Topic) + 1) /\ position \in 1..(Len(Topic) + 1)
    /\ missed \subseteq Messages
    /\ owner \in Replicas
    /\ pc \in [Replicas -> {"idle", "handle", "send", "dlq", "commit", "dead"} \cup DOMAIN Following]
    /\ at \in [Replicas -> {0} \cup Messages]
    /\ \A r \in Replicas : at[r] = 0 <=> pc[r] \in {"idle", "dead"}
    /\ attempt \in [Replicas -> 0..MAX_ATTEMPTS]
    /\ rows \in [EventIds -> [pending : Nat, sent : Nat, failed : Nat]]
    /\ sent \in [EventIds -> Nat]
    /\ processed \subseteq EventIds /\ dlq \subseteq Messages
    /\ failures \in 0..MaxFailures

Settled(m) ==
    \/ Topic[m].type = "other"
    \/ Topic[m].type = "relevant" /\ Topic[m].id \in processed
    \/ m \in dlq

\* The group commits an offset only behind a message that was handled or is in the DLQ:
\* the task rather dies than goes on behind a message it could not put anywhere. What else
\* an offset passes was handled, is in the DLQ, or was missed because a reader started at
\* the end of the partition before the group's first commit.
OffsetWaits ==
    \A m \in Messages : /\ offset = m + 1 => Settled(m)
                        /\ m < offset => Settled(m) \/ m \in missed

\* A processed event has a notification that says what became of it, and one that
\* says sent was sent, whatever failed or ran twice. A customer gets a second mail for
\* one event only because something failed in between: one more for each failure.
CustomersAreTold ==
    \A e \in EventIds :
        /\ e \in processed => rows[e].sent + rows[e].failed > 0
        /\ rows[e].sent <= sent[e]
        /\ sent[e] <= 1 + failures

\* Every message ahead of the first fatal one is settled in the end, the ones that cannot
\* be handled too, or was missed before the group's first commit, as long as one consumer
\* task lives. (A fatal message ends every task that fetches it.)
EventuallySettled ==
    \A m \in Messages : (\A n \in 1..m : Topic[n].type # "fatal") =>
        <>(Settled(m) \/ m \in missed \/ \A r \in Replicas : pc[r] = "dead")
=============================================================================
