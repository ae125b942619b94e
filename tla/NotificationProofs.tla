------------------------- MODULE NotificationProofs --------------------------
(***************************************************************************)
(* Proofs about Notification, for any number of replicas, any topic and    *)
(* any number of failures: its types, that the committed offset waits for  *)
(* every message (OffsetWaits), and that what the store says of the mails  *)
(* is true and a customer gets no more of them than things failed          *)
(* (CustomersAreTold).                                                     *)
(***************************************************************************)
EXTENDS Notification, FiniteSetTheorems, SequenceTheorems, TLAPS

----------------------------------------------------------------------------
\* The inductive invariants

\* A task that has an event at hand still has an attempt left, and has done what comes
\* before the statement it is at.
Handling == {"handle"} \cup DOMAIN Following \cup {"send"}

TaskInv ==
    /\ \A r \in Replicas : pc[r] \in Handling => attempt[r] < MAX_ATTEMPTS
    /\ \A r \in Replicas : pc[r] \in Handling \ {"handle"} => Topic[at[r]].type = "relevant"
    /\ \A r \in Replicas : pc[r] = "mark" => rows[Id(r)].sent + rows[Id(r)].failed > 0
    /\ \A e \in processed : rows[e].sent + rows[e].failed > 0

Done(m) == Settled(m) \/ m \in missed

\* What lies behind a task, behind the committed offset and behind the position is
\* settled or was missed, but for the message the owner has at hand; what was committed
\* last is settled.
OffsetInv ==
    /\ \A m \in Messages : offset = m + 1 => Settled(m)
    /\ \A m \in Messages : m < offset => Done(m)
    /\ \A r \in Replicas : \A m \in Messages : m < at[r] => Done(m)
    /\ \A m \in Messages : m < position => Done(m) \/ at[owner] = m \/ pc[owner] = "dead"
    /\ \A r \in Replicas : pc[r] = "commit" => Settled(at[r])

\* The tasks that are at one of the statements in ls for event e.
Doing(ls, e) == {r \in Replicas : pc[r] \in ls /\ Topic[at[r]].type = "relevant" /\ Id(r) = e}

\* Every task that has a row to mark finds it pending; a row that is to be marked as
\* sent has its mail.
RowsInv ==
    \A e \in EventIds :
        /\ rows[e].pending >= Cardinality(Doing({"send", "mark_sent", "mark_failed"}, e))
        /\ rows[e].sent + Cardinality(Doing({"mark_sent"}, e)) <= sent[e]

\* Tasks that may still send a mail for e, but for the owner's.
Others(e) == Doing({"handle", "create", "send"}, e) \ {owner}

\* The owner's next mail for e would be one that no failure is to blame for.
Owing(e) ==
    \/ owner \in Doing({"create", "send"}, e)
    \/ e \notin processed /\ owner \notin Doing({"mark_sent", "mark_failed", "mark"}, e)

MailInv ==
    \A e \in EventIds :
        sent[e] + Cardinality(Others(e)) <= failures + (IF Owing(e) THEN 0 ELSE 1)
----------------------------------------------------------------------------
\* Types

LEMMA TypeInit == Init => TypeOK /\ TaskInv
  BY TopicAssumption, AttemptsAssumption DEF Init, TypeOK, TaskInv, Handling, Following, Messages

\* The message at hand is one of the topic's.
LEMMA AtHandTyped ==
    ASSUME TypeOK, NEW r \in Replicas, at[r] # 0
    PROVE  /\ at[r] \in Messages /\ at[r] \in 1..Len(Topic) /\ Id(r) \in EventIds
           /\ Topic[at[r]] \in [type : {"relevant", "other", "unusable", "undecodable", "fatal"},
                                id : EventIds]
<1>1. at[r] \in Messages
  BY DEF TypeOK
<1>2. DOMAIN Topic = 1..Len(Topic)
  BY TopicAssumption, LenProperties
<1>3. /\ at[r] \in 1..Len(Topic)
      /\ Topic[at[r]] \in [type : {"relevant", "other", "unusable", "undecodable", "fatal"},
                           id : EventIds]
  BY <1>1, <1>2, TopicAssumption, ElementOfSeq DEF Messages
<1>4. QED
  BY <1>1, <1>3 DEF Id

LEMMA DoingFinite ==
    ASSUME NEW ls, NEW e
    PROVE  IsFiniteSet(Doing(ls, e)) /\ Cardinality(Doing(ls, e)) \in Nat
<1>1. Doing(ls, e) \subseteq Replicas
  BY DEF Doing
<1>2. QED
  BY <1>1, ReplicasAssumption, FS_Subset, FS_CardinalityType

\* A task that is counted finds what it counts for.
LEMMA DoingCounts ==
    ASSUME NEW ls, NEW e, NEW r \in Doing(ls, e)
    PROVE  Cardinality(Doing(ls, e)) > 0
<1>1. Doing(ls, e) # {}
  OBVIOUS
<1>2. QED
  BY <1>1, DoingFinite, FS_EmptySet

\* A statement finds the row it changes; numbers of sent and failed rows, and the
\* processed events, only grow.
StoreGrows ==
    /\ \A e \in EventIds : /\ rows'[e].sent >= rows[e].sent
                           /\ rows'[e].failed >= rows[e].failed
    /\ processed \subseteq processed'
    /\ dlq \subseteq dlq'

RowTyped == rows \in [EventIds -> [pending : Nat, sent : Nat, failed : Nat]]

LEMMA StatementStep ==
    ASSUME TypeOK, TaskInv, RowsInv, NEW r \in Replicas, Statement(r)
    PROVE  /\ RowTyped' /\ processed' \subseteq EventIds
           /\ \A e \in EventIds : /\ rows'[e].sent >= rows[e].sent
                                  /\ rows'[e].failed >= rows[e].failed
           /\ processed \subseteq processed'
           /\ pc[r] \in {"mark_sent", "mark_failed"} =>
                rows'[Id(r)].sent + rows'[Id(r)].failed > 0
           /\ \A e \in processed' : rows'[e].sent + rows'[e].failed > 0
<1>0. /\ RowTyped /\ processed \subseteq EventIds /\ pc[r] \in {"create", "mark_sent", "mark_failed", "mark"}
      /\ at[r] # 0
  BY DEF TypeOK, RowTyped, Statement
<1>1. Id(r) \in EventIds /\ Topic[at[r]].type = "relevant"
  BY <1>0, AtHandTyped DEF TaskInv, Handling, Following
<1>2. CASE pc[r] = "create"
  <2>1. rows' = [rows EXCEPT ![Id(r)].pending = @ + 1] /\ processed' = processed
    BY <1>2 DEF Statement, create_notification
  <2>2. QED
    BY <1>0, <1>1, <1>2, <2>1 DEF RowTyped, TaskInv
<1>3. ASSUME pc[r] \in {"mark_sent", "mark_failed"}
      PROVE  rows[Id(r)].pending > 0
  <2>1. r \in Doing({"send", "mark_sent", "mark_failed"}, Id(r))
    BY <1>1, <1>3 DEF Doing
  <2>2. Cardinality(Doing({"send", "mark_sent", "mark_failed"}, Id(r))) > 0
    BY <2>1, DoingCounts
  <2>3. QED
    BY <1>0, <1>1, <2>2, DoingFinite DEF RowsInv, RowTyped
<1>4. CASE pc[r] = "mark_sent"
  <2>1. rows' = [rows EXCEPT ![Id(r)].pending = @ - 1, ![Id(r)].sent = @ + 1]
        /\ processed' = processed
    BY <1>4 DEF Statement, mark_sent
  <2>2. QED
    BY <1>0, <1>1, <1>3, <1>4, <2>1 DEF RowTyped, TaskInv
<1>5. CASE pc[r] = "mark_failed"
  <2>1. rows' = [rows EXCEPT ![Id(r)].pending = @ - 1, ![Id(r)].failed = @ + 1]
        /\ processed' = processed
    BY <1>5 DEF Statement, mark_failed
  <2>2. QED
    BY <1>0, <1>1, <1>3, <1>5, <2>1 DEF RowTyped, TaskInv
<1>6. CASE pc[r] = "mark"
  <2>1. processed' = processed \cup {Id(r)} /\ rows' = rows
    BY <1>6 DEF Statement, mark_event_processed
  <2>2. QED
    BY <1>0, <1>1, <1>6, <2>1 DEF RowTyped, TaskInv
<1>7. QED
  BY <1>0, <1>2, <1>4, <1>5, <1>6
\* What a step makes of the task of one replica, the others being left alone.
TaskMoves(r, l, m, n) ==
    /\ pc' = [pc EXCEPT ![r] = l]
    /\ at' = [at EXCEPT ![r] = m]
    /\ attempt' = [attempt EXCEPT ![r] = n]

Labels == {"idle", "handle", "send", "dlq", "commit", "dead",
           "create", "mark_sent", "mark_failed", "mark"}

TaskTyped ==
    /\ pc \in [Replicas -> Labels]
    /\ at \in [Replicas -> {0} \cup Messages]
    /\ \A r \in Replicas : at[r] = 0 <=> pc[r] \in {"idle", "dead"}
    /\ attempt \in [Replicas -> 0..MAX_ATTEMPTS]

GroupTyped ==
    /\ offset \in 0..(Len(Topic) + 1) /\ position \in 1..(Len(Topic) + 1)
    /\ missed \subseteq Messages
    /\ owner \in Replicas
    /\ failures \in 0..MaxFailures

StoreTyped ==
    /\ RowTyped
    /\ sent \in [EventIds -> Nat]
    /\ processed \subseteq EventIds /\ dlq \subseteq Messages

LEMMA TypeParts == TypeOK <=> GroupTyped /\ TaskTyped /\ StoreTyped
  BY DEF TypeOK, GroupTyped, TaskTyped, StoreTyped, RowTyped, Labels, Following

LEMMA TypePartsNext == GroupTyped' /\ TaskTyped' /\ StoreTyped' => TypeOK'
  BY DEF TypeOK, GroupTyped, TaskTyped, StoreTyped, RowTyped, Labels, Following

LEMMA TaskTypeStep ==
    ASSUME TaskTyped, NEW r \in Replicas, NEW l \in Labels, NEW m \in {0} \cup Messages,
           NEW n \in 0..MAX_ATTEMPTS, m = 0 <=> l \in {"idle", "dead"},
           TaskMoves(r, l, m, n)
    PROVE  TaskTyped'
  BY DEF TaskTyped, TaskMoves

\* A task keeps its invariant when it goes on with an attempt left and what the
\* statement it is at asks for.
LEMMA TaskInvStep ==
    ASSUME TypeOK, TaskInv, NEW r \in Replicas, NEW l, NEW m, NEW n, TaskMoves(r, l, m, n),
           RowTyped', \A e \in EventIds : /\ rows'[e].sent >= rows[e].sent
                                          /\ rows'[e].failed >= rows[e].failed,
           \A e \in processed' : rows'[e].sent + rows'[e].failed > 0,
           l \in Handling => n < MAX_ATTEMPTS,
           l \in Handling \ {"handle"} => Topic[m].type = "relevant",
           l = "mark" => rows'[Topic[m].id].sent + rows'[Topic[m].id].failed > 0
    PROVE  TaskInv'
<1>0. TaskTyped /\ RowTyped
  BY TypeParts DEF StoreTyped
<1>1. \A q \in Replicas : /\ pc'[q] = IF q = r THEN l ELSE pc[q]
                          /\ at'[q] = IF q = r THEN m ELSE at[q]
                          /\ attempt'[q] = IF q = r THEN n ELSE attempt[q]
  BY <1>0 DEF TaskTyped, TaskMoves
<1>2. ASSUME NEW q \in Replicas, pc'[q] \in Handling
      PROVE  attempt'[q] < MAX_ATTEMPTS
  BY <1>1, <1>2 DEF TaskInv
<1>3. ASSUME NEW q \in Replicas, pc'[q] \in Handling \ {"handle"}
      PROVE  Topic[at'[q]].type = "relevant"
  BY <1>1, <1>3 DEF TaskInv
<1>4. ASSUME NEW q \in Replicas, pc'[q] = "mark"
      PROVE  rows'[Id(q)'].sent + rows'[Id(q)'].failed > 0
  <2>1. CASE q = r
    BY <1>1, <1>4, <2>1 DEF Id
  <2>2. CASE q # r
    <3>1. pc[q] = "mark" /\ Id(q)' = Id(q)
      BY <1>1, <1>4, <2>2 DEF Id
    <3>2. Id(q) \in EventIds /\ rows[Id(q)].sent + rows[Id(q)].failed > 0
      BY <1>0, <3>1, AtHandTyped DEF TaskInv, TaskTyped
    <3>3. QED
      BY <1>0, <3>1, <3>2 DEF RowTyped
  <2>3. QED
    BY <2>1, <2>2
<1>5. QED
  BY <1>2, <1>3, <1>4 DEF TaskInv, Handling

LEMMA ResumeTyped ==
    ASSUME GroupTyped, Resume
    PROVE  position' \in 1..(Len(Topic) + 1) /\ missed' \subseteq Messages
<1>1. Messages = 1..Len(Topic) /\ Len(Topic) \in Nat
  BY TopicAssumption, LenProperties DEF Messages
<1>2. position' \in 1..(Len(Topic) + 1)
  <2>1. offset \in 0..(Len(Topic) + 1) /\ position \in 1..(Len(Topic) + 1)
    BY DEF GroupTyped
  <2>2. CASE offset = 0
    BY <1>1, <2>1, <2>2 DEF Resume
  <2>3. CASE offset # 0
    BY <1>1, <2>1, <2>3 DEF Resume
  <2>4. QED
    BY <2>2, <2>3
<1>3. QED
  BY <1>2 DEF GroupTyped, Resume

\* What is common to the steps of one replica: they move one task, and leave alone what
\* is of no concern here.
LEMMA TypeStep ==
    TypeOK /\ TaskInv /\ RowsInv /\ [Next]_vars => TypeOK' /\ TaskInv' /\ StoreGrows
<1> SUFFICES ASSUME TypeOK, TaskInv, RowsInv, [Next]_vars
             PROVE  TypeOK' /\ TaskInv' /\ StoreGrows
  OBVIOUS
<1>0. /\ GroupTyped /\ TaskTyped /\ StoreTyped
      /\ \A e \in processed : rows[e].sent + rows[e].failed > 0
  BY TypeParts DEF TaskInv
<1>a. MAX_ATTEMPTS \in Nat \ {0} /\ MaxFailures \in Nat /\ Messages = 1..Len(Topic) /\ Len(Topic) \in Nat
  BY TopicAssumption, AttemptsAssumption, LenProperties DEF Messages
<1>b. /\ RowTyped /\ rows \in [EventIds -> [pending : Nat, sent : Nat, failed : Nat]]
      /\ sent \in [EventIds -> Nat] /\ processed \subseteq EventIds /\ dlq \subseteq Messages
      /\ \A e \in EventIds : rows[e].sent \in Nat /\ rows[e].failed \in Nat
  BY <1>0 DEF StoreTyped, RowTyped
<1>c. ASSUME UNCHANGED dataVars
      PROVE  /\ StoreTyped' /\ StoreGrows /\ RowTyped'
             /\ \A e \in processed' : rows'[e].sent + rows'[e].failed > 0
  BY <1>0, <1>b, <1>c DEF StoreTyped, RowTyped, StoreGrows, dataVars
<1>d. ASSUME UNCHANGED <<rows, processed>>
      PROVE  /\ RowTyped' /\ processed' \subseteq EventIds
             /\ \A e \in EventIds : /\ rows'[e].sent >= rows[e].sent
                                    /\ rows'[e].failed >= rows[e].failed
             /\ processed \subseteq processed'
             /\ \A e \in processed' : rows'[e].sent + rows'[e].failed > 0
  BY <1>0, <1>b, <1>d DEF RowTyped
<1>1. ASSUME NEW r \in Replicas, Fetch(r)
      PROVE  TypeOK' /\ TaskInv' /\ StoreGrows
  <2> DEFINE l == IF Topic[position].type = "undecodable" THEN "dlq" ELSE "handle"
  <2>1. TaskMoves(r, l, position, 0) /\ position \in Messages
    BY <1>1 DEF Fetch, TaskMoves, Goto
  <2>2. GroupTyped'
    BY <1>0, <1>1, <1>a DEF Fetch, GroupTyped
  <2>3. TaskTyped'
    BY <1>0, <1>a, <2>1, TaskTypeStep DEF Labels
  <2>4. UNCHANGED dataVars
    BY <1>1 DEF Fetch
  <2>5. TaskInv'
    BY <1>0, <1>a, <1>b, <1>c, <2>1, <2>4, TaskInvStep DEF Handling, Following, StoreGrows
  <2>6. QED
    BY <1>c, <2>2, <2>3, <2>4, <2>5, TypePartsNext
<1>2. ASSUME NEW r \in Replicas, Handle(r)
      PROVE  TypeOK' /\ TaskInv' /\ StoreGrows
  <2>1. PICK l \in {"create", "commit"} : /\ pc' = [pc EXCEPT ![r] = l]
                                          /\ l = "create" => Topic[at[r]].type = "relevant"
    BY <1>2 DEF Handle, Goto
  <2>2. TaskMoves(r, l, at[r], attempt[r]) /\ pc[r] = "handle"
    BY <1>0, <1>2, <2>1 DEF Handle, TaskMoves, TaskTyped
  <2>3. GroupTyped' /\ UNCHANGED dataVars
    BY <1>0, <1>2 DEF Handle, GroupTyped, groupVars
  <2>4. at[r] \in Messages /\ at[r] # 0 /\ attempt[r] \in 0..MAX_ATTEMPTS /\ attempt[r] < MAX_ATTEMPTS
    BY <1>0, <1>a, <2>2 DEF TaskTyped, TaskInv, Handling
  <2>5. TaskTyped'
    BY <1>0, <2>1, <2>2, <2>4, TaskTypeStep DEF Labels
  <2>6. TaskInv'
    BY <1>b, <1>c, <2>1, <2>2, <2>3, <2>4, TaskInvStep DEF Handling, Following, StoreGrows
  <2>7. QED
    BY <1>c, <2>3, <2>5, <2>6, TypePartsNext
<1>3. ASSUME NEW r \in Replicas, HandleUnusable(r) \/ Raise(r)
      PROVE  TypeOK' /\ TaskInv' /\ StoreGrows
  <2> DEFINE l == IF attempt[r] + 1 < MAX_ATTEMPTS THEN "handle" ELSE "dlq"
  <2>1. pc[r] \in Handling /\ Retry(r) /\ UNCHANGED <<at, sent, dlq>> /\ UNCHANGED groupVars
        /\ (Statement(r) \/ UNCHANGED <<rows, processed>>)
    BY <1>3 DEF HandleUnusable, Raise, Handling, dataVars
  <2>2. at[r] \in Messages /\ at[r] # 0 /\ attempt[r] \in 0..MAX_ATTEMPTS /\ attempt[r] < MAX_ATTEMPTS
    BY <1>0, <1>a, <2>1 DEF TaskTyped, TaskInv, Handling, Following
  <2>3. TaskMoves(r, l, at[r], attempt[r] + 1)
    BY <1>0, <2>1 DEF Retry, TaskMoves, TaskTyped, Goto
  <2>4. /\ RowTyped' /\ processed' \subseteq EventIds
        /\ \A e \in EventIds : /\ rows'[e].sent >= rows[e].sent
                               /\ rows'[e].failed >= rows[e].failed
        /\ processed \subseteq processed'
        /\ \A e \in processed' : rows'[e].sent + rows'[e].failed > 0
    BY <1>d, <2>1, StatementStep
  <2>5. GroupTyped'
    <3>1. failures' \in 0..MaxFailures
      BY <1>0, <1>3, <1>a DEF HandleUnusable, Raise, Failing, GroupTyped
    <3>2. QED
      BY <1>0, <2>1, <3>1 DEF GroupTyped, groupVars
  <2>6. TaskTyped'
    BY <1>0, <1>a, <2>2, <2>3, TaskTypeStep DEF Labels
  <2>7. TaskInv'
    BY <2>2, <2>3, <2>4, TaskInvStep DEF Handling, Following
  <2>8. StoreTyped' /\ StoreGrows
    BY <1>b, <2>1, <2>4 DEF StoreTyped, StoreGrows
  <2>9. QED
    BY <2>5, <2>6, <2>7, <2>8, TypePartsNext
<1>4. ASSUME NEW r \in Replicas, Execute(r)
      PROVE  TypeOK' /\ TaskInv' /\ StoreGrows
  <2>1. Statement(r) /\ UNCHANGED <<at, attempt, sent, dlq, failures>> /\ UNCHANGED groupVars
        /\ pc' = [pc EXCEPT ![r] = Following[pc[r]]]
        /\ pc[r] \in {"create", "mark_sent", "mark_failed", "mark"}
    BY <1>4 DEF Execute, Statement, Goto
  <2> DEFINE l == Following[pc[r]]
  <2>2. l \in {"send", "mark", "commit"} /\ (l = "mark" => pc[r] \in {"mark_sent", "mark_failed"})
    BY <2>1 DEF Following
  <2>3. at[r] \in Messages /\ at[r] # 0 /\ attempt[r] \in 0..MAX_ATTEMPTS /\ attempt[r] < MAX_ATTEMPTS
        /\ Topic[at[r]].type = "relevant"
    BY <1>0, <1>a, <2>1 DEF TaskTyped, TaskInv, Handling, Following
  <2>4. TaskMoves(r, l, at[r], attempt[r])
    BY <1>0, <2>1 DEF TaskMoves, TaskTyped
  <2>5. /\ RowTyped' /\ processed' \subseteq EventIds
        /\ \A e \in EventIds : /\ rows'[e].sent >= rows[e].sent
                               /\ rows'[e].failed >= rows[e].failed
        /\ processed \subseteq processed'
        /\ l = "mark" => rows'[Id(r)].sent + rows'[Id(r)].failed > 0
        /\ \A e \in processed' : rows'[e].sent + rows'[e].failed > 0
    BY <2>1, <2>2, StatementStep
  <2>6. GroupTyped' /\ StoreTyped' /\ StoreGrows
    BY <1>0, <1>b, <2>1, <2>5 DEF GroupTyped, groupVars, StoreTyped, StoreGrows
  <2>7. TaskTyped'
    BY <1>0, <2>2, <2>3, <2>4, TaskTypeStep DEF Labels
  <2>8. TaskInv'
    BY <2>2, <2>3, <2>4, <2>5, TaskInvStep DEF Id
  <2>9. QED
    BY <2>6, <2>7, <2>8, TypePartsNext
<1>5. ASSUME NEW r \in Replicas, Send(r)
      PROVE  TypeOK' /\ TaskInv' /\ StoreGrows
  <2>1. /\ pc[r] = "send" /\ UNCHANGED <<at, attempt, rows, processed, dlq>> /\ UNCHANGED groupVars
        /\ sent' \in {sent, [sent EXCEPT ![Id(r)] = @ + 1]}
    BY <1>5 DEF Send
  <2>2. PICK l \in {"mark_sent", "mark_failed"} : pc' = [pc EXCEPT ![r] = l]
    BY <1>5 DEF Send, Goto
  <2>3. at[r] \in Messages /\ at[r] # 0 /\ attempt[r] \in 0..MAX_ATTEMPTS /\ attempt[r] < MAX_ATTEMPTS
        /\ Topic[at[r]].type = "relevant"
    BY <1>0, <1>a, <2>1 DEF TaskTyped, TaskInv, Handling, Following
  <2>4. TaskMoves(r, l, at[r], attempt[r])
    BY <1>0, <2>1, <2>2 DEF TaskMoves, TaskTyped
  <2>5. GroupTyped'
    BY <1>0, <1>5, <1>a, <2>1 DEF Send, Failing, GroupTyped, groupVars
  <2>6. StoreTyped' /\ StoreGrows
    BY <1>b, <1>d, <2>1 DEF StoreTyped, StoreGrows
  <2>7. TaskTyped'
    BY <1>0, <2>2, <2>3, <2>4, TaskTypeStep DEF Labels
  <2>8. TaskInv'
    BY <1>d, <2>1, <2>2, <2>3, <2>4, TaskInvStep
  <2>9. QED
    BY <2>5, <2>6, <2>7, <2>8, TypePartsNext
<1>6. ASSUME NEW r \in Replicas, HandleFatal(r) \/ Restart(r)
      PROVE  TypeOK' /\ TaskInv' /\ StoreGrows
  <2>1. PICK l \in {"dead", "idle"} : TaskMoves(r, l, 0, 0)
    BY <1>6 DEF HandleFatal, Restart, Drop, Goto, TaskMoves
  <2>2. UNCHANGED dataVars
    BY <1>6 DEF HandleFatal, Restart
  <2>3. GroupTyped'
    <3>1. CASE UNCHANGED groupVars /\ UNCHANGED failures
      BY <1>0, <3>1 DEF GroupTyped, groupVars
    <3>2. CASE Restart(r)
      <4>1. failures' \in 0..MaxFailures /\ UNCHANGED <<offset, owner>>
        BY <1>0, <1>a, <3>2 DEF Restart, Failing, GroupTyped
      <4>2. QED
        BY <1>0, <3>2, <4>1, ResumeTyped DEF Restart, GroupTyped
    <3>3. QED
      BY <1>6, <3>1, <3>2 DEF HandleFatal
  <2>4. TaskTyped'
    BY <1>0, <1>a, <2>1, TaskTypeStep DEF Labels
  <2>5. TaskInv'
    BY <1>b, <1>c, <2>1, <2>2, TaskInvStep DEF Handling, Following, StoreGrows
  <2>6. QED
    BY <1>c, <2>2, <2>3, <2>4, <2>5, TypePartsNext
<1>7. ASSUME NEW r \in Replicas, SendToDLQ(r)
      PROVE  TypeOK' /\ TaskInv' /\ StoreGrows
  <2>1. pc[r] = "dlq" /\ at[r] \in Messages /\ at[r] # 0 /\ attempt[r] \in 0..MAX_ATTEMPTS
    BY <1>0, <1>a, <1>7 DEF SendToDLQ, TaskTyped
  <2>2. TaskMoves(r, "commit", at[r], attempt[r]) \/ TaskMoves(r, "dead", 0, 0)
    BY <1>0, <1>7 DEF SendToDLQ, Drop, Goto, TaskMoves, TaskTyped
  <2>3. /\ UNCHANGED <<rows, processed, sent>> /\ UNCHANGED groupVars
        /\ dlq' \in {dlq, dlq \cup {at[r]}}
    BY <1>7 DEF SendToDLQ
  <2>4. GroupTyped'
    BY <1>0, <1>a, <1>7, <2>3 DEF SendToDLQ, Failing, GroupTyped, groupVars
  <2>5. StoreTyped' /\ StoreGrows
    BY <1>b, <1>d, <2>1, <2>3 DEF StoreTyped, StoreGrows
  <2>6. TaskTyped'
    BY <1>0, <1>a, <2>1, <2>2, TaskTypeStep DEF Labels
  <2>7. TaskInv'
    BY <1>d, <2>1, <2>2, <2>3, TaskInvStep DEF Handling, Following
  <2>8. QED
    BY <2>4, <2>5, <2>6, <2>7, TypePartsNext
<1>8. ASSUME NEW r \in Replicas, Commit(r)
      PROVE  TypeOK' /\ TaskInv' /\ StoreGrows
  <2>1. pc[r] = "commit" /\ at[r] \in Messages /\ at[r] # 0
    BY <1>0, <1>a, <1>8 DEF Commit, TaskTyped
  <2>2. PICK l \in {"dead", "idle"} : TaskMoves(r, l, 0, 0)
    BY <1>8 DEF Commit, Drop, Goto, TaskMoves
  <2>3. UNCHANGED dataVars /\ UNCHANGED <<owner, position>> /\ offset' \in {offset, at[r] + 1}
    BY <1>8 DEF Commit
  <2>4. GroupTyped'
    BY <1>0, <1>a, <1>8, <2>1, <2>3 DEF Commit, Failing, GroupTyped
  <2>5. TaskTyped'
    BY <1>0, <1>a, <2>2, TaskTypeStep DEF Labels
  <2>6. TaskInv'
    BY <1>b, <1>c, <2>2, <2>3, TaskInvStep DEF Handling, Following, StoreGrows
  <2>7. QED
    BY <1>c, <2>3, <2>4, <2>5, <2>6, TypePartsNext
<1>9. ASSUME UNCHANGED taskVars, UNCHANGED dataVars,
             GroupTyped'
      PROVE  TypeOK' /\ TaskInv' /\ StoreGrows
  <2>1. TaskTyped' /\ StoreTyped' /\ StoreGrows
    BY <1>0, <1>c, <1>9 DEF TaskTyped, taskVars
  <2>2. TaskInv'
    BY <1>9 DEF TaskInv, taskVars, dataVars, Id
  <2>3. QED
    BY <1>9, <2>1, <2>2, TypePartsNext
<1>10. ASSUME NEW r \in Replicas, TakeOver(r) \/ Rebalance(r)
       PROVE  TypeOK' /\ TaskInv' /\ StoreGrows
  <2>1. GroupTyped'
    <3>1. failures' \in 0..MaxFailures /\ owner' = r /\ offset' = offset /\ Resume
      BY <1>0, <1>a, <1>10 DEF TakeOver, Rebalance, Failing, GroupTyped
    <3>2. QED
      BY <1>0, <3>1, ResumeTyped DEF GroupTyped
  <2>2. UNCHANGED taskVars /\ UNCHANGED dataVars
    BY <1>10 DEF TakeOver, Rebalance
  <2>3. QED
    BY <1>9, <2>1, <2>2
<1>11. CASE UNCHANGED vars
  <2>1. GroupTyped'
    BY <1>0, <1>11 DEF vars, groupVars, GroupTyped
  <2>2. QED
    BY <1>9, <1>11, <2>1 DEF vars
<1>12. QED
  BY <1>1, <1>2, <1>3, <1>4, <1>5, <1>6, <1>7, <1>8, <1>10, <1>11 DEF Next, Task
----------------------------------------------------------------------------
\* The committed offset

LEMMA SettledStays ==
    ASSUME StoreGrows, NEW m, Settled(m)
    PROVE  Settled(m)'
  BY DEF Settled, StoreGrows

LEMMA DoneStays ==
    ASSUME StoreGrows, missed \subseteq missed', NEW m, Done(m)
    PROVE  Done(m)'
  BY SettledStays DEF Done

\* A task that goes on with its message, or dies, lets nothing slip behind it.
LEMMA OffsetKept ==
    ASSUME TypeOK, OffsetInv, StoreGrows, UNCHANGED groupVars,
           NEW r \in Replicas, NEW l, NEW m \in {0, at[r]}, NEW n, TaskMoves(r, l, m, n),
           pc[r] # "dead", l = "commit" => Settled(m)',
           owner = r => m = at[r] \/ l = "dead"
    PROVE  OffsetInv'
<1>0. TaskTyped /\ owner \in Replicas /\ Messages \subseteq Nat /\ Messages' = Messages
  BY TypeParts, TopicAssumption, LenProperties DEF GroupTyped, Messages
<1>1. \A q \in Replicas : /\ pc'[q] = IF q = r THEN l ELSE pc[q]
                          /\ at'[q] = IF q = r THEN m ELSE at[q]
  BY <1>0 DEF TaskTyped, TaskMoves
<1>2. offset' = offset /\ position' = position /\ owner' = owner /\ missed' = missed
  BY DEF groupVars
<1>3. (\A i : Done(i) => Done(i)') /\ (\A i : Settled(i) => Settled(i)')
  BY <1>2, SettledStays, DoneStays
<1>4. ASSUME NEW i \in Messages, i < offset'
      PROVE  Done(i)'
  BY <1>2, <1>3, <1>4 DEF OffsetInv
<1>5. ASSUME NEW q \in Replicas, NEW i \in Messages, i < at'[q]
      PROVE  Done(i)'
  <2>1. i < at[q]
    BY <1>0, <1>1, <1>5
  <2>2. QED
    BY <1>3, <2>1 DEF OffsetInv
<1>6. ASSUME NEW i \in Messages, i < position'
      PROVE  Done(i)' \/ at'[owner'] = i \/ pc'[owner'] = "dead"
  <2>1. Done(i) \/ at[owner] = i \/ pc[owner] = "dead"
    BY <1>2, <1>6 DEF OffsetInv
  <2>2. QED
    BY <1>0, <1>1, <1>2, <1>3, <2>1
<1>7. ASSUME NEW q \in Replicas, pc'[q] = "commit"
      PROVE  Settled(at[q])'
  BY <1>1, <1>3, <1>7 DEF OffsetInv
<1>8. \A i \in Messages : offset' = i + 1 => Settled(i)'
  BY <1>2, <1>3 DEF OffsetInv
<1>9. QED
  BY <1>0, <1>4, <1>5, <1>6, <1>7, <1>8 DEF OffsetInv

\* Whoever gets the partition resumes at the committed offset, or behind what it missed.
LEMMA OffsetResumed ==
    ASSUME TypeOK, OffsetInv, StoreGrows, offset' = offset, Resume,
           \A q \in Replicas : at'[q] \in {0, at[q]} /\ (pc'[q] = "commit" => pc[q] = "commit" /\ at'[q] = at[q])
    PROVE  OffsetInv'
<1>0. TaskTyped /\ Messages \subseteq Nat /\ Messages' = Messages
  BY TypeParts, TopicAssumption, LenProperties DEF Messages
<1>1. (\A i : Done(i) => Done(i)') /\ (\A i : Settled(i) => Settled(i)')
  <2>1. missed \subseteq missed'
    BY DEF Resume
  <2>2. QED
    BY <2>1, SettledStays, DoneStays
<1>2. ASSUME NEW i \in Messages, i < offset'
      PROVE  Done(i)'
  BY <1>1, <1>2 DEF OffsetInv
<1>3. ASSUME NEW q \in Replicas, NEW i \in Messages, i < at'[q]
      PROVE  Done(i)'
  <2>1. i < at[q]
    BY <1>0, <1>3
  <2>2. QED
    BY <1>1, <2>1 DEF OffsetInv
<1>4. ASSUME NEW q \in Replicas, pc'[q] = "commit"
      PROVE  Settled(at[q])'
  BY <1>1, <1>4 DEF OffsetInv
<1>5. ASSUME NEW i \in Messages, i < position'
      PROVE  Done(i)'
  <2>0. Messages = 1..Len(Topic) /\ Len(Topic) \in Nat /\ offset \in Nat /\ position \in Nat
    BY TopicAssumption, LenProperties DEF Messages, TypeOK
  <2>1. CASE offset = 0
    BY <1>5, <2>1 DEF Resume, Done
  <2>2. CASE offset # 0
    <3>1. position' = offset
      BY <2>2 DEF Resume
    <3>2. QED
      BY <1>1, <1>5, <3>1 DEF OffsetInv
  <2>3. QED
    BY <2>1, <2>2
<1>6. \A i \in Messages : offset' = i + 1 => Settled(i)'
  BY <1>1 DEF OffsetInv
<1>7. QED
  BY <1>0, <1>2, <1>3, <1>4, <1>5, <1>6 DEF OffsetInv

LEMMA OffsetStep ==
    TypeOK /\ TaskInv /\ RowsInv /\ OffsetInv /\ [Next]_vars => OffsetInv'
<1> SUFFICES ASSUME TypeOK, TaskInv, RowsInv, OffsetInv, [Next]_vars
             PROVE  OffsetInv'
  OBVIOUS
<1>0. StoreGrows /\ TaskTyped /\ owner \in Replicas /\ position \in Nat /\ offset \in Nat
      /\ Messages \subseteq Nat \ {0} /\ Messages' = Messages
  BY TypeStep, TypeParts, TopicAssumption, LenProperties DEF GroupTyped, Messages
<1>1. ASSUME NEW r \in Replicas, Fetch(r)
      PROVE  OffsetInv'
  <2>1. /\ pc[r] = "idle" /\ owner = r /\ position \in Messages /\ at[r] = 0
        /\ position' = position + 1 /\ offset' = offset /\ owner' = owner
    BY <1>0, <1>1 DEF Fetch, TaskTyped
  <2>2. \A i \in Messages : i < position => Done(i)
    BY <1>0, <2>1 DEF OffsetInv
  <2>3. \A q \in Replicas : /\ at'[q] = IF q = r THEN position ELSE at[q]
                            /\ pc'[q] = "commit" => q # r /\ pc[q] = "commit"
    BY <1>0, <1>1 DEF Fetch, Goto, TaskTyped
  <2>4. (\A i : Done(i)' <=> Done(i)) /\ (\A i : Settled(i)' <=> Settled(i))
    BY <1>1 DEF Fetch, dataVars, Settled, Done
  <2>5. ASSUME NEW i \in Messages, i < position'
        PROVE  Done(i)' \/ at'[owner'] = i
    <3>1. i < position \/ i = position
      BY <1>0, <2>1, <2>5
    <3>2. CASE i < position
      BY <2>2, <2>4, <3>2
    <3>3. CASE i = position
      BY <1>0, <2>1, <2>3, <3>3
    <3>4. QED
      BY <3>1, <3>2, <3>3
  <2>6. \A q \in Replicas : \A i \in Messages : i < at'[q] => Done(i)'
    BY <2>2, <2>3, <2>4 DEF OffsetInv
  <2>7. \A q \in Replicas : pc'[q] = "commit" => Settled(at[q])'
    BY <2>3, <2>4 DEF OffsetInv
  <2>8. \A i \in Messages : i < offset' => Done(i)'
    BY <2>1, <2>4 DEF OffsetInv
  <2>9. \A i \in Messages : offset' = i + 1 => Settled(i)'
    BY <2>1, <2>4 DEF OffsetInv
  <2>10. QED
    BY <1>0, <2>5, <2>6, <2>7, <2>8, <2>9 DEF OffsetInv
<1>2. ASSUME NEW r \in Replicas, Handle(r)
      PROVE  OffsetInv'
  <2> DEFINE l == IF Topic[at[r]].type = "relevant" /\ Id(r) \notin processed THEN "create" ELSE "commit"
  <2>1. TaskMoves(r, l, at[r], attempt[r]) /\ pc[r] = "handle" /\ UNCHANGED groupVars
    BY <1>0, <1>2 DEF Handle, TaskMoves, TaskTyped, Goto
  <2>2. l = "commit" => Settled(at[r])
    BY <1>2 DEF Handle, Settled, Id
  <2>3. l = "commit" => (Settled(at[r]))'
    BY <1>2, <2>2 DEF Handle, Settled, dataVars
  <2>4. at'[r] = at[r]
    BY <1>2 DEF Handle
  <2>5. QED
    BY <1>0, <2>1, <2>3, <2>4, OffsetKept
<1>3. ASSUME NEW r \in Replicas, HandleUnusable(r) \/ Raise(r)
      PROVE  OffsetInv'
  <2> DEFINE l == IF attempt[r] + 1 < MAX_ATTEMPTS THEN "handle" ELSE "dlq"
  <2>1. TaskMoves(r, l, at[r], attempt[r] + 1) /\ pc[r] # "dead" /\ UNCHANGED groupVars
    BY <1>0, <1>3 DEF HandleUnusable, Raise, Retry, Following, TaskMoves, TaskTyped, Goto
  <2>2. l \in {"handle", "dlq"}
    OBVIOUS
  <2> HIDE DEF l
  <2>3. QED
    BY <1>0, <2>1, <2>2, OffsetKept
<1>4. ASSUME NEW r \in Replicas, Execute(r)
      PROVE  OffsetInv'
  <2> DEFINE l == Following[pc[r]]
  <2>1. /\ TaskMoves(r, l, at[r], attempt[r]) /\ UNCHANGED groupVars
        /\ pc[r] \in {"create", "mark_sent", "mark_failed", "mark"}
    BY <1>0, <1>4 DEF Execute, Statement, TaskMoves, TaskTyped, Goto
  <2>2. l = "commit" => pc[r] = "mark"
    BY <2>1 DEF Following
  <2>3. pc[r] = "mark" => Topic[at[r]].type = "relevant" /\ Topic[at[r]].id \in processed'
    BY <1>4 DEF Execute, Statement, mark_event_processed, TaskInv, Handling, Following, Id
  <2>4. l = "commit" => (Settled(at[r]))'
    BY <1>4, <2>2, <2>3 DEF Settled, Execute
  <2>5. at'[r] = at[r]
    BY <1>4 DEF Execute
  <2> HIDE DEF l
  <2>6. QED
    BY <1>0, <2>1, <2>4, <2>5, OffsetKept
<1>5. ASSUME NEW r \in Replicas, Send(r)
      PROVE  OffsetInv'
  <2>1. PICK l \in {"mark_sent", "mark_failed"} : TaskMoves(r, l, at[r], attempt[r])
    BY <1>0, <1>5 DEF Send, Goto, TaskMoves, TaskTyped
  <2>2. pc[r] # "dead" /\ UNCHANGED groupVars
    BY <1>5 DEF Send
  <2>3. QED
    BY <1>0, <2>1, <2>2, OffsetKept
<1>6. ASSUME NEW r \in Replicas, HandleFatal(r)
      PROVE  OffsetInv'
  <2>1. TaskMoves(r, "dead", 0, 0) /\ pc[r] # "dead" /\ UNCHANGED groupVars
    BY <1>6 DEF HandleFatal, Drop, Goto, TaskMoves
  <2>2. QED
    BY <1>0, <2>1, OffsetKept
<1>7. ASSUME NEW r \in Replicas, SendToDLQ(r)
      PROVE  OffsetInv'
  <2>1. pc[r] # "dead" /\ UNCHANGED groupVars
    BY <1>7 DEF SendToDLQ
  <2>2. CASE TaskMoves(r, "dead", 0, 0)
    BY <1>0, <2>1, <2>2, OffsetKept
  <2>3. CASE dlq' = dlq \cup {at[r]} /\ Goto(r, "commit") /\ UNCHANGED <<at, attempt>>
    <3>1. TaskMoves(r, "commit", at[r], attempt[r]) /\ (Settled(at[r]))' /\ at'[r] = at[r]
      BY <1>0, <2>3 DEF Goto, TaskMoves, TaskTyped, Settled
    <3>2. QED
      BY <1>0, <2>1, <3>1, OffsetKept
  <2>4. QED
    BY <1>7, <2>2, <2>3 DEF SendToDLQ, Drop, Goto, TaskMoves
<1>8. ASSUME NEW r \in Replicas, Commit(r)
      PROVE  OffsetInv'
  <2>1. /\ at[r] \in Nat /\ Settled(at[r]) /\ UNCHANGED <<owner, position>>
        /\ offset' \in {offset, at[r] + 1} /\ pc[r] # "dead"
    BY <1>0, <1>8 DEF Commit, OffsetInv, TaskTyped
  <2>2. ASSUME NEW i \in Messages, i < offset'
        PROVE  Done(i)
    <3>1. i < offset \/ i < at[r] \/ i = at[r]
      BY <1>0, <2>1, <2>2
    <3>2. QED
      BY <2>1, <3>1 DEF OffsetInv, Done
  <2>3. PICK l \in {"idle", "dead"} : TaskMoves(r, l, 0, 0)
    BY <1>8 DEF Commit, Drop, Goto, TaskMoves
  <2>4. \A q \in Replicas : /\ at'[q] = IF q = r THEN 0 ELSE at[q]
                            /\ pc'[q] = IF q = r THEN l ELSE pc[q]
    BY <1>0, <2>3 DEF TaskMoves, TaskTyped
  <2>c. \A i : Settled(i)' <=> Settled(i)
    BY <1>8 DEF Commit, dataVars, Settled
  <2>m. processed' = processed /\ dlq' = dlq /\ missed' = missed
    BY <1>8 DEF Commit, dataVars
  <2>5. \A i : Done(i)' <=> Done(i)
    BY <2>m DEF Settled, Done
  <2>6. ASSUME NEW i \in Messages, i < position'
        PROVE  Done(i)' \/ at'[owner'] = i \/ pc'[owner'] = "dead"
    <3>1. Done(i) \/ at[owner] = i \/ pc[owner] = "dead"
      BY <2>1, <2>6 DEF OffsetInv
    <3>2. owner = r /\ at[owner] = i => Done(i)
      BY <2>1 DEF Done
    <3>3. QED
      BY <1>0, <2>1, <2>4, <2>5, <3>1, <3>2
  <2>7. ASSUME NEW q \in Replicas, NEW i \in Messages, i < at'[q]
        PROVE  Done(i)'
    <3>1. i < at[q]
      BY <1>0, <2>4, <2>7
    <3>2. Done(i)
      BY <3>1 DEF OffsetInv
    <3>3. QED
      BY <2>5, <3>2
  <2>8. \A q \in Replicas : pc'[q] = "commit" => Settled(at[q])'
    BY <2>4, <2>c DEF OffsetInv
  <2>9. \A i \in Messages : offset' = i + 1 => Settled(i)'
    <3>1. CASE offset' = offset
      BY <2>c, <3>1 DEF OffsetInv
    <3>2. CASE offset' = at[r] + 1
      <4>1. ASSUME NEW i \in Messages, offset' = i + 1
            PROVE  i = at[r]
        <5>1. i \in Nat
          BY <1>0
        <5>2. at[r] + 1 = i + 1 /\ at[r] \in Nat
          BY <2>1, <3>2, <4>1
        <5>3. QED
          BY <5>1, <5>2
      <4>2. QED
        BY <2>1, <2>c, <4>1
    <3>3. QED
      BY <2>1, <3>1, <3>2
  <2>10. QED
    BY <1>0, <2>2, <2>5, <2>6, <2>7, <2>8, <2>9 DEF OffsetInv
<1>9. ASSUME NEW r \in Replicas, TakeOver(r) \/ Rebalance(r)
      PROVE  OffsetInv'
  <2>1. offset' = offset /\ Resume /\ pc' = pc /\ at' = at
    BY <1>9 DEF TakeOver, Rebalance, taskVars
  <2>2. QED
    BY <1>0, <2>1, OffsetResumed
<1>10. ASSUME NEW r \in Replicas, Restart(r)
       PROVE  OffsetInv'
  <2>1. TaskMoves(r, "idle", 0, 0) /\ offset' = offset /\ owner' = owner
    BY <1>10 DEF Restart, Drop, Goto, TaskMoves
  <2>2. \A q \in Replicas : /\ at'[q] = IF q = r THEN 0 ELSE at[q]
                            /\ pc'[q] = IF q = r THEN "idle" ELSE pc[q]
    BY <1>0, <2>1 DEF TaskMoves, TaskTyped
  <2>3. CASE owner = r
    BY <1>0, <1>10, <2>1, <2>2, <2>3, OffsetResumed DEF Restart
  <2>4. CASE owner # r
    <3>1. (\A i : Done(i)' <=> Done(i)) /\ (\A i : Settled(i)' <=> Settled(i))
      BY <1>10, <2>4 DEF Restart, dataVars, Settled, Done
    <3>2. position' = position
      BY <1>10, <2>4 DEF Restart
    <3>3. \A i \in Messages : i < offset' => Done(i)'
      BY <2>1, <3>1 DEF OffsetInv
    <3>4. \A i \in Messages : i < position' => Done(i)' \/ at'[owner'] = i \/ pc'[owner'] = "dead"
      BY <1>0, <2>1, <2>2, <2>4, <3>1, <3>2 DEF OffsetInv
    <3>5. ASSUME NEW q \in Replicas, NEW i \in Messages, i < at'[q]
          PROVE  Done(i)'
      <4>1. i < at[q]
        BY <1>0, <2>2, <3>5
      <4>2. Done(i)
        BY <4>1 DEF OffsetInv
      <4>3. QED
        BY <3>1, <4>2
    <3>6. \A q \in Replicas : pc'[q] = "commit" => Settled(at[q])'
      BY <2>2, <3>1 DEF OffsetInv
    <3>7. \A i \in Messages : offset' = i + 1 => Settled(i)'
      BY <2>1, <3>1 DEF OffsetInv
    <3>8. QED
      BY <1>0, <3>3, <3>4, <3>5, <3>6, <3>7 DEF OffsetInv
  <2>5. QED
    BY <2>3, <2>4
<1>11. CASE UNCHANGED vars
  BY <1>0, <1>11 DEF vars, groupVars, taskVars, dataVars, OffsetInv, Settled, Done
<1>12. QED
  BY <1>1, <1>2, <1>3, <1>4, <1>5, <1>6, <1>7, <1>8, <1>9, <1>10, <1>11 DEF Next, Task
----------------------------------------------------------------------------
\* Counting tasks

LEMMA CardinalityWithout ==
    ASSUME NEW S, IsFiniteSet(S), NEW x
    PROVE  /\ Cardinality(S \ {x}) \in Nat
           /\ Cardinality(S) = Cardinality(S \ {x}) + (IF x \in S THEN 1 ELSE 0)
<1>1. IsFiniteSet(S \ {x}) /\ Cardinality(S) \in Nat /\ Cardinality(S \ {x}) \in Nat
  BY FS_RemoveElement, FS_CardinalityType
<1>2. CASE x \in S
  BY <1>1, <1>2, FS_RemoveElement
<1>3. CASE x \notin S
  <2>1. S \ {x} = S
    BY <1>3
  <2>2. Cardinality(S \ {x}) = Cardinality(S)
    BY <2>1, Zenon
  <2>3. QED
    BY <1>1, <1>3, <2>2
<1>4. QED
  BY <1>2, <1>3, <1>1

\* When one task moves, only it joins or leaves those that are counted.
LEMMA DoingMoves ==
    ASSUME TaskTyped, NEW r \in Replicas, NEW l, NEW m, NEW n, TaskMoves(r, l, m, n), NEW ls, NEW e
    PROVE  /\ r \in Doing(ls, e)' <=> (l \in ls /\ Topic[m].type = "relevant" /\ Topic[m].id = e)
           /\ Doing(ls, e)' \ {r} = Doing(ls, e) \ {r}
           /\ Cardinality(Doing(ls, e)) \in Nat /\ Cardinality(Doing(ls, e)') \in Nat
           /\ Cardinality(Doing(ls, e)') + (IF r \in Doing(ls, e) THEN 1 ELSE 0)
                = Cardinality(Doing(ls, e)) + (IF r \in Doing(ls, e)' THEN 1 ELSE 0)
<1>1. \A q \in Replicas : /\ pc'[q] = IF q = r THEN l ELSE pc[q]
                          /\ at'[q] = IF q = r THEN m ELSE at[q]
  BY DEF TaskTyped, TaskMoves
<1>2. r \in Doing(ls, e)' <=> (l \in ls /\ Topic[m].type = "relevant" /\ Topic[m].id = e)
  BY <1>1 DEF Doing, Id
<1>3. Doing(ls, e)' \ {r} = Doing(ls, e) \ {r}
  BY <1>1 DEF Doing, Id
<1>4. Doing(ls, e)' \subseteq Replicas
  BY DEF Doing
<1>5. IsFiniteSet(Doing(ls, e)') /\ Cardinality(Doing(ls, e)') \in Nat
  BY <1>4, ReplicasAssumption, FS_Subset, FS_CardinalityType
<1>6. /\ Cardinality(Doing(ls, e)) = Cardinality(Doing(ls, e) \ {r}) + (IF r \in Doing(ls, e) THEN 1 ELSE 0)
      /\ Cardinality(Doing(ls, e) \ {r}) \in Nat
  BY DoingFinite, CardinalityWithout
<1>7. Cardinality(Doing(ls, e)')
        = Cardinality(Doing(ls, e)' \ {r}) + (IF r \in Doing(ls, e)' THEN 1 ELSE 0)
  BY <1>5, CardinalityWithout
<1>8. QED
  BY <1>2, <1>3, <1>5, <1>6, <1>7, DoingFinite

----------------------------------------------------------------------------
\* Rows and mails

RowLabels == {"send", "mark_sent", "mark_failed"}

\* A task that leaves the statements on its row, or never was there, changes nothing.
LEMMA RowsKept ==
    ASSUME TypeOK, RowsInv, rows' = rows, UNCHANGED sent,
           NEW r \in Replicas, NEW l, NEW m, NEW n, TaskMoves(r, l, m, n), l \notin RowLabels
    PROVE  RowsInv'
<1>1. TaskTyped /\ rows \in [EventIds -> [pending : Nat, sent : Nat, failed : Nat]] /\ sent \in [EventIds -> Nat]
  BY TypeParts DEF StoreTyped, RowTyped
<1>2. ASSUME NEW e \in EventIds, NEW ls \in SUBSET RowLabels
      PROVE  /\ Cardinality(Doing(ls, e)') \in Nat /\ Cardinality(Doing(ls, e)) \in Nat
             /\ Cardinality(Doing(ls, e)') <= Cardinality(Doing(ls, e))
  <2>1. r \notin Doing(ls, e)'
    BY <1>1, DoingMoves
  <2>2. QED
    BY <1>1, <2>1, DoingMoves
<1>3. SUFFICES ASSUME NEW e \in EventIds
               PROVE  /\ rows'[e].pending >= Cardinality(Doing({"send", "mark_sent", "mark_failed"}, e)')
                      /\ rows'[e].sent + Cardinality(Doing({"mark_sent"}, e)') <= sent'[e]
  BY DEF RowsInv
<1>4. /\ rows[e].pending \in Nat /\ rows[e].sent \in Nat /\ sent[e] \in Nat
      /\ rows[e].pending >= Cardinality(Doing({"send", "mark_sent", "mark_failed"}, e))
      /\ rows[e].sent + Cardinality(Doing({"mark_sent"}, e)) <= sent[e]
  BY <1>1 DEF RowsInv
<1>5. QED
  BY <1>2, <1>4 DEF RowLabels

\* A statement, whatever its task does next.
LEMMA RowsStatement ==
    ASSUME TypeOK, TaskInv, RowsInv, UNCHANGED sent,
           NEW r \in Replicas, NEW l, NEW n, TaskMoves(r, l, at[r], n), Statement(r),
           l \notin {"mark_sent", "mark_failed"}, l = "send" => pc[r] = "create"
    PROVE  RowsInv'
<1>1. /\ TaskTyped /\ RowTyped /\ RowTyped' /\ sent \in [EventIds -> Nat]
      /\ rows \in [EventIds -> [pending : Nat, sent : Nat, failed : Nat]]
      /\ rows' \in [EventIds -> [pending : Nat, sent : Nat, failed : Nat]]
  BY TypeParts, StatementStep DEF StoreTyped, RowTyped
<1>2. /\ pc[r] \in {"create", "mark_sent", "mark_failed", "mark"} /\ at[r] # 0
      /\ Topic[at[r]].type = "relevant"
  BY <1>1 DEF Statement, TaskTyped, TaskInv, Handling, Following
<1>3. Id(r) \in EventIds
  BY <1>2, AtHandTyped
<1>4. \A e \in EventIds \ {Id(r)} : rows'[e] = rows[e]
  BY <1>1, <1>3 DEF Statement, create_notification, mark_sent, mark_failed, mark_event_processed
<1>5. SUFFICES ASSUME NEW e \in EventIds
               PROVE  /\ rows'[e].pending >= Cardinality(Doing({"send", "mark_sent", "mark_failed"}, e)')
                      /\ rows'[e].sent + Cardinality(Doing({"mark_sent"}, e)') <= sent'[e]
  BY DEF RowsInv
<1>6. /\ rows[e].pending \in Nat /\ rows[e].sent \in Nat /\ sent[e] \in Nat
      /\ rows'[e].pending \in Nat /\ rows'[e].sent \in Nat
      /\ rows[e].pending >= Cardinality(Doing({"send", "mark_sent", "mark_failed"}, e))
      /\ rows[e].sent + Cardinality(Doing({"mark_sent"}, e)) <= sent[e]
  BY <1>1 DEF RowsInv
<1> DEFINE P == Doing({"send", "mark_sent", "mark_failed"}, e)
           M == Doing({"mark_sent"}, e)
<1>7. /\ Cardinality(P) \in Nat /\ Cardinality(P') \in Nat /\ Cardinality(M) \in Nat /\ Cardinality(M') \in Nat
      /\ Cardinality(P') + (IF r \in P THEN 1 ELSE 0) = Cardinality(P) + (IF r \in P' THEN 1 ELSE 0)
      /\ Cardinality(M') + (IF r \in M THEN 1 ELSE 0) = Cardinality(M) + (IF r \in M' THEN 1 ELSE 0)
  BY <1>1, DoingMoves
<1>8. /\ r \in P <=> (pc[r] \in {"mark_sent", "mark_failed"} /\ Id(r) = e)
      /\ r \in M <=> (pc[r] = "mark_sent" /\ Id(r) = e)
  BY <1>2 DEF Doing
<1>9. /\ r \in P' <=> (l = "send" /\ Id(r) = e)
      /\ r \notin M'
  <2>1. /\ r \in P' <=> (l \in {"send", "mark_sent", "mark_failed"} /\ Topic[at[r]].type = "relevant" /\ Id(r) = e)
        /\ r \in M' <=> (l \in {"mark_sent"} /\ Topic[at[r]].type = "relevant" /\ Id(r) = e)
    BY <1>1, DoingMoves DEF Id
  <2>2. QED
    BY <1>2, <2>1
<1> HIDE DEF P, M
<1>10. rows[e].pending >= Cardinality(P) /\ rows[e].sent + Cardinality(M) <= sent[e]
  BY <1>6 DEF P, M
<1>11. rows'[e].pending >= Cardinality(P') /\ rows'[e].sent + Cardinality(M') <= sent'[e]
  <2>1. CASE Id(r) # e
    <3>1. rows'[e] = rows[e]
      BY <1>4, <2>1
    <3>2. QED
      BY <1>6, <1>7, <1>8, <1>9, <1>10, <2>1, <3>1
  <2>2. CASE Id(r) = e /\ pc[r] = "create"
    <3>1. rows'[e].pending = rows[e].pending + 1 /\ rows'[e].sent = rows[e].sent
      BY <1>1, <2>2 DEF Statement, create_notification
    <3>2. QED
      BY <1>6, <1>7, <1>8, <1>9, <1>10, <2>2, <3>1
  <2>3. CASE Id(r) = e /\ pc[r] = "mark_sent"
    <3>1. rows'[e].pending = rows[e].pending - 1 /\ rows'[e].sent = rows[e].sent + 1
      BY <1>1, <2>3 DEF Statement, mark_sent
    <3>2. QED
      BY <1>6, <1>7, <1>8, <1>9, <1>10, <2>3, <3>1
  <2>4. CASE Id(r) = e /\ pc[r] = "mark_failed"
    <3>1. rows'[e].pending = rows[e].pending - 1 /\ rows'[e].sent = rows[e].sent
      BY <1>1, <2>4 DEF Statement, mark_failed
    <3>2. QED
      BY <1>6, <1>7, <1>8, <1>9, <1>10, <2>4, <3>1
  <2>5. CASE Id(r) = e /\ pc[r] = "mark"
    <3>1. rows' = rows
      BY <2>5 DEF Statement, mark_event_processed
    <3>2. QED
      BY <1>6, <1>7, <1>8, <1>9, <1>10, <2>5, <3>1
  <2>6. QED
    BY <1>2, <2>1, <2>2, <2>3, <2>4, <2>5
<1>12. QED
  BY <1>11 DEF P, M
LEMMA RowsSend ==
    ASSUME TypeOK, TaskInv, RowsInv, NEW r \in Replicas, Send(r)
    PROVE  RowsInv'
<1>1. /\ TaskTyped /\ sent \in [EventIds -> Nat]
      /\ rows \in [EventIds -> [pending : Nat, sent : Nat, failed : Nat]]
  BY TypeParts DEF StoreTyped, RowTyped
<1>2. /\ pc[r] = "send" /\ at[r] # 0 /\ Topic[at[r]].type = "relevant" /\ rows' = rows
  BY <1>1 DEF Send, TaskTyped, TaskInv, Handling, Following
<1>3. Id(r) \in EventIds
  BY <1>2, AtHandTyped
<1>4. PICK l \in {"mark_sent", "mark_failed"} :
        /\ TaskMoves(r, l, at[r], attempt[r])
        /\ sent' = [sent EXCEPT ![Id(r)] = @ + 1] \/ (l = "mark_failed" /\ sent' = sent)
  <2>1. at' = [at EXCEPT ![r] = at[r]] /\ attempt' = [attempt EXCEPT ![r] = attempt[r]]
    BY <1>1 DEF Send, TaskTyped
  <2>2. CASE sent' = [sent EXCEPT ![Id(r)] = @ + 1] /\ Goto(r, "mark_sent")
    BY <2>1, <2>2 DEF Goto, TaskMoves
  <2>3. CASE sent' \in {sent, [sent EXCEPT ![Id(r)] = @ + 1]} /\ Goto(r, "mark_failed")
    BY <2>1, <2>3 DEF Goto, TaskMoves
  <2>4. QED
    BY <2>2, <2>3 DEF Send
<1>5. SUFFICES ASSUME NEW e \in EventIds
               PROVE  /\ rows'[e].pending >= Cardinality(Doing({"send", "mark_sent", "mark_failed"}, e)')
                      /\ rows'[e].sent + Cardinality(Doing({"mark_sent"}, e)') <= sent'[e]
  BY DEF RowsInv
<1> DEFINE P == Doing({"send", "mark_sent", "mark_failed"}, e)
           M == Doing({"mark_sent"}, e)
<1>6. /\ rows[e].pending \in Nat /\ rows[e].sent \in Nat /\ sent[e] \in Nat
      /\ rows[e].pending >= Cardinality(P)
      /\ rows[e].sent + Cardinality(M) <= sent[e]
  BY <1>1 DEF RowsInv
<1>7. /\ Cardinality(P) \in Nat /\ Cardinality(P') \in Nat /\ Cardinality(M) \in Nat /\ Cardinality(M') \in Nat
      /\ Cardinality(P') + (IF r \in P THEN 1 ELSE 0) = Cardinality(P) + (IF r \in P' THEN 1 ELSE 0)
      /\ Cardinality(M') + (IF r \in M THEN 1 ELSE 0) = Cardinality(M) + (IF r \in M' THEN 1 ELSE 0)
  BY <1>1, <1>4, DoingMoves
<1>8. (r \in P <=> Id(r) = e) /\ r \notin M
  BY <1>2 DEF Doing
<1>9. /\ r \in P' <=> Id(r) = e
      /\ r \in M' <=> (l = "mark_sent" /\ Id(r) = e)
  <2>1. /\ r \in P' <=> (l \in {"send", "mark_sent", "mark_failed"} /\ Topic[at[r]].type = "relevant" /\ Id(r) = e)
        /\ r \in M' <=> (l \in {"mark_sent"} /\ Topic[at[r]].type = "relevant" /\ Id(r) = e)
    BY <1>1, <1>4, DoingMoves DEF Id
  <2>2. QED
    BY <1>2, <2>1
<1> HIDE DEF P, M
<1>10. sent'[e] \in Nat /\ sent'[e] >= sent[e] /\ (r \in M' => sent'[e] = sent[e] + 1)
  BY <1>1, <1>3, <1>4, <1>9
<1>11. rows'[e].pending >= Cardinality(P') /\ rows'[e].sent + Cardinality(M') <= sent'[e]
  BY <1>2, <1>6, <1>7, <1>8, <1>9, <1>10
<1>12. QED
  BY <1>11 DEF P, M

LEMMA RowsStep == TypeOK /\ TaskInv /\ RowsInv /\ [Next]_vars => RowsInv'
<1> SUFFICES ASSUME TypeOK, TaskInv, RowsInv, [Next]_vars
             PROVE  RowsInv'
  OBVIOUS
<1>0. TaskTyped
  BY TypeParts
<1>1. ASSUME NEW r \in Replicas, Fetch(r) \/ Handle(r) \/ HandleUnusable(r) \/ HandleFatal(r)
                                  \/ SendToDLQ(r) \/ Commit(r) \/ Restart(r)
      PROVE  RowsInv'
  <2>1. rows' = rows /\ UNCHANGED sent
    BY <1>1 DEF Fetch, Handle, HandleUnusable, HandleFatal, SendToDLQ, Commit, Restart, dataVars
  <2>2. PICK l \in {"handle", "dlq", "create", "commit", "idle", "dead"} : \E m, n : TaskMoves(r, l, m, n)
    <3>1. CASE Fetch(r)
      BY <3>1 DEF Fetch, Goto, TaskMoves
    <3>2. CASE Handle(r) \/ HandleUnusable(r)
      <4>1. at' = [at EXCEPT ![r] = at[r]]
        BY <1>0, <3>2 DEF Handle, HandleUnusable, TaskTyped
      <4>2. attempt' = [attempt EXCEPT ![r] = attempt'[r]]
        BY <1>0, <3>2 DEF Handle, HandleUnusable, Retry, TaskTyped
      <4>3. \E l \in {"handle", "dlq", "create", "commit"} : pc' = [pc EXCEPT ![r] = l]
        BY <3>2 DEF Handle, HandleUnusable, Retry, Goto
      <4>4. QED
        BY <4>1, <4>2, <4>3, ZenonT(60) DEF TaskMoves
    <3>3. CASE HandleFatal(r) \/ Commit(r) \/ Restart(r)
      BY <3>3 DEF HandleFatal, Commit, Restart, Drop, Goto, TaskMoves
    <3>4. CASE SendToDLQ(r)
      <4>1. at = [at EXCEPT ![r] = at[r]] /\ attempt = [attempt EXCEPT ![r] = attempt[r]]
        BY <1>0 DEF TaskTyped
      <4>2. QED
        BY <3>4, <4>1 DEF SendToDLQ, Drop, Goto, TaskMoves
    <3>5. QED
      BY <1>1, <3>1, <3>2, <3>3, <3>4
  <2>3. QED
    BY <2>1, <2>2, RowsKept DEF RowLabels
<1>2. ASSUME NEW r \in Replicas, Raise(r)
      PROVE  RowsInv'
  <2> DEFINE l == IF attempt[r] + 1 < MAX_ATTEMPTS THEN "handle" ELSE "dlq"
  <2>1. TaskMoves(r, l, at[r], attempt[r] + 1) /\ UNCHANGED sent
        /\ (Statement(r) \/ UNCHANGED <<rows, processed>>)
    BY <1>0, <1>2 DEF Raise, Retry, TaskMoves, TaskTyped, Goto
  <2>2. l \in {"handle", "dlq"}
    OBVIOUS
  <2> HIDE DEF l
  <2>3. CASE Statement(r)
    BY <2>1, <2>2, <2>3, RowsStatement
  <2>4. CASE UNCHANGED <<rows, processed>>
    BY <2>1, <2>2, <2>4, RowsKept DEF RowLabels
  <2>5. QED
    BY <2>1, <2>3, <2>4
<1>3. ASSUME NEW r \in Replicas, Execute(r)
      PROVE  RowsInv'
  <2> DEFINE l == Following[pc[r]]
  <2>1. TaskMoves(r, l, at[r], attempt[r]) /\ UNCHANGED sent /\ Statement(r)
        /\ pc[r] \in {"create", "mark_sent", "mark_failed", "mark"}
    BY <1>0, <1>3 DEF Execute, Statement, TaskMoves, TaskTyped, Goto
  <2>2. l \notin {"mark_sent", "mark_failed"} /\ (l = "send" => pc[r] = "create")
    BY <2>1 DEF Following
  <2> HIDE DEF l
  <2>3. QED
    BY <2>1, <2>2, RowsStatement
<1>4. ASSUME UNCHANGED taskVars, UNCHANGED dataVars
      PROVE  RowsInv'
  <2>1. \A ls, e : Doing(ls, e)' = Doing(ls, e)
    BY <1>4 DEF taskVars, Doing, Id
  <2>2. QED
    BY <1>4, <2>1 DEF RowsInv, dataVars
<1>5. QED
  BY <1>1, <1>2, <1>3, <1>4, RowsSend DEF Next, Task, TakeOver, Rebalance, vars
----------------------------------------------------------------------------
\* How many mails

MayStillSend == {"handle", "create", "send"}

LEMMA OthersFinite ==
    ASSUME NEW e
    PROVE  /\ Cardinality(Others(e)) \in Nat
           /\ Cardinality(Doing(MayStillSend, e))
                = Cardinality(Others(e)) + (IF owner \in Doing(MayStillSend, e) THEN 1 ELSE 0)
  BY DoingFinite, CardinalityWithout DEF Others, MayStillSend

LEMMA OthersFiniteNext ==
    ASSUME NEW e
    PROVE  /\ Cardinality(Others(e)') \in Nat
           /\ Cardinality(Doing(MayStillSend, e)')
                = Cardinality(Others(e)') + (IF owner' \in Doing(MayStillSend, e)' THEN 1 ELSE 0)
<1>1. IsFiniteSet(Doing(MayStillSend, e)')
  <2>1. Doing(MayStillSend, e)' \subseteq Replicas
    BY DEF Doing
  <2>2. QED
    BY <2>1, ReplicasAssumption, FS_Subset
<1>2. Others(e)' = Doing(MayStillSend, e)' \ {owner'}
  BY DEF Others, MayStillSend
<1>3. QED
  BY <1>1, <1>2, CardinalityWithout

LEMMA MailBound ==
    ASSUME TypeOK, MailInv, NEW e \in EventIds
    PROVE  /\ sent[e] \in Nat /\ failures \in Nat /\ Cardinality(Others(e)) \in Nat
           /\ Owing(e) => sent[e] + Cardinality(Others(e)) <= failures
           /\ sent[e] + Cardinality(Others(e)) <= failures + 1
<1>1. sent[e] \in Nat /\ failures \in Nat
  BY TypeParts, AttemptsAssumption DEF GroupTyped, StoreTyped
<1>2. QED
  BY <1>1, OthersFinite DEF MailInv

\* A step of a task that does not own the partition.
LEMMA MailOther ==
    ASSUME TypeOK, TypeOK', MailInv, StoreGrows, UNCHANGED owner,
           NEW r \in Replicas \ {owner}, NEW l, NEW m, NEW n, TaskMoves(r, l, m, n),
           NEW e \in EventIds,
           \/ failures' = failures + 1 /\ sent'[e] = sent[e]
           \/ failures' = failures /\ sent'[e] = sent[e]
                /\ (r \in Doing(MayStillSend, e)' => r \in Doing(MayStillSend, e))
           \/ failures' \in {failures, failures + 1} /\ sent'[e] = sent[e] + 1
                /\ r \in Doing(MayStillSend, e) /\ r \notin Doing(MayStillSend, e)'
    PROVE  sent'[e] + Cardinality(Others(e)') <= failures' + (IF Owing(e)' THEN 0 ELSE 1)
<1>0. TaskTyped /\ owner \in Replicas /\ owner' = owner
  BY TypeParts DEF GroupTyped
<1>1. Owing(e)' => Owing(e)
  <2>1. \A ls : owner \in Doing(ls, e)' <=> owner \in Doing(ls, e)
    <3>1. \A ls : Doing(ls, e)' \ {r} = Doing(ls, e) \ {r}
      BY <1>0, DoingMoves
    <3>2. QED
      BY <3>1
  <2>2. QED
    BY <1>0, <2>1 DEF Owing, StoreGrows
<1> DEFINE W == Doing(MayStillSend, e)
<1>2. /\ Cardinality(W) \in Nat /\ Cardinality(W') \in Nat
      /\ Cardinality(W') + (IF r \in W THEN 1 ELSE 0) = Cardinality(W) + (IF r \in W' THEN 1 ELSE 0)
      /\ W' \ {r} = W \ {r}
  BY <1>0, DoingMoves
<1>3. /\ Cardinality(Others(e)) \in Nat /\ Cardinality(Others(e)') \in Nat
      /\ Cardinality(W) = Cardinality(Others(e)) + (IF owner \in W THEN 1 ELSE 0)
      /\ Cardinality(W') = Cardinality(Others(e)') + (IF owner \in W' THEN 1 ELSE 0)
  BY <1>0, OthersFinite, OthersFiniteNext
<1>4. owner \in W' <=> owner \in W
  BY <1>2
<1>5. Cardinality(Others(e)') + (IF r \in W THEN 1 ELSE 0)
        = Cardinality(Others(e)) + (IF r \in W' THEN 1 ELSE 0)
  BY <1>2, <1>3, <1>4
<1>6. /\ sent[e] \in Nat /\ failures \in Nat
      /\ Owing(e) => sent[e] + Cardinality(Others(e)) <= failures
      /\ sent[e] + Cardinality(Others(e)) <= failures + 1
  BY MailBound
<1>7. QED
  BY <1>1, <1>3, <1>5, <1>6

\* A step of the owner's task.
LEMMA MailOwner ==
    ASSUME TypeOK, TypeOK', MailInv, UNCHANGED owner,
           NEW l, NEW m, NEW n, TaskMoves(owner, l, m, n), NEW e \in EventIds,
           \/ failures' = failures + 1
                /\ (sent'[e] = sent[e] \/ (sent'[e] = sent[e] + 1 /\ Owing(e)))
           \/ failures' = failures /\ sent'[e] = sent[e] /\ (Owing(e)' => Owing(e))
           \/ failures' = failures /\ sent'[e] = sent[e] + 1 /\ Owing(e) /\ ~ Owing(e)'
    PROVE  sent'[e] + Cardinality(Others(e)') <= failures' + (IF Owing(e)' THEN 0 ELSE 1)
<1>0. TaskTyped /\ owner \in Replicas /\ owner' = owner
  BY TypeParts DEF GroupTyped
<1>1. Others(e)' = Others(e)
  <2>1. Doing(MayStillSend, e)' \ {owner} = Doing(MayStillSend, e) \ {owner}
    BY <1>0, DoingMoves
  <2>2. QED
    BY <1>0, <2>1 DEF Others, MayStillSend
<1>2. Cardinality(Others(e)') = Cardinality(Others(e))
  BY <1>1, Zenon
<1>3. /\ sent[e] \in Nat /\ failures \in Nat /\ Cardinality(Others(e)) \in Nat
      /\ Owing(e) => sent[e] + Cardinality(Others(e)) <= failures
      /\ sent[e] + Cardinality(Others(e)) <= failures + 1
  BY MailBound
<1>4. QED
  BY <1>2, <1>3

\* The partition changes hands.
LEMMA MailHandedOver ==
    ASSUME TypeOK, TypeOK', MailInv, UNCHANGED <<taskVars, sent, processed>>,
           failures' = failures + 1 \/ (failures' = failures /\ pc[owner] = "dead")
    PROVE  MailInv'
<1> SUFFICES ASSUME NEW e \in EventIds
             PROVE  sent'[e] + Cardinality(Others(e)') <= failures' + (IF Owing(e)' THEN 0 ELSE 1)
  BY DEF MailInv
<1> DEFINE W == Doing(MayStillSend, e)
<1>1. \A ls : Doing(ls, e)' = Doing(ls, e)
  BY DEF taskVars, Doing, Id
<1>2. Cardinality(W') = Cardinality(W)
  BY <1>1, Zenon
<1>3. /\ Cardinality(Others(e)) \in Nat /\ Cardinality(Others(e)') \in Nat
      /\ Cardinality(W) = Cardinality(Others(e)) + (IF owner \in W THEN 1 ELSE 0)
      /\ Cardinality(W') = Cardinality(Others(e)') + (IF owner' \in W' THEN 1 ELSE 0)
  BY OthersFinite, OthersFiniteNext
<1>4. /\ owner \in Doing({"create", "send"}, e) => owner \in W
      /\ owner \in Doing({"mark_sent", "mark_failed", "mark"}, e) => owner \notin W
      /\ owner' \in Doing({"create", "send"}, e) => owner' \in W
      /\ pc[owner] = "dead" => /\ owner \notin W
                               /\ owner \notin Doing({"mark_sent", "mark_failed", "mark"}, e)
  BY DEF Doing, MayStillSend
<1>5. /\ sent[e] \in Nat /\ failures \in Nat
      /\ Owing(e) => sent[e] + Cardinality(Others(e)) <= failures
      /\ sent[e] + Cardinality(Others(e)) <= failures + 1
  BY MailBound
<1>6. sent'[e] = sent[e]
  OBVIOUS
<1>7. Owing(e)' <=> \/ owner' \in Doing({"create", "send"}, e)
                    \/ e \notin processed /\ owner' \notin Doing({"mark_sent", "mark_failed", "mark"}, e)
  BY <1>1 DEF Owing
<1>8. owner' \in W' <=> owner' \in W
  BY <1>1
<1> HIDE DEF W
<1>9. CASE ~ Owing(e)'
  BY <1>2, <1>3, <1>4, <1>5, <1>6, <1>9
<1>10. CASE Owing(e)' /\ Owing(e)
  BY <1>2, <1>3, <1>4, <1>5, <1>6, <1>7, <1>8, <1>10
<1>11. CASE Owing(e)' /\ ~ Owing(e)
  <2>1. owner \notin Doing({"create", "send"}, e)
        /\ (e \in processed \/ owner \in Doing({"mark_sent", "mark_failed", "mark"}, e))
    BY <1>11 DEF Owing
  <2>2. CASE owner' \in Doing({"create", "send"}, e)
    <3>1. owner' \in W /\ owner' \in W'
      BY <1>4, <1>8, <2>2
    <3>2. Cardinality(Others(e)') <= Cardinality(Others(e))
      BY <1>2, <1>3, <3>1
    <3>3. Cardinality(Others(e)') < Cardinality(Others(e)) \/ owner \in W
      BY <1>2, <1>3, <3>1
    <3>4. QED
      BY <1>3, <1>5, <1>6, <1>11, <3>2, <3>3, <1>4
  <2>3. CASE e \notin processed /\ owner' \notin Doing({"mark_sent", "mark_failed", "mark"}, e)
    <3>1. owner \notin W /\ pc[owner] # "dead"
      BY <1>4, <2>1, <2>3
    <3>2. QED
      BY <1>2, <1>3, <1>5, <1>6, <1>11, <3>1
  <2>4. QED
    BY <1>7, <1>11, <2>2, <2>3
<1>12. QED
  BY <1>9, <1>10, <1>11
LEMMA MailStep ==
    TypeOK /\ TaskInv /\ RowsInv /\ MailInv /\ [Next]_vars => MailInv'
<1> SUFFICES ASSUME TypeOK, TaskInv, RowsInv, MailInv, [Next]_vars
             PROVE  MailInv'
  OBVIOUS
<1>0. TypeOK' /\ StoreGrows /\ TaskTyped /\ owner \in Replicas
      /\ sent \in [EventIds -> Nat] /\ failures \in Nat
  BY TypeStep, TypeParts, AttemptsAssumption DEF GroupTyped, StoreTyped
<1> DEFINE Bounded(e) == sent[e] + Cardinality(Others(e)) <= failures + (IF Owing(e) THEN 0 ELSE 1)
           Landed(e) == Doing({"mark_sent", "mark_failed", "mark"}, e)
           Sending(e) == Doing({"create", "send"}, e)
\* A step without a mail and without a failure is a matter of labels.
<1>1. ASSUME UNCHANGED <<owner, sent, failures>>, NEW r \in Replicas, NEW l, NEW m, NEW n,
             TaskMoves(r, l, m, n), NEW e \in EventIds,
             r # owner => (r \in Doing(MayStillSend, e)' => r \in Doing(MayStillSend, e)),
             r = owner => (Owing(e)' => Owing(e))
      PROVE  Bounded(e)'
  <2>1. sent'[e] = sent[e] /\ failures' = failures /\ owner' = owner
    BY <1>1
  <2>2. CASE r # owner
    BY <1>0, <1>1, <2>1, <2>2, MailOther
  <2>3. CASE r = owner
    BY <1>0, <1>1, <2>1, <2>3, MailOwner
  <2>4. QED
    BY <2>2, <2>3
\* A step that fails without a mail may do anything to its task.
<1>2. ASSUME UNCHANGED <<owner, sent>>, failures' = failures + 1, NEW r \in Replicas,
             NEW l, NEW m, NEW n, TaskMoves(r, l, m, n), NEW e \in EventIds
      PROVE  Bounded(e)'
  <2>1. sent'[e] = sent[e] /\ owner' = owner
    BY <1>2
  <2>2. CASE r # owner
    BY <1>0, <1>2, <2>1, <2>2, MailOther
  <2>3. CASE r = owner
    BY <1>0, <1>2, <2>1, <2>3, MailOwner
  <2>4. QED
    BY <2>2, <2>3
\* A task that is neither sending nor done with sending, before and after, owes what
\* it owed.
<1>3. ASSUME owner' = owner, NEW e \in EventIds, processed' = processed, owner \notin Landed(e),
             owner \in Sending(e)' => e \notin processed
      PROVE  Owing(e)' => Owing(e)
  BY <1>3 DEF Owing
<1>4. ASSUME NEW r \in Replicas, Fetch(r), NEW e \in EventIds
      PROVE  Bounded(e)'
  <2>1. PICK l \in {"dlq", "handle"} : \E m : TaskMoves(r, l, m, 0)
    BY <1>4 DEF Fetch, Goto, TaskMoves
  <2>2. r = owner /\ UNCHANGED <<owner, sent, failures, processed>> /\ pc[r] = "idle"
    BY <1>4 DEF Fetch, dataVars
  <2>3. r \notin Landed(e)
    BY <2>2 DEF Doing
  <2>4. r \notin Sending(e)'
    BY <1>0, <2>1, DoingMoves
  <2>5. Owing(e)' => Owing(e)
    BY <1>3, <2>2, <2>3, <2>4
  <2>6. QED
    BY <1>1, <2>1, <2>2, <2>5
<1>5. ASSUME NEW r \in Replicas, Handle(r), NEW e \in EventIds
      PROVE  Bounded(e)'
  <2>1. PICK l \in {"create", "commit"} :
            /\ TaskMoves(r, l, at[r], attempt[r])
            /\ l = "create" => Topic[at[r]].type = "relevant" /\ Id(r) \notin processed
    <3>1. at' = [at EXCEPT ![r] = at[r]] /\ attempt' = [attempt EXCEPT ![r] = attempt[r]]
      BY <1>0, <1>5 DEF Handle, TaskTyped
    <3>2. QED
      BY <1>5, <3>1 DEF Handle, Goto, TaskMoves
  <2>2. UNCHANGED <<owner, sent, failures, processed>> /\ pc[r] = "handle"
    BY <1>5 DEF Handle, dataVars, groupVars
  <2>3. r \notin Landed(e)
    BY <2>2 DEF Doing
  <2>4. /\ r \in Sending(e)' <=> (l \in {"create", "send"} /\ Topic[at[r]].type = "relevant" /\ Id(r) = e)
        /\ r \in Doing(MayStillSend, e)'
             <=> (l \in MayStillSend /\ Topic[at[r]].type = "relevant" /\ Id(r) = e)
    BY <1>0, <2>1, DoingMoves DEF Id
  <2>5. r \in Doing(MayStillSend, e)' => r \in Doing(MayStillSend, e)
    BY <2>2, <2>4 DEF Doing, MayStillSend
  <2>6. r = owner => (Owing(e)' => Owing(e))
    BY <1>3, <2>1, <2>2, <2>3, <2>4
  <2>7. QED
    BY <1>1, <2>1, <2>2, <2>5, <2>6
<1>6. ASSUME NEW r \in Replicas, HandleUnusable(r), NEW e \in EventIds
      PROVE  Bounded(e)'
  <2>1. PICK l \in {"handle", "dlq"} : \E n : TaskMoves(r, l, at[r], n)
    <3>1. at' = [at EXCEPT ![r] = at[r]]
      BY <1>0, <1>6 DEF HandleUnusable, TaskTyped
    <3>2. QED
      BY <1>6, <3>1 DEF HandleUnusable, Retry, Goto, TaskMoves
  <2>2. UNCHANGED <<owner, sent, failures, processed>> /\ pc[r] = "handle"
        /\ Topic[at[r]].type # "relevant"
    BY <1>6 DEF HandleUnusable, dataVars, groupVars
  <2>3. r \notin Landed(e)
    BY <2>2 DEF Doing
  <2>4. r \notin Sending(e)' /\ r \notin Doing(MayStillSend, e)'
    BY <1>0, <2>1, <2>2, DoingMoves
  <2>5. r = owner => (Owing(e)' => Owing(e))
    BY <1>3, <2>2, <2>3, <2>4
  <2>6. QED
    BY <1>1, <2>1, <2>2, <2>4, <2>5
<1>7. ASSUME NEW r \in Replicas, HandleFatal(r) \/ SendToDLQ(r) \/ Commit(r), NEW e \in EventIds
      PROVE  Bounded(e)'
  <2>1. PICK l \in {"commit", "idle", "dead"} : \E m, n : TaskMoves(r, l, m, n)
    <3>1. at = [at EXCEPT ![r] = at[r]] /\ attempt = [attempt EXCEPT ![r] = attempt[r]]
      BY <1>0 DEF TaskTyped
    <3>2. CASE HandleFatal(r) \/ Commit(r)
      BY <3>2 DEF HandleFatal, Commit, Drop, Goto, TaskMoves
    <3>3. CASE SendToDLQ(r)
      BY <3>1, <3>3 DEF SendToDLQ, Drop, Goto, TaskMoves
    <3>4. QED
      BY <1>7, <3>2, <3>3
  <2>2. UNCHANGED <<owner, sent, processed>> /\ pc[r] \in {"handle", "dlq", "commit"}
        /\ failures' \in {failures, failures + 1}
    BY <1>7 DEF HandleFatal, SendToDLQ, Commit, Failing, dataVars, groupVars
  <2>3. r \notin Landed(e)
    BY <2>2 DEF Doing
  <2>4. r \notin Sending(e)' /\ r \notin Doing(MayStillSend, e)'
    BY <1>0, <2>1, DoingMoves DEF MayStillSend
  <2>5. r = owner => (Owing(e)' => Owing(e))
    BY <1>3, <2>2, <2>3, <2>4
  <2>6. CASE failures' = failures
    BY <1>1, <2>1, <2>2, <2>4, <2>5, <2>6
  <2>7. CASE failures' = failures + 1
    BY <1>2, <2>1, <2>2, <2>7
  <2>8. QED
    BY <2>2, <2>6, <2>7
<1>8. ASSUME NEW r \in Replicas, Execute(r), NEW e \in EventIds
      PROVE  Bounded(e)'
  <2> DEFINE l == Following[pc[r]]
  <2>1. TaskMoves(r, l, at[r], attempt[r]) /\ UNCHANGED <<owner, sent, failures>>
        /\ pc[r] \in {"create", "mark_sent", "mark_failed", "mark"}
        /\ Topic[at[r]].type = "relevant"
        /\ processed' = IF pc[r] = "mark" THEN processed \cup {Id(r)} ELSE processed
    <3>1. pc[r] \in {"create", "mark_sent", "mark_failed", "mark"}
      BY <1>8 DEF Execute, Statement
    <3>2. Topic[at[r]].type = "relevant"
      BY <3>1 DEF TaskInv, Handling, Following
    <3>3. TaskMoves(r, l, at[r], attempt[r])
      BY <1>0, <1>8 DEF Execute, TaskMoves, TaskTyped, Goto
    <3>4. QED
      BY <1>8, <3>1, <3>2, <3>3 DEF Execute, Statement, create_notification, mark_sent, mark_failed,
                                    mark_event_processed, groupVars
  <2>2. /\ pc[r] = "create" => l = "send"
        /\ pc[r] \in {"mark_sent", "mark_failed"} => l = "mark"
        /\ pc[r] = "mark" => l = "commit"
    BY DEF Following
  <2> HIDE DEF l
  <2>3. /\ r \in Sending(e)' <=> (l \in {"create", "send"} /\ Topic[at[r]].type = "relevant" /\ Id(r) = e)
        /\ r \in Landed(e)'
             <=> (l \in {"mark_sent", "mark_failed", "mark"} /\ Topic[at[r]].type = "relevant" /\ Id(r) = e)
        /\ r \in Doing(MayStillSend, e)'
             <=> (l \in MayStillSend /\ Topic[at[r]].type = "relevant" /\ Id(r) = e)
    BY <1>0, <2>1, DoingMoves DEF Id
  <2>4. /\ r \in Sending(e) <=> (pc[r] \in {"create", "send"} /\ Id(r) = e)
        /\ r \in Landed(e) <=> (pc[r] \in {"mark_sent", "mark_failed", "mark"} /\ Id(r) = e)
        /\ r \in Doing(MayStillSend, e) <=> (pc[r] \in MayStillSend /\ Id(r) = e)
    BY <2>1 DEF Doing
  <2>5. r \in Doing(MayStillSend, e)' => r \in Doing(MayStillSend, e)
    BY <2>1, <2>2, <2>3, <2>4 DEF MayStillSend
  <2>6. /\ Owing(e) <=> owner \in Sending(e) \/ (e \notin processed /\ owner \notin Landed(e))
        /\ Owing(e)' <=> owner' \in Sending(e)' \/ (e \notin processed' /\ owner' \notin Landed(e)')
    BY DEF Owing
  <2>7. ASSUME r = owner
        PROVE  Owing(e)' => Owing(e)
    <3>1. owner' = r
      BY <2>1, <2>7
    <3> HIDE DEF Sending, Landed
    <3>2. QED
      BY <2>1, <2>2, <2>3, <2>4, <2>6, <2>7, <3>1
  <2>8. QED
    BY <1>1, <2>1, <2>5, <2>7
<1>9. ASSUME NEW r \in Replicas, Send(r), NEW e \in EventIds
      PROVE  Bounded(e)'
  <2>1. /\ UNCHANGED <<owner, processed>> /\ pc[r] = "send" /\ Topic[at[r]].type = "relevant"
        /\ at[r] # 0
    BY <1>0, <1>9 DEF Send, groupVars, TaskInv, Handling, Following, TaskTyped
  <2>2. Id(r) \in EventIds
    BY <2>1, AtHandTyped
  <2>3. PICK l \in {"mark_sent", "mark_failed"} : TaskMoves(r, l, at[r], attempt[r])
    BY <1>0, <1>9 DEF Send, Goto, TaskMoves, TaskTyped
  <2>4. /\ r \notin Sending(e)'
        /\ r \in Landed(e)' <=> Id(r) = e
        /\ r \notin Doing(MayStillSend, e)'
    <3>1. /\ r \in Sending(e)' <=> (l \in {"create", "send"} /\ Topic[at[r]].type = "relevant" /\ Id(r) = e)
          /\ r \in Landed(e)'
               <=> (l \in {"mark_sent", "mark_failed", "mark"} /\ Topic[at[r]].type = "relevant" /\ Id(r) = e)
          /\ r \in Doing(MayStillSend, e)'
               <=> (l \in MayStillSend /\ Topic[at[r]].type = "relevant" /\ Id(r) = e)
      BY <1>0, <2>3, DoingMoves DEF Id
    <3>2. QED
      BY <2>1, <3>1 DEF MayStillSend
  <2>5. /\ r \in Sending(e) <=> Id(r) = e
        /\ r \notin Landed(e)
        /\ r \in Doing(MayStillSend, e) <=> Id(r) = e
    BY <2>1 DEF Doing, MayStillSend
  <2>6. /\ Owing(e) <=> owner \in Sending(e) \/ (e \notin processed /\ owner \notin Landed(e))
        /\ Owing(e)' <=> owner' \in Sending(e)' \/ (e \notin processed' /\ owner' \notin Landed(e)')
    BY DEF Owing
  <2>7. /\ r = owner /\ Id(r) = e => Owing(e) /\ ~ Owing(e)'
        /\ r = owner /\ Id(r) # e => (Owing(e)' => Owing(e))
    <3>1. owner' = owner /\ processed' = processed
      BY <2>1
    <3> HIDE DEF Sending, Landed
    <3>2. QED
      BY <2>4, <2>5, <2>6, <3>1
  <2>8. /\ failures' \in {failures, failures + 1}
        /\ failures' = failures => sent' = [sent EXCEPT ![Id(r)] = @ + 1]
        /\ sent' \in {sent, [sent EXCEPT ![Id(r)] = @ + 1]}
    BY <1>0, <1>9 DEF Send, Failing
  <2>9. CASE Id(r) = e
    <3>1. /\ sent'[e] \in {sent[e], sent[e] + 1}
          /\ failures' = failures => sent'[e] = sent[e] + 1
      BY <1>0, <2>2, <2>8, <2>9
    <3>2. CASE r # owner
      <4>1. \/ failures' = failures + 1 /\ sent'[e] = sent[e]
            \/ failures' \in {failures, failures + 1} /\ sent'[e] = sent[e] + 1
                 /\ r \in Doing(MayStillSend, e) /\ r \notin Doing(MayStillSend, e)'
        BY <1>0, <2>4, <2>5, <2>8, <2>9, <3>1
      <4>2. owner' = owner
        BY <2>1
      <4>3. QED
        BY <1>0, <2>3, <3>2, <4>1, <4>2, MailOther
    <3>3. CASE r = owner
      <4>1. \/ failures' = failures + 1
                 /\ (sent'[e] = sent[e] \/ (sent'[e] = sent[e] + 1 /\ Owing(e)))
            \/ failures' = failures /\ sent'[e] = sent[e] + 1 /\ Owing(e) /\ ~ Owing(e)'
        BY <1>0, <2>7, <2>8, <2>9, <3>1, <3>3
      <4>2. owner' = owner /\ TaskMoves(owner, l, at[r], attempt[r])
        BY <2>1, <2>3, <3>3
      <4>3. QED
        BY <1>0, <4>1, <4>2, MailOwner
    <3>4. QED
      BY <3>2, <3>3
  <2>10. CASE Id(r) # e
    <3>1. sent'[e] = sent[e]
      BY <1>0, <2>2, <2>8, <2>10
    <3>2. owner' = owner
      BY <2>1
    <3>3. CASE r # owner
      BY <1>0, <2>3, <2>4, <2>8, <3>1, <3>2, <3>3, MailOther
    <3>4. CASE r = owner
      <4>1. TaskMoves(owner, l, at[r], attempt[r])
        BY <2>3, <3>4
      <4>2. \/ failures' = failures + 1 /\ sent'[e] = sent[e]
            \/ failures' = failures /\ sent'[e] = sent[e] /\ (Owing(e)' => Owing(e))
        BY <2>7, <2>8, <2>10, <3>1, <3>4
      <4>3. QED
        BY <1>0, <3>2, <4>1, <4>2, MailOwner
    <3>5. QED
      BY <3>3, <3>4
  <2>11. QED
    BY <2>9, <2>10
<1>10. ASSUME NEW r \in Replicas, Raise(r) \/ Restart(r), NEW e \in EventIds
       PROVE  Bounded(e)'
  <2>1. PICK l, m, n : TaskMoves(r, l, m, n)
    <3>1. CASE Raise(r)
      <4>1. at' = [at EXCEPT ![r] = at[r]]
        BY <1>0, <3>1 DEF Raise, TaskTyped
      <4>2. QED
        BY <3>1, <4>1 DEF Raise, Retry, Goto, TaskMoves
    <3>2. CASE Restart(r)
      BY <3>2 DEF Restart, Drop, Goto, TaskMoves
    <3>3. QED
      BY <1>10, <3>1, <3>2
  <2>2. UNCHANGED <<owner, sent>> /\ failures' = failures + 1
    BY <1>10 DEF Raise, Restart, Failing, groupVars, dataVars
  <2>3. QED
    BY <1>2, <2>1, <2>2
<1>11. ASSUME NEW r \in Replicas, TakeOver(r) \/ Rebalance(r)
       PROVE  MailInv'
  BY <1>0, <1>11, MailHandedOver DEF TakeOver, Rebalance, Failing, dataVars
<1>12. CASE UNCHANGED vars
  <2>1. \A ls, e : Doing(ls, e)' = Doing(ls, e)
    BY <1>12 DEF vars, taskVars, Doing, Id
  <2>2. \A e : Others(e)' = Others(e) /\ (Owing(e)' <=> Owing(e))
    BY <1>12, <2>1 DEF vars, groupVars, dataVars, Others, Owing
  <2>3. QED
    BY <1>12, <2>2 DEF vars, dataVars, MailInv
<1>13. ASSUME \A e \in EventIds : Bounded(e)'
       PROVE  MailInv'
  BY <1>13 DEF MailInv
<1>14. QED
  BY <1>4, <1>5, <1>6, <1>7, <1>8, <1>9, <1>10, <1>11, <1>12, <1>13 DEF Next, Task

----------------------------------------------------------------------------
\* The theorems

IInv == TypeOK /\ TaskInv /\ RowsInv /\ OffsetInv /\ MailInv

LEMMA InvInit == Init => IInv
<1> SUFFICES ASSUME Init
             PROVE  IInv
  OBVIOUS
<1>1. TypeOK /\ TaskInv
  BY TypeInit
<1>2. \A e, ls : "idle" \notin ls => Doing(ls, e) = {}
  BY DEF Init, Doing
<1>3. \A e : Cardinality(Doing({"send", "mark_sent", "mark_failed"}, e)) = 0
             /\ Cardinality(Doing({"mark_sent"}, e)) = 0 /\ Cardinality(Others(e)) = 0
  BY <1>2, FS_EmptySet DEF Others
<1>4. RowsInv
  BY <1>3 DEF Init, RowsInv
<1>5. MailInv
  <2>1. \A e \in EventIds : sent[e] = 0 /\ failures = 0 /\ Owing(e)
    BY <1>2 DEF Init, Owing
  <2>2. QED
    BY <1>3, <2>1 DEF MailInv
<1>6. OffsetInv
  <2>1. Messages \subseteq Nat \ {0}
    BY TopicAssumption, LenProperties DEF Messages
  <2>2. QED
    BY <2>1 DEF Init, OffsetInv
<1>7. QED
  BY <1>1, <1>4, <1>5, <1>6 DEF IInv

LEMMA InvStep == IInv /\ [Next]_vars => IInv'
  BY TypeStep, RowsStep, OffsetStep, MailStep DEF IInv

\* The types hold in every behaviour: no statement finds a row it needs missing, and no
\* task makes more than MAX_ATTEMPTS attempts at a message.
THEOREM SpecTypeOK == Spec => []TypeOK
<1>1. IInv => TypeOK
  BY DEF IInv
<1>2. QED
  BY <1>1, InvInit, InvStep, PTL DEF Spec

\* An offset is committed only behind a message that was handled or is in the DLQ, and
\* passes no other than one that a reader missed for want of a committed offset
\* (consumer.py:80-87 leaves auto_offset_reset at "latest").
THEOREM SpecOffsetWaits == Spec => []OffsetWaits
<1>1. IInv => OffsetWaits
  BY DEF IInv, OffsetInv, OffsetWaits, Done
<1>2. QED
  BY <1>1, InvInit, InvStep, PTL DEF Spec

\* What the store says of an event is true, and a customer gets one mail for it, and one
\* more for each failure at most.
THEOREM SpecCustomersAreTold == Spec => []CustomersAreTold
<1>1. IInv => CustomersAreTold
  <2> SUFFICES ASSUME IInv, NEW e \in EventIds
               PROVE  /\ e \in processed => rows[e].sent + rows[e].failed > 0
                      /\ rows[e].sent <= sent[e]
                      /\ sent[e] <= 1 + failures
    BY DEF CustomersAreTold
  <2>1. /\ rows[e].sent \in Nat /\ sent[e] \in Nat /\ failures \in Nat
        /\ Cardinality(Doing({"mark_sent"}, e)) \in Nat
    BY TypeParts, DoingFinite, AttemptsAssumption DEF IInv, StoreTyped, RowTyped, GroupTyped
  <2>2. rows[e].sent + Cardinality(Doing({"mark_sent"}, e)) <= sent[e]
    BY DEF IInv, RowsInv
  <2>3. sent[e] + Cardinality(Others(e)) <= failures + 1 /\ Cardinality(Others(e)) \in Nat
    BY MailBound DEF IInv
  <2>4. e \in processed => rows[e].sent + rows[e].failed > 0
    BY DEF IInv, TaskInv
  <2>5. QED
    BY <2>1, <2>2, <2>3, <2>4
<1>2. QED
  BY <1>1, InvInit, InvStep, PTL DEF Spec
=============================================================================
