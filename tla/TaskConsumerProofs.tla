-------------------------- MODULE TaskConsumerProofs --------------------------
(***************************************************************************)
(* What the task framework guarantees whatever the processor does, for     *)
(* any number of entities, consumers, rows, copies and faults: its types,  *)
(* and the row locks a task runs under.                                    *)
(***************************************************************************)
EXTENDS TaskConsumer, FiniteSetTheorems, WellFoundedInduction, TLAPS

-----------------------------------------------------------------------------
(* Lemmas about the table.                                                 *)

\* A row appended to the table has the next row_id, and moves no other row.
LEMMA AppendRow ==
    ASSUME rows \in Seq(Row), NEW r \in Row
    PROVE  /\ Append(rows, r) \in Seq(Row)
           /\ Len(Append(rows, r)) = Len(rows) + 1
           /\ Append(rows, r)[Len(rows) + 1] = r
           /\ \A i \in RowIds : Append(rows, r)[i] = rows[i]
    BY DEF RowIds

\* Marking a row as processed changes nothing but its status.
LEMMA MarkRow ==
    ASSUME rows \in Seq(Row), NEW i
    PROVE  /\ MarkProcessed(i) \in Seq(Row)
           /\ Len(MarkProcessed(i)) = Len(rows)
           /\ \A j \in RowIds :
                 /\ MarkProcessed(i)[j].entity_id = rows[j].entity_id
                 /\ j # i => MarkProcessed(i)[j] = rows[j]
                 /\ j = i => MarkProcessed(i)[j].status = "processed"
<1>1. \A j \in RowIds : rows[j] \in Row
  BY DEF RowIds
<1>2. \A r \in Row : [r EXCEPT !.status = "processed"] \in Row
  BY DEF Row, Status
<1>3. DOMAIN rows = RowIds
  BY DEF RowIds
<1>4. MarkProcessed(i) =
        [j \in RowIds |-> IF j = i THEN [rows[j] EXCEPT !.status = "processed"] ELSE rows[j]]
  BY <1>3 DEF MarkProcessed
<1>5. MarkProcessed(i) \in [1..Len(rows) -> Row]
  BY <1>1, <1>2, <1>4 DEF RowIds
<1>6. MarkProcessed(i) \in Seq(Row) /\ Len(MarkProcessed(i)) = Len(rows)
  BY <1>5
<1> QED BY <1>1, <1>4, <1>6 DEF Row

-----------------------------------------------------------------------------
(* Type correctness of the framework.                                      *)

\* Counting one more of x keeps a function of counters one.
LEMMA CountOneMore ==
    ASSUME NEW S, NEW f \in [S -> Nat], NEW x
    PROVE  [f EXCEPT ![x] = @ + 1] \in [S -> Nat]
<1>1. CASE x \in S
  <2>1. f[x] + 1 \in Nat
    BY <1>1
  <2> QED BY <2>1
<1>2. CASE x \notin S
  <2>1. [f EXCEPT ![x] = @ + 1] = f
    BY <1>2
  <2> QED BY <2>1
<1> QED BY <1>1, <1>2

LEMMA TaskInitType == TaskInit => TaskTypeOK
<1> SUFFICES ASSUME TaskInit PROVE TaskTypeOK
  OBVIOUS
<1>1. rows \in Seq(Row) /\ Len(rows) <= MaxRows
  BY BoundsAssumption DEF TaskInit
<1>2. TableTypeOK
  BY <1>1 DEF TaskInit, TableTypeOK
<1>3. HandlerTypeOK
  BY DEF TaskInit, HandlerTypeOK, Handler
<1> QED BY <1>2, <1>3 DEF TaskTypeOK

\* An inserted row has the next row_id, within the bound.
LEMMA InsertRowType ==
    ASSUME TableTypeOK, NEW b \in EntityIds, InsertRow(b)
    PROVE  rows' \in Seq(Row) /\ Len(rows') <= MaxRows /\ Len(rows') = Len(rows) + 1 /\ Len(rows) + 1 \in RowId
<1>1. [entity_id |-> b, status |-> "not_processed"] \in Row
  BY DEF Row, Status
<1>2. rows' \in Seq(Row) /\ Len(rows') = Len(rows) + 1 /\ Len(rows) \in Nat
  BY <1>1, AppendRow DEF InsertRow, TableTypeOK
<1>3. Len(rows) < MaxRows /\ MaxRows \in Nat
  BY BoundsAssumption DEF InsertRow, CanInsert
<1>4. Len(rows) + 1 \in RowId
  BY <1>2, <1>3 DEF RowId
<1>5. Len(rows') <= MaxRows
  BY <1>2, <1>3
<1> QED BY <1>2, <1>4, <1>5

LEMMA InsertTaskType ==
    ASSUME TableTypeOK, NEW b \in EntityIds, InsertTask(b)
    PROVE  TableTypeOK'
<1>1. InsertRow(b)
  BY DEF InsertTask
<1>2. rows' \in Seq(Row) /\ Len(rows') <= MaxRows /\ Len(rows) + 1 \in RowId
  BY <1>1, InsertRowType
<1> QED BY <1>2 DEF InsertTask, TableTypeOK

LEMMA TableTypeStep ==
    ASSUME TaskTypeOK, TaskNext
    PROVE  TableTypeOK'
<1> USE DEF TaskTypeOK
<1>1. ASSUME NEW b \in EntityIds, SendFreshUid(b) PROVE TableTypeOK'
  BY <1>1, CountOneMore DEF SendFreshUid, TableTypeOK
<1>2. CASE ReadUnprocessed
  <2>1. Unprocessed \subseteq RowId
    BY BoundsAssumption DEF Unprocessed, RowIds, RowId, TableTypeOK
  <2> QED BY <1>2, <2>1 DEF ReadUnprocessed, TableTypeOK
<1>3. ASSUME NEW i \in outbox, SendTask(i) PROVE TableTypeOK'
  <2>1. queue' \in [Message -> Nat]
    BY <1>3, CountOneMore DEF SendTask, TableTypeOK
  <2> QED BY <1>3, <2>1 DEF SendTask, TableTypeOK
<1>4. CASE ListenerCrash
  BY <1>4, CountOneMore DEF ListenerCrash, Fault, TableTypeOK
<1>5. ASSUME NEW c \in Consumers, NEW m \in Message, Receive(c, m) PROVE TableTypeOK'
  BY <1>5 DEF Receive, TableTypeOK
<1>6. ASSUME NEW c \in Consumers, HandlerStep(c) \/ FinishTask(c) PROVE TableTypeOK'
  BY <1>6 DEF HandlerStep, IncreaseAttempts, SelectRows, LockRow, StartTask, SkipTask, Ack,
              FinishTask, TableTypeOK
<1>7. ASSUME NEW c \in Consumers, CommitTask(c) PROVE TableTypeOK'
  BY <1>7, MarkRow DEF CommitTask, TableTypeOK
<1>8. ASSUME NEW c \in Consumers, FailTask(c) PROVE TableTypeOK'
  BY <1>8, CountOneMore DEF FailTask, Fault, TableTypeOK
<1>9. ASSUME NEW c \in Consumers, ConsumerCrash(c) \/ LoseChannel(c) PROVE TableTypeOK'
  <2>1. Requeue(c) /\ rows' = rows /\ outbox' = outbox
    BY <1>9 DEF ConsumerCrash, LoseChannel
  <2>2. faults' \in [FaultKind -> Nat]
    BY <1>9, CountOneMore DEF ConsumerCrash, LoseChannel, Fault, TableTypeOK
  <2>3. queue' \in [Message -> Nat]
    BY <2>1, CountOneMore DEF Requeue, TableTypeOK
  <2> QED BY <2>1, <2>2, <2>3 DEF TableTypeOK
<1> QED
  BY InsertTaskType, <1>1, <1>2, <1>3, <1>4, <1>5, <1>6, <1>7, <1>8, <1>9
  DEF TaskNext, ListenerStep

LEMMA HandlerTypeStep ==
    ASSUME TaskTypeOK, TaskNext
    PROVE  HandlerTypeOK'
<1> USE DEF TaskTypeOK
<1>1. CASE ListenerStep
  BY <1>1 DEF ListenerStep, InsertTask, SendFreshUid, ReadUnprocessed, SendTask, ListenerCrash,
              consumerVars, HandlerTypeOK
<1>2. ASSUME NEW c \in Consumers, NEW m \in Message, Receive(c, m) PROVE HandlerTypeOK'
  BY <1>2 DEF Receive, HandlerTypeOK, Handler
<1>3. ASSUME NEW c \in Consumers, HandlerStep(c) PROVE HandlerTypeOK'
  <2>1. CASE IncreaseAttempts(c)
    BY <2>1 DEF IncreaseAttempts, HandlerTypeOK, Handler
  <2>2. CASE SelectRows(c)
    <3>1. RowsToLock(msg[c].entity_id) \subseteq RowId
      BY BoundsAssumption DEF RowsToLock, Newest, RowsOf, RowIds, RowId, TableTypeOK
    <3> QED BY <2>2, <3>1 DEF SelectRows, HandlerTypeOK, Handler
  <2>3. CASE LockRow(c)
    <3>1. PICK i \in NextToLock(c) : held' = [held EXCEPT ![c] = @ \union {i}]
      BY <2>3 DEF LockRow
    <3>2. i \in RowId
      BY <3>1 DEF NextToLock, HandlerTypeOK
    <3> QED BY <2>3, <3>1, <3>2 DEF LockRow, HandlerTypeOK
  <2>4. CASE StartTask(c)
    BY <2>4 DEF StartTask, HandlerTypeOK, Handler
  <2>5. CASE SkipTask(c)
    BY <2>5 DEF SkipTask, ReleaseLocks, HandlerTypeOK, Handler
  <2>6. CASE Ack(c)
    BY <2>6 DEF Ack, HandlerTypeOK, Handler
  <2> QED BY <1>3, <2>1, <2>2, <2>3, <2>4, <2>5, <2>6 DEF HandlerStep
<1>4. ASSUME NEW c \in Consumers, FinishTask(c) PROVE HandlerTypeOK'
  BY <1>4 DEF FinishTask, HandlerTypeOK, Handler
<1>5. ASSUME NEW c \in Consumers, CommitTask(c) \/ FailTask(c) PROVE HandlerTypeOK'
  BY <1>5 DEF CommitTask, FailTask, ReleaseLocks, HandlerTypeOK, Handler
<1>6. ASSUME NEW c \in Consumers, ConsumerCrash(c) PROVE HandlerTypeOK'
  BY <1>6 DEF ConsumerCrash, ReleaseLocks, HandlerTypeOK, Handler
<1>7. ASSUME NEW c \in Consumers, LoseChannel(c) PROVE HandlerTypeOK'
  BY <1>7 DEF LoseChannel, HandlerTypeOK
<1> QED BY <1>1, <1>2, <1>3, <1>4, <1>5, <1>6, <1>7 DEF TaskNext

\* The framework's variables keep their types, whatever step is taken.
LEMMA TaskTypeStep ==
    ASSUME TaskTypeOK, [TaskNext]_taskVars
    PROVE  TaskTypeOK'
<1>1. CASE TaskNext
  BY <1>1, TableTypeStep, HandlerTypeStep DEF TaskTypeOK
<1>2. CASE UNCHANGED taskVars
  BY <1>2 DEF taskVars, consumerVars, TaskTypeOK, TableTypeOK, HandlerTypeOK
<1> QED BY <1>1, <1>2

-----------------------------------------------------------------------------
(***************************************************************************)
(* The lock invariant.  A handler whose SELECT found the rows of its block *)
(* found every row older than any it found: the rows of a block only grow  *)
(* at the new end, and the limit is not reached.  So two handlers with     *)
(* rows of one block both have its oldest of the two newest they found,    *)
(* and cannot both have locked everything they found.                      *)
(***************************************************************************)
Running == {"run", "done"}

RowsBounded == \A b \in EntityIds : Cardinality(RowsOf(b)) <= MaxRowsPerId

Locking == {"lock", "run", "done"}

FoundFromTheOldest ==
    \A c \in Consumers, b \in EntityIds : pc[c] \in Locking /\ msg[c].entity_id = b =>
        \A i \in snap[c] :
            /\ i \in RowsOf(b)
            /\ \A j \in RowsOf(b) : j < i => j \in snap[c]

LocksOnlyWhatIsFound ==
    \A c \in Consumers :
        /\ held[c] \subseteq snap[c]
        /\ pc[c] \notin Locking => held[c] = {}
        /\ pc[c] \in Running => /\ held[c] = snap[c]
                                /\ msg[c].collect_uid \in snap[c]

LocksExclusive ==
    \A c, d \in Consumers : c # d => held[c] \intersect held[d] = {}

LocksNewestFirst ==
    \A c \in Consumers : \A i \in held[c], j \in snap[c] : j > i => j \in held[c]

LockInv ==
    /\ RowsBounded
    /\ FoundFromTheOldest
    /\ LocksOnlyWhatIsFound
    /\ LocksExclusive
    /\ LocksNewestFirst

LEMMA RowsOfFinite ==
    ASSUME TableTypeOK, NEW b
    PROVE  IsFiniteSet(RowsOf(b)) /\ Cardinality(RowsOf(b)) \in Nat
<1>1. Len(rows) \in Nat
  BY DEF TableTypeOK
<1>2. IsFiniteSet(RowIds)
  BY <1>1, FS_Interval DEF RowIds
<1>3. RowsOf(b) \subseteq RowIds
  BY DEF RowsOf
<1> QED BY <1>2, <1>3, FS_Subset, FS_CardinalityType

\* With no more rows than the limit, readTaskAndLockRow locks them all.
LEMMA EveryRowIsLocked ==
    ASSUME TableTypeOK, RowsBounded, NEW b \in EntityIds
    PROVE  RowsToLock(b) = RowsOf(b)
<1> SUFFICES ASSUME NEW i \in RowsOf(b)
             PROVE  Cardinality({j \in RowsOf(b) : j > i}) < LockLimit
  BY DEF RowsToLock, Newest
<1> DEFINE Newer == {j \in RowsOf(b) : j > i}
<1>1. i \in Nat
  BY DEF RowsOf, RowIds
<1>2. IsFiniteSet(RowsOf(b)) /\ Cardinality(RowsOf(b)) \in Nat
  BY RowsOfFinite
<1>3. Newer \subseteq RowsOf(b) \ {i}
  BY <1>1
<1>4. IsFiniteSet(RowsOf(b) \ {i}) /\ Cardinality(RowsOf(b) \ {i}) = Cardinality(RowsOf(b)) - 1
  BY <1>2, FS_RemoveElement
<1>5. Cardinality(Newer) \in Nat /\ Cardinality(Newer) <= Cardinality(RowsOf(b)) - 1
  BY <1>3, <1>4, FS_Subset, FS_CardinalityType
<1>6. Cardinality(RowsOf(b)) <= MaxRowsPerId
  BY DEF RowsBounded
<1> HIDE DEF Newer
<1>7. Cardinality(Newer) < LockLimit
  BY <1>2, <1>5, <1>6, LockLimitAssumption
<1> QED BY <1>7 DEF Newer

\* An inserted row joins the rows of its entity, and no other's.
LEMMA InsertedRow ==
    ASSUME TableTypeOK, NEW b \in EntityIds, InsertRow(b)
    PROVE  /\ RowsOf(b)' = RowsOf(b) \union {Len(rows) + 1}
           /\ \A a \in EntityIds \ {b} : RowsOf(a)' = RowsOf(a)
           /\ \A a \in EntityIds : \A j \in RowsOf(a) : j < Len(rows) + 1
           /\ RowIds' = RowIds \union {Len(rows) + 1}
           /\ \A j \in RowIds : rows'[j] = rows[j]
           /\ rows'[Len(rows) + 1] = [entity_id |-> b, status |-> "not_processed"]
<1> DEFINE r == [entity_id |-> b, status |-> "not_processed"]
<1>1. r \in Row
  BY DEF Row, Status
<1>2. rows' = Append(rows, r) /\ rows \in Seq(Row) /\ Len(rows) \in Nat
  BY DEF InsertRow, TableTypeOK
<1>3. /\ Len(rows') = Len(rows) + 1
      /\ rows'[Len(rows) + 1] = r
      /\ \A i \in RowIds : rows'[i] = rows[i]
  BY <1>1, <1>2, AppendRow
<1>4. RowIds' = RowIds \union {Len(rows) + 1} /\ Len(rows) + 1 \notin RowIds
  BY <1>2, <1>3 DEF RowIds
<1>5. \A a : RowsOf(a)' = {i \in RowIds \union {Len(rows) + 1} : rows'[i].entity_id = a}
  BY <1>4 DEF RowsOf
<1>9. rows'[Len(rows) + 1].entity_id = b
  BY <1>3
<1> HIDE DEF r
<1>6. RowsOf(b)' = RowsOf(b) \union {Len(rows) + 1}
  <2>1. \A i \in RowIds : rows'[i].entity_id = rows[i].entity_id
    BY <1>3
  <2> QED BY <1>5, <1>9, <2>1, Zenon DEF RowsOf
<1>7. \A a \in EntityIds \ {b} : RowsOf(a)' = RowsOf(a)
  BY <1>3, <1>5, <1>9 DEF RowsOf
<1>8. \A a \in EntityIds : \A j \in RowsOf(a) : j < Len(rows) + 1
  BY <1>2 DEF RowsOf, RowIds
<1> QED BY <1>3, <1>4, <1>6, <1>7, <1>8 DEF r

\* A processed row stays with its entity.
LEMMA MarkedRow ==
    ASSUME TableTypeOK, NEW c \in Consumers, CommitTask(c)
    PROVE  /\ \A a : RowsOf(a)' = RowsOf(a)
           /\ RowIds' = RowIds
           /\ \A j \in RowIds : /\ rows'[j].entity_id = rows[j].entity_id
                                /\ j # msg[c].collect_uid => rows'[j] = rows[j]
<1>1. /\ Len(rows') = Len(rows)
      /\ \A j \in RowIds : /\ rows'[j].entity_id = rows[j].entity_id
                           /\ j # msg[c].collect_uid => rows'[j] = rows[j]
  BY MarkRow DEF CommitTask, TableTypeOK
<1>2. RowIds' = RowIds
  BY <1>1 DEF RowIds
<1>3. ASSUME NEW a PROVE RowsOf(a)' = RowsOf(a)
  <2>1. RowsOf(a)' = {j \in RowIds : rows'[j].entity_id = a}
    BY <1>2 DEF RowsOf
  <2>2. {j \in RowIds : rows'[j].entity_id = a} = {j \in RowIds : rows[j].entity_id = a}
    <3>1. \A j \in RowIds : rows'[j].entity_id = a <=> rows[j].entity_id = a
      BY <1>1
    <3> QED BY <3>1, Zenon
  <2>3. RowsOf(a) = {j \in RowIds : rows[j].entity_id = a}
    BY DEF RowsOf
  <2> QED BY <2>1, <2>2, <2>3
<1> QED BY <1>1, <1>2, <1>3

LEMMA LockInvInit == TaskInit => LockInv
<1> SUFFICES ASSUME TaskInit PROVE LockInv
  OBVIOUS
<1>1. \A b : RowsOf(b) = {}
  BY DEF TaskInit, RowsOf, RowIds
<1>2. RowsBounded
  BY <1>1, FS_EmptySet, LockLimitAssumption DEF RowsBounded
<1>3. FoundFromTheOldest /\ LocksOnlyWhatIsFound /\ LocksExclusive /\ LocksNewestFirst
  BY DEF TaskInit, FoundFromTheOldest, LocksOnlyWhatIsFound, LocksExclusive, LocksNewestFirst,
         Running
<1> QED BY <1>2, <1>3 DEF LockInv

\* Inserting a row keeps the bound and the handlers' view of the older rows.
LEMMA InsertRowLocks ==
    ASSUME TaskTypeOK, LockInv, NEW b \in EntityIds, InsertRow(b), UNCHANGED <<pc, msg, snap, held>>
    PROVE  LockInv'
<1> USE DEF TaskTypeOK
<1>1. UNCHANGED <<pc, msg, snap, held>>
  OBVIOUS
<1>2. /\ RowsOf(b)' = RowsOf(b) \union {Len(rows) + 1}
      /\ \A a \in EntityIds \ {b} : RowsOf(a)' = RowsOf(a)
      /\ \A a \in EntityIds : \A j \in RowsOf(a) : j < Len(rows) + 1
  BY InsertedRow
<1>3. RowsBounded'
  <2>1. IsFiniteSet(RowsOf(b)) /\ Cardinality(RowsOf(b)) \in Nat
    BY RowsOfFinite
  <2>2. Cardinality(RowsOf(b)) < MaxRowsPerId /\ MaxRowsPerId \in Nat
    BY LockLimitAssumption DEF InsertRow, CanInsert
  <2>3. Len(rows) + 1 \notin RowsOf(b)
    BY DEF RowsOf, RowIds, TableTypeOK
  <2>4. Cardinality(RowsOf(b)') = Cardinality(RowsOf(b)) + 1
    <3>1. \A n : n \notin RowsOf(b) =>
             Cardinality(RowsOf(b) \union {n}) = Cardinality(RowsOf(b)) + 1
      BY <2>1, FS_AddElement
    <3>2. Cardinality(RowsOf(b) \union {Len(rows) + 1}) = Cardinality(RowsOf(b)) + 1
      BY <2>3, <3>1
    <3> QED BY <1>2, <3>2
  <2>5. Cardinality(RowsOf(b)') <= MaxRowsPerId
    BY <2>1, <2>2, <2>4
  <2>6. \A a \in EntityIds \ {b} : Cardinality(RowsOf(a)') <= MaxRowsPerId
    BY <1>2 DEF LockInv, RowsBounded
  <2> QED BY <2>5, <2>6 DEF RowsBounded
<1>4. FoundFromTheOldest'
  <2> SUFFICES ASSUME NEW c \in Consumers, NEW a \in EntityIds,
                      pc[c] \in Locking, msg[c].entity_id = a, NEW i \in snap[c]
               PROVE  /\ i \in RowsOf(a)'
                      /\ \A j \in RowsOf(a)' : j < i => j \in snap[c]
    BY <1>1 DEF FoundFromTheOldest
  <2>1. /\ i \in RowsOf(a)
        /\ \A j \in RowsOf(a) : j < i => j \in snap[c]
    BY DEF LockInv, FoundFromTheOldest
  <2>2. i \in Nat /\ Len(rows) \in Nat /\ i < Len(rows) + 1
    BY <1>2, <2>1 DEF RowsOf, RowIds, TableTypeOK
  <2>3. RowsOf(a)' \subseteq RowsOf(a) \union {Len(rows) + 1} /\ RowsOf(a) \subseteq RowsOf(a)'
    BY <1>2
  <2>4. ASSUME NEW j \in RowsOf(a)', j < i PROVE j \in snap[c]
    <3>1. ~ (Len(rows) + 1 < i)
      BY <2>2
    <3>2. j \in RowsOf(a)
      BY <2>3, <2>4, <3>1
    <3> QED BY <2>1, <2>4, <3>2
  <2> QED BY <2>1, <2>3, <2>4
<1>5. LocksOnlyWhatIsFound' /\ LocksExclusive' /\ LocksNewestFirst'
  BY <1>1 DEF LockInv, LocksOnlyWhatIsFound, LocksExclusive, LocksNewestFirst
<1> QED BY <1>3, <1>4, <1>5 DEF LockInv

\* Steps that touch neither rows nor locks.
LEMMA LocksUntouched ==
    ASSUME LockInv, UNCHANGED <<rows, pc, msg, snap, held>>
    PROVE  LockInv'
<1>1. \A a : RowsOf(a)' = RowsOf(a)
  BY DEF RowsOf, RowIds
<1> QED
  BY <1>1 DEF LockInv, RowsBounded, FoundFromTheOldest, LocksOnlyWhatIsFound, LocksExclusive,
              LocksNewestFirst

\* Steps of a handler that leave the rows with their entities, seen from the
\* other handlers: whatever they found stays all they need.
LEMMA OtherHandlers ==
    ASSUME LockInv, NEW c \in Consumers,
           \A a : RowsOf(a)' = RowsOf(a),
           \A d \in Consumers \ {c} : /\ pc'[d] = pc[d] /\ msg'[d] = msg[d]
                                      /\ snap'[d] = snap[d] /\ held'[d] = held[d],
           pc'[c] \in Locking =>
              \A b \in EntityIds : msg'[c].entity_id = b =>
                 \A i \in snap'[c] : /\ i \in RowsOf(b)
                                     /\ \A j \in RowsOf(b) : j < i => j \in snap'[c],
           held'[c] \subseteq snap'[c],
           \A i \in held'[c], j \in snap'[c] : j > i => j \in held'[c],
           pc'[c] \notin Locking => held'[c] = {},
           pc'[c] \in Running => held'[c] = snap'[c] /\ msg'[c].collect_uid \in snap'[c],
           \A d \in Consumers \ {c} : held'[c] \intersect held[d] = {}
    PROVE  LockInv'
<1>1. RowsBounded'
  BY DEF LockInv, RowsBounded
<1>2. FoundFromTheOldest'
  <2> SUFFICES ASSUME NEW d \in Consumers, NEW b \in EntityIds,
                      pc'[d] \in Locking, msg'[d].entity_id = b, NEW i \in snap'[d]
               PROVE  /\ i \in RowsOf(b)'
                      /\ \A j \in RowsOf(b)' : j < i => j \in snap'[d]
    BY DEF FoundFromTheOldest
  <2>1. CASE d = c
    BY <2>1
  <2>2. CASE d # c
    BY <2>2 DEF LockInv, FoundFromTheOldest
  <2> QED BY <2>1, <2>2
<1>3. LocksOnlyWhatIsFound'
  BY DEF LockInv, LocksOnlyWhatIsFound
<1>4. LocksExclusive'
  BY DEF LockInv, LocksExclusive
<1>5. LocksNewestFirst'
  BY DEF LockInv, LocksNewestFirst
<1> QED BY <1>1, <1>2, <1>3, <1>4, <1>5 DEF LockInv

LEMMA HandlerStepLocks ==
    ASSUME TaskTypeOK, LockInv, NEW c \in Consumers, HandlerStep(c) \/ FinishTask(c)
    PROVE  LockInv'
<1> USE DEF TaskTypeOK
<1>1. rows' = rows /\ \A a : RowsOf(a)' = RowsOf(a)
  <2>1. rows' = rows
    BY DEF HandlerStep, IncreaseAttempts, SelectRows, LockRow, StartTask, SkipTask, Ack, FinishTask
  <2> QED BY <2>1 DEF RowsOf, RowIds
<1>2. CASE IncreaseAttempts(c) \/ Ack(c)
  <2>1. held[c] = {}
    BY <1>2 DEF IncreaseAttempts, Ack, LockInv, LocksOnlyWhatIsFound, Locking
  <2>2. pc'[c] \notin Locking /\ pc'[c] \notin Running /\ held' = held /\ snap' = snap
    BY <1>2 DEF IncreaseAttempts, Ack, HandlerTypeOK, Locking, Running
  <2>3. \A d \in Consumers \ {c} : pc'[d] = pc[d] /\ msg'[d] = msg[d]
    BY <1>2 DEF IncreaseAttempts, Ack, HandlerTypeOK
  <2> QED BY <1>1, <2>1, <2>2, <2>3, OtherHandlers
<1>3. CASE SelectRows(c)
  <2>1. PICK b \in EntityIds : b = msg[c].entity_id
    BY <1>3 DEF SelectRows, HandlerTypeOK, Message
  <2>2. RowsToLock(b) = RowsOf(b)
    BY EveryRowIsLocked DEF LockInv
  <2>3. held[c] = {} /\ held' = held /\ msg' = msg
    BY <1>3 DEF SelectRows, LockInv, LocksOnlyWhatIsFound, Locking
  <2>4. pc'[c] = "lock" /\ snap'[c] = RowsOf(b)
    BY <1>3, <2>1, <2>2 DEF SelectRows, HandlerTypeOK
  <2>5. \A d \in Consumers \ {c} : pc'[d] = pc[d] /\ snap'[d] = snap[d]
    BY <1>3 DEF SelectRows, HandlerTypeOK
  <2>6. pc'[c] \in Locking /\ pc'[c] \notin Running
    BY <2>4 DEF Locking, Running
  <2> QED BY <1>1, <2>1, <2>3, <2>4, <2>5, <2>6, OtherHandlers
<1>4. CASE LockRow(c)
  <2>1. PICK i \in NextToLock(c) : /\ ~ LockedByOther(c, i)
                                   /\ held' = [held EXCEPT ![c] = @ \union {i}]
    BY <1>4 DEF LockRow
  <2>2. i \in snap[c] /\ held'[c] = held[c] \union {i}
    BY <2>1 DEF NextToLock, HandlerTypeOK
  <2>3. \A d \in Consumers \ {c} : held'[d] = held[d] /\ i \notin held[d]
    BY <2>1 DEF LockedByOther, HandlerTypeOK
  <2>4. pc[c] = "lock" /\ pc' = pc /\ msg' = msg /\ snap' = snap
    BY <1>4 DEF LockRow
  <2>5. pc'[c] \in Locking /\ pc'[c] \notin Running
    BY <2>4 DEF Locking, Running
  <2>6. held[c] \subseteq snap[c] /\ \A d \in Consumers \ {c} : held[c] \intersect held[d] = {}
    BY DEF LockInv, LocksOnlyWhatIsFound, LocksExclusive
  <2>7. \A b \in EntityIds : msg[c].entity_id = b =>
           \A k \in snap[c] : k \in RowsOf(b) /\ \A j \in RowsOf(b) : j < k => j \in snap[c]
    BY <2>4, <2>5 DEF LockInv, FoundFromTheOldest
  <2>8. \A k \in held'[c], j \in snap[c] : j > k => j \in held'[c]
    <3>1. \A j \in snap[c] \ held[c] : j <= i
      BY <2>1 DEF NextToLock, IsNewest
    <3>2. snap[c] \subseteq Nat
      BY DEF HandlerTypeOK, RowId
    <3>3. \A k \in held[c], j \in snap[c] : j > k => j \in held[c]
      BY DEF LockInv, LocksNewestFirst
    <3> QED BY <2>2, <3>1, <3>2, <3>3
  <2> QED BY <1>1, <2>2, <2>3, <2>4, <2>5, <2>6, <2>7, <2>8, OtherHandlers
<1>5. CASE StartTask(c) \/ FinishTask(c)
  <2>1. /\ pc[c] \in Locking /\ pc'[c] \in Locking
        /\ msg' = msg /\ snap' = snap /\ held' = held
        /\ \A d \in Consumers \ {c} : pc'[d] = pc[d]
    BY <1>5 DEF StartTask, FinishTask, HandlerTypeOK, Locking
  <2>2. held[c] = snap[c] /\ msg[c].collect_uid \in snap[c]
    BY <1>5 DEF StartTask, FinishTask, TaskIsCurrent, IsNewest, LockInv, LocksOnlyWhatIsFound,
                Running
  <2>3. \A d \in Consumers \ {c} : held[c] \intersect held[d] = {}
    BY DEF LockInv, LocksExclusive
  <2>4. \A b \in EntityIds : msg[c].entity_id = b =>
           \A k \in snap[c] : k \in RowsOf(b) /\ \A j \in RowsOf(b) : j < k => j \in snap[c]
    BY <2>1 DEF LockInv, FoundFromTheOldest
  <2> QED BY <1>1, <2>1, <2>2, <2>3, <2>4, OtherHandlers
<1>6. CASE SkipTask(c)
  <2>1. /\ pc'[c] \notin Locking /\ pc'[c] \notin Running
        /\ held'[c] = {} /\ snap'[c] = {} /\ msg' = msg
    BY <1>6 DEF SkipTask, ReleaseLocks, HandlerTypeOK, Locking, Running
  <2>2. \A d \in Consumers \ {c} : pc'[d] = pc[d] /\ snap'[d] = snap[d] /\ held'[d] = held[d]
    BY <1>6 DEF SkipTask, ReleaseLocks, HandlerTypeOK
  <2> QED BY <1>1, <2>1, <2>2, OtherHandlers
<1> QED BY <1>2, <1>3, <1>4, <1>5, <1>6 DEF HandlerStep

\* The end of a handler's transaction, for whatever reason, frees its rows.
LEMMA EndOfTransactionLocks ==
    ASSUME TaskTypeOK, LockInv, NEW c \in Consumers,
           CommitTask(c) \/ FailTask(c) \/ ConsumerCrash(c)
    PROVE  LockInv'
<1> USE DEF TaskTypeOK
<1>1. \A a : RowsOf(a)' = RowsOf(a)
  <2>1. CASE CommitTask(c)
    BY <2>1, MarkedRow
  <2>2. CASE FailTask(c) \/ ConsumerCrash(c)
    BY <2>2 DEF FailTask, ConsumerCrash, RowsOf, RowIds
  <2> QED BY <2>1, <2>2
<1>2. /\ pc'[c] \in {"ack", "idle"}
      /\ held'[c] = {} /\ snap'[c] = {}
      /\ \A d \in Consumers \ {c} : /\ pc'[d] = pc[d] /\ msg'[d] = msg[d]
                                    /\ snap'[d] = snap[d] /\ held'[d] = held[d]
  BY DEF CommitTask, FailTask, ConsumerCrash, ReleaseLocks, HandlerTypeOK
<1>3. pc'[c] \notin Locking /\ pc'[c] \notin Running
  BY <1>2 DEF Locking, Running
<1> QED BY <1>1, <1>2, <1>3, OtherHandlers

\* The lock invariant is inductive.
LEMMA LockInvStep ==
    ASSUME TaskTypeOK, LockInv, [TaskNext]_taskVars
    PROVE  LockInv'
<1>1. ASSUME NEW b \in EntityIds, SendFreshUid(b) PROVE LockInv'
  BY <1>1, LocksUntouched DEF SendFreshUid, consumerVars
<1>2. CASE ReadUnprocessed \/ ListenerCrash
  BY <1>2, LocksUntouched DEF ReadUnprocessed, ListenerCrash, consumerVars
<1>3. ASSUME NEW i \in outbox, SendTask(i) PROVE LockInv'
  BY <1>3, LocksUntouched DEF SendTask, consumerVars
<1>4. CASE ListenerStep
  <2>1. ASSUME NEW b \in EntityIds, InsertTask(b) PROVE LockInv'
    BY <2>1, InsertRowLocks DEF InsertTask, consumerVars
  <2> QED BY <1>1, <1>2, <1>3, <1>4, <2>1 DEF ListenerStep
<1>5. ASSUME NEW c \in Consumers, NEW m \in Message, Receive(c, m) PROVE LockInv'
  <2>1. \A a : RowsOf(a)' = RowsOf(a)
    BY <1>5 DEF Receive, RowsOf, RowIds
  <2>2. held[c] = {} /\ held' = held /\ snap' = snap
    BY <1>5 DEF Receive, LockInv, LocksOnlyWhatIsFound, Locking
  <2>3. /\ pc'[c] \notin Locking /\ pc'[c] \notin Running
        /\ \A d \in Consumers \ {c} : pc'[d] = pc[d] /\ msg'[d] = msg[d]
    BY <1>5 DEF Receive, TaskTypeOK, HandlerTypeOK, Locking, Running
  <2> QED BY <2>1, <2>2, <2>3, OtherHandlers
<1>6. ASSUME NEW c \in Consumers, LoseChannel(c) PROVE LockInv'
  BY <1>6, LocksUntouched DEF LoseChannel
<1>7. CASE UNCHANGED taskVars
  BY <1>7, LocksUntouched DEF taskVars, consumerVars
<1> QED
  BY <1>4, <1>5, <1>6, <1>7, HandlerStepLocks, EndOfTransactionLocks DEF TaskNext

\* What the lock is for: two handlers never run for the same entity at once.
LEMMA OneRunPerEntity ==
    ASSUME TaskTypeOK, LockInv, NEW c \in Consumers, NEW d \in Consumers, c # d,
           pc[c] \in Running, pc[d] \in Running
    PROVE  msg[c].entity_id # msg[d].entity_id
<1> SUFFICES ASSUME msg[c].entity_id = msg[d].entity_id PROVE FALSE
  OBVIOUS
<1>1. PICK b \in EntityIds : msg[c].entity_id = b /\ msg[d].entity_id = b
  BY DEF TaskTypeOK, HandlerTypeOK, Message, Running
<1>2. PICK i \in snap[c] : i \in RowsOf(b)
  BY <1>1 DEF LockInv, FoundFromTheOldest, LocksOnlyWhatIsFound, Locking, Running
<1>3. PICK j \in snap[d] : j \in RowsOf(b)
  BY <1>1 DEF LockInv, FoundFromTheOldest, LocksOnlyWhatIsFound, Locking, Running
<1>4. i \in Nat /\ j \in Nat
  BY <1>2, <1>3 DEF RowsOf, RowIds
<1>5. i = j \/ i \in snap[d] \/ j \in snap[c]
  BY <1>1, <1>2, <1>3, <1>4 DEF LockInv, FoundFromTheOldest, Locking, Running
<1>6. held[c] = snap[c] /\ held[d] = snap[d] /\ held[c] \intersect held[d] = {}
  BY DEF LockInv, LocksOnlyWhatIsFound, LocksExclusive
<1> QED BY <1>2, <1>3, <1>5, <1>6

\* Taking the newest row first keeps handlers from waiting in a circle: whoever
\* holds the row a handler waits for waits, if at all, for an older one.
LEMMA NoCircleOfWaiters ==
    ASSUME TaskTypeOK, LockInv
    PROVE  NoLockDeadlock
<1> SUFFICES ASSUME NEW D \in SUBSET Consumers, D # {},
                    \A c \in D : WaitsFor(c) \intersect D # {}
             PROVE  FALSE
  BY DEF NoLockDeadlock
<1> DEFINE Awaits(c, i) == /\ pc[c] = "lock" /\ i \in NextToLock(c)
                           /\ \E d \in D \ {c} : i \in held[d]
           Awaited == {i \in Nat : \E c \in D : Awaits(c, i)}
<1>1. \A c \in Consumers : snap[c] \subseteq Nat
  BY DEF TaskTypeOK, HandlerTypeOK, RowId
<1>2. ASSUME NEW c \in D PROVE \E i \in Awaited : Awaits(c, i)
  <2>1. PICK d \in WaitsFor(c) : d \in D
    OBVIOUS
  <2>2. pc[c] = "lock" /\ d # c
    BY <2>1 DEF WaitsFor
  <2>3. PICK i \in NextToLock(c) : i \in held[d]
    BY <2>1 DEF WaitsFor
  <2>4. i \in Nat
    BY <1>1, <2>3 DEF NextToLock
  <2> QED BY <2>1, <2>2, <2>3, <2>4
<1>3. PICK i \in Awaited : \A j \in Awaited : ~ (j < i)
  <2>1. Awaited # {} /\ Awaited \subseteq Nat
    BY <1>2
  <2>2. PICK i \in Awaited : \A j \in Awaited : <<j, i>> \notin OpToRel(<, Nat)
    <3> HIDE DEF Awaited
    <3> QED BY <2>1, NatLessThanWellFounded, WFMin
  <2>3. \A j \in Awaited : j < i => <<j, i>> \in OpToRel(<, Nat)
    BY <2>1, <2>2 DEF OpToRel
  <2> QED BY <2>2, <2>3
<1>4. PICK c \in D : Awaits(c, i)
  OBVIOUS
<1>5. PICK d \in D : i \in held[d]
  BY <1>4
<1>6. PICK j \in Awaited : Awaits(d, j)
  BY <1>2, <1>5
<1>7. j \in snap[d] /\ j \notin held[d]
  BY <1>6 DEF NextToLock, IsNewest
<1>8. ~ (j > i)
  BY <1>5, <1>7 DEF LockInv, LocksNewestFirst
<1>9. i # j /\ i \in Nat /\ j \in Nat
  BY <1>5, <1>7
<1> QED BY <1>3, <1>8, <1>9
=============================================================================
