----------------------------- MODULE TaskConsumer -----------------------------
(***************************************************************************)
(* The task framework every processor of the streamer runs in: the         *)
(* processing_tasks table (libs/tasks.repository.ts), the RabbitMQ queue   *)
(* of one entity and the consumer of loaders/rabbitmq.ts.                  *)
(*                                                                         *)
(* This module has the state and the actions of the framework, with no     *)
(* next-state relation of its own: a processor's module (BlockProcessor)   *)
(* EXTENDS it, adds its own state and says what processTaskMessage does    *)
(* between "run" and "done".                                               *)
(*                                                                         *)
(* Abstractions.                                                           *)
(*  - A row's row_id (a SERIAL column) is its index in rows.  A            *)
(*    collect_uid is a fresh uuid minted for one insert, so the uid of a   *)
(*    row is identified with its row_id; NoRow is a uid no row carries.    *)
(*  - The queue is a bag: several consumers, redelivery and restarts       *)
(*    leave no order among messages to rely on.                            *)
(*  - The attempts column and the timestamps are read by no code and are   *)
(*    left out; the UPDATE that counts attempts still waits for row locks. *)
(***************************************************************************)
EXTENDS Naturals, Sequences, FiniteSets

CONSTANTS
    EntityIds,      \* the entity_ids tasks are about (block numbers)
    Consumers,      \* handler slots: one per channel, as prefetch(1) allows
    NoMessage,      \* the message of an idle consumer
    LockLimit,      \* the .limit(100) of readTaskAndLockRow
    MaxRows,        \* bound: rows of the table
    MaxRowsPerId,   \* bound: rows about one entity_id
    MaxCopies,      \* bound: copies of a row's message in the queue
    MaxManual,      \* bound: messages in the queue with a uid no row carries
    MaxFaults       \* bound: how often each kind of fault may happen

FaultKind == {"crash", "channel", "failure", "listener"}

ASSUME LockLimitAssumption == LockLimit \in Nat /\ MaxRowsPerId \in Nat /\ MaxRowsPerId <= LockLimit
ASSUME BoundsAssumption ==
    /\ MaxRows \in Nat
    /\ MaxCopies \in Nat
    /\ MaxManual \in Nat
    /\ MaxFaults \in [FaultKind -> Nat]
ASSUME NoMessageAssumption == NoMessage \notin [entity_id : EntityIds, collect_uid : 0..MaxRows]

VARIABLES
    rows,      \* processing_tasks, in row_id order
    outbox,    \* rows whose message the listener is about to send
    queue,     \* the RabbitMQ queue
    pc,        \* where each consumer's handler stands
    msg,       \* the message each handler works on
    delivery,  \* whether the broker still waits for that message's ack
    snap,      \* row_ids the handler's SELECT .. FOR UPDATE has found
    held,      \* those it has locked so far
    faults     \* how many faults of each kind have happened

consumerVars == <<pc, msg, delivery, snap, held>>
taskVars == <<rows, outbox, queue, consumerVars, faults>>

-----------------------------------------------------------------------------
NoRow == 0
Uid == 0..MaxRows
RowId == 1..MaxRows
Message == [entity_id : EntityIds, collect_uid : Uid]
Status == {"not_processed", "processed"}
Row == [entity_id : EntityIds, status : Status]
Handler == {"idle", "attempt", "select", "lock", "run", "done", "ack"}

TableTypeOK ==
    /\ rows \in Seq(Row) /\ Len(rows) <= MaxRows
    /\ outbox \subseteq RowId
    /\ queue \in [Message -> Nat]
    /\ faults \in [FaultKind -> Nat]

HandlerTypeOK ==
    /\ pc \in [Consumers -> Handler]
    /\ msg \in [Consumers -> Message \union {NoMessage}]
    /\ \A c \in Consumers : pc[c] # "idle" => msg[c] \in Message
    /\ delivery \in [Consumers -> {"none", "unacked", "lost"}]
    /\ snap \in [Consumers -> SUBSET RowId]
    /\ held \in [Consumers -> SUBSET RowId]

TaskTypeOK == TableTypeOK /\ HandlerTypeOK

TaskInit ==
    /\ rows = <<>>
    /\ outbox = {}
    /\ queue = [m \in Message |-> 0]
    /\ pc = [c \in Consumers |-> "idle"]
    /\ msg = [c \in Consumers |-> NoMessage]
    /\ delivery = [c \in Consumers |-> "none"]
    /\ snap = [c \in Consumers |-> {}]
    /\ held = [c \in Consumers |-> {}]
    /\ faults = [k \in FaultKind |-> 0]

-----------------------------------------------------------------------------
RowIds == 1..Len(rows)
RowsOf(b) == {i \in RowIds : rows[i].entity_id = b}

\* Mutant: only the oldest unprocessed row is restarted.
OldestUnprocessed ==
    {i \in RowIds : /\ rows[i].status = "not_processed"
                    /\ \A j \in 1..i-1 : rows[j].status = "processed"}
Unprocessed == {i \in RowIds : rows[i].status = "not_processed"}

MessageOf(i) == [entity_id |-> rows[i].entity_id, collect_uid |-> i]

\* The newest LockLimit members of a set of row_ids: ORDER BY row_id DESC LIMIT.
Newest(S) == {i \in S : Cardinality({j \in S : j > i}) < LockLimit}
IsNewest(i, S) == i \in S /\ \A j \in S : j <= i

LockedByOther(c, i) == \E d \in Consumers \ {c} : i \in held[d]

\* Mutant: only the newest row is locked, LIMIT 1.
LockNewestOnly(b) == {i \in RowsOf(b) : IsNewest(i, RowsOf(b))}

\* The rows of b that readTaskAndLockRow selects FOR UPDATE.
RowsToLock(b) == Newest(RowsOf(b))

\* Mutant: the status of the record is not looked at.
NewestHasUid(c) == IsNewest(msg[c].collect_uid, snap[c])

\* readTaskAndLockRow returns a record only if the newest row has the
\* message's uid, and the record must still wait for processing.
TaskIsCurrent(c) ==
    /\ IsNewest(msg[c].collect_uid, snap[c])
    /\ rows[msg[c].collect_uid].status = "not_processed"

\* Mutant: the rows are locked in any order, as without the ORDER BY.
NextToLockInAnyOrder(c) == snap[c] \ held[c]

NextToLock(c) == {i \in snap[c] : IsNewest(i, snap[c] \ held[c])}

\* A fault of kind k happens, within its bound.
Fault(k) ==
    /\ faults[k] < MaxFaults[k]
    /\ faults' = [faults EXCEPT ![k] = @ + 1]

\* The end of a handler's transaction, by commit or rollback: its locks go.
ReleaseLocks(c) ==
    /\ snap' = [snap EXCEPT ![c] = {}]
    /\ held' = [held EXCEPT ![c] = {}]

-----------------------------------------------------------------------------
(* Properties of the framework, whatever the processor.                    *)

\* Handlers never wait for each other's rows in a circle: every set of handlers
\* has one that waits for none of them.  Two handlers that found different rows
\* of a block (one was inserted in between) still lock them newest first.
WaitsFor(c) ==
    {d \in Consumers \ {c} : pc[c] = "lock" /\ NextToLock(c) \intersect held[d] # {}}

NoLockDeadlock ==
    \A D \in (SUBSET Consumers) \ {{}} : \E c \in D : WaitsFor(c) \intersect D = {}

-----------------------------------------------------------------------------
(* The listener's side: rows are inserted, and their messages sent.        *)

CanInsert(b) ==
    /\ Len(rows) < MaxRows
    /\ Cardinality(RowsOf(b)) < MaxRowsPerId

InsertRow(b) ==
    /\ CanInsert(b)
    /\ rows' = Append(rows, [entity_id |-> b, status |-> "not_processed"])

\* A task row about b is committed, and its message is due: ingestTasksChunk
\* with its one-second timer, or addProcessingTask before its send.
InsertTask(b) ==
    /\ InsertRow(b)
    /\ outbox' = outbox \union {Len(rows) + 1}
    /\ UNCHANGED <<queue, consumerVars, faults>>

\* restartUnprocessedTasks: every unprocessed row is read, to be sent again.
ReadUnprocessed ==
    /\ ~ (Unprocessed \subseteq outbox)
    /\ outbox' = outbox \union Unprocessed
    /\ UNCHANGED <<rows, queue, consumerVars, faults>>

\* The message of a row that is due is published.
SendTask(i) ==
    /\ i \in outbox
    /\ queue[MessageOf(i)] < MaxCopies
    /\ outbox' = outbox \ {i}
    /\ queue' = [queue EXCEPT ![MessageOf(i)] = @ + 1]
    /\ UNCHANGED <<rows, consumerVars, faults>>

\* preloadOneBlock and restartUnprocessedBalances about an entity that has an
\* unprocessed row: addProcessingTask inserts nothing and still says true, so
\* the message sent carries the fresh uid of a task that was never inserted.
SendFreshUid(b) ==
    LET m == [entity_id |-> b, collect_uid |-> NoRow] IN
    /\ RowsOf(b) \intersect Unprocessed # {}
    /\ queue[m] < MaxManual
    /\ queue' = [queue EXCEPT ![m] = @ + 1]
    /\ UNCHANGED <<rows, outbox, consumerVars, faults>>

\* The listener exits: the timers and loops that were about to send are gone.
ListenerCrash ==
    /\ outbox # {}
    /\ Fault("listener")
    /\ outbox' = {}
    /\ UNCHANGED <<rows, queue, consumerVars>>

-----------------------------------------------------------------------------
(* The consumer of loaders/rabbitmq.ts.                                    *)

Receive(c, m) ==
    /\ pc[c] = "idle"
    /\ queue[m] > 0
    /\ queue' = [queue EXCEPT ![m] = @ - 1]
    /\ pc' = [pc EXCEPT ![c] = "attempt"]
    /\ msg' = [msg EXCEPT ![c] = m]
    /\ delivery' = [delivery EXCEPT ![c] = "unacked"]
    /\ UNCHANGED <<rows, outbox, snap, held, faults>>

\* An UPDATE of its own, outside the transaction: it waits while another
\* transaction holds the row.
IncreaseAttempts(c) ==
    /\ pc[c] = "attempt"
    /\ ~ LockedByOther(c, msg[c].collect_uid)
    /\ pc' = [pc EXCEPT ![c] = "select"]
    /\ UNCHANGED <<rows, outbox, queue, msg, delivery, snap, held, faults>>

\* readTaskAndLockRow takes its statement snapshot: rows inserted later are
\* not seen by it.
SelectRows(c) ==
    /\ pc[c] = "select"
    /\ pc' = [pc EXCEPT ![c] = "lock"]
    /\ snap' = [snap EXCEPT ![c] = RowsToLock(msg[c].entity_id)]
    /\ UNCHANGED <<rows, outbox, queue, msg, delivery, held, faults>>

\* FOR UPDATE locks the selected rows one by one, newest first, and waits for
\* whoever holds the next one.
LockRow(c) ==
    /\ pc[c] = "lock"
    /\ \E i \in NextToLock(c) :
        /\ ~ LockedByOther(c, i)
        /\ held' = [held EXCEPT ![c] = @ \union {i}]
    /\ UNCHANGED <<rows, outbox, queue, pc, msg, delivery, snap, faults>>

\* With every row locked the newest is compared with the message; the status
\* is the one the row has now, not the one of the snapshot.
StartTask(c) ==
    /\ pc[c] = "lock"
    /\ held[c] = snap[c]
    /\ TaskIsCurrent(c)
    /\ pc' = [pc EXCEPT ![c] = "run"]
    /\ UNCHANGED <<rows, outbox, queue, msg, delivery, snap, held, faults>>

SkipTask(c) ==
    /\ pc[c] = "lock"
    /\ held[c] = snap[c]
    /\ ~ TaskIsCurrent(c)
    /\ pc' = [pc EXCEPT ![c] = "ack"]
    /\ ReleaseLocks(c)
    /\ UNCHANGED <<rows, outbox, queue, msg, delivery, faults>>

\* processTaskMessage returns status true.
FinishTask(c) ==
    /\ pc[c] = "run"
    /\ pc' = [pc EXCEPT ![c] = "done"]
    /\ UNCHANGED <<rows, outbox, queue, msg, delivery, snap, held, faults>>

\* Mutant: the status of a task in progress is written instead.
MarkProcessing(i) == [rows EXCEPT ![i].status = "processing"]

\* setTaskRecordAsProcessed and the commit of the transaction.
MarkProcessed(i) == [rows EXCEPT ![i].status = "processed"]

CommitTask(c) ==
    /\ pc[c] = "done"
    /\ rows' = MarkProcessed(msg[c].collect_uid)
    /\ pc' = [pc EXCEPT ![c] = "ack"]
    /\ ReleaseLocks(c)
    /\ UNCHANGED <<outbox, queue, msg, delivery, faults>>

\* Any awaited call of the handler throws: the transaction is rolled back, the
\* error is logged and the message is acknowledged all the same.
FailTask(c) ==
    /\ pc[c] \in {"attempt", "select", "lock", "run", "done"}
    /\ Fault("failure")
    /\ pc' = [pc EXCEPT ![c] = "ack"]
    /\ ReleaseLocks(c)
    /\ UNCHANGED <<rows, outbox, queue, msg, delivery>>

Ack(c) ==
    /\ pc[c] = "ack"
    /\ pc' = [pc EXCEPT ![c] = "idle"]
    /\ msg' = [msg EXCEPT ![c] = NoMessage]
    /\ delivery' = [delivery EXCEPT ![c] = "none"]
    /\ UNCHANGED <<rows, outbox, queue, snap, held, faults>>

\* The broker requeues a message whose ack it will not see.
Requeue(c) ==
    queue' = IF delivery[c] = "unacked" THEN [queue EXCEPT ![msg[c]] = @ + 1] ELSE queue

\* The consumer's process exits (the node's connection is lost, SIGKILL, out of
\* memory): its transaction is rolled back and its message requeued.
ConsumerCrash(c) ==
    /\ Fault("crash")
    /\ Requeue(c)
    /\ pc' = [pc EXCEPT ![c] = "idle"]
    /\ msg' = [msg EXCEPT ![c] = NoMessage]
    /\ delivery' = [delivery EXCEPT ![c] = "none"]
    /\ ReleaseLocks(c)
    /\ UNCHANGED <<rows, outbox>>

\* The channel is lost: the broker requeues the message while the handler
\* goes on with it.
LoseChannel(c) ==
    /\ delivery[c] = "unacked"
    /\ Fault("channel")
    /\ Requeue(c)
    /\ delivery' = [delivery EXCEPT ![c] = "lost"]
    /\ UNCHANGED <<rows, outbox, pc, msg, snap, held>>

-----------------------------------------------------------------------------
ListenerStep ==
    \/ \E b \in EntityIds : InsertTask(b) \/ SendFreshUid(b)
    \/ ReadUnprocessed
    \/ \E i \in outbox : SendTask(i)
    \/ ListenerCrash

\* What a handler does by itself; starting, finishing and committing a task
\* are the steps a processor adds to.
HandlerStep(c) ==
    \/ IncreaseAttempts(c)
    \/ SelectRows(c)
    \/ LockRow(c)
    \/ StartTask(c)
    \/ SkipTask(c)
    \/ Ack(c)

\* Every step the framework can take, whatever the processor.
TaskNext ==
    \/ ListenerStep
    \/ \E c \in Consumers :
        \/ \E m \in Message : Receive(c, m)
        \/ HandlerStep(c)
        \/ FinishTask(c)
        \/ CommitTask(c)
        \/ FailTask(c)
        \/ ConsumerCrash(c)
        \/ LoseChannel(c)
=============================================================================
