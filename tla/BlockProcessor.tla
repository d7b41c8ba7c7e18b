---------------------------- MODULE BlockProcessor ----------------------------
(***************************************************************************)
(* BlockProcessorService in the task framework of TaskConsumer: what       *)
(* processTaskMessage does to the blocks table inside the consumer's       *)
(* transaction, and the callback that creates the follow-up tasks (the     *)
(* block's balances, and the era or round its events announce) after it.   *)
(*                                                                         *)
(* The rows of extrinsics, events, total_issuance and blocks that one      *)
(* block stands for are written by one transaction: they are one unit,     *)
(* counted by blocks[b].  The follow-up tasks of a block are one batch,    *)
(* inserted by one transaction: followUps[b] counts them.                  *)
(***************************************************************************)
EXTENDS TaskConsumer

VARIABLES
    blocks,      \* how many times each block is in the blocks table
    trx,         \* what each handler's transaction knows of its block
    creating,    \* callbacks that have not inserted their tasks yet
    announcing,  \* callbacks that have, and have not sent the messages yet
    followUps,   \* batches of follow-up tasks inserted for each block
    announced    \* batches of follow-up messages sent for each block

blockVars == <<blocks, trx, creating, announcing, followUps, announced>>
vars == <<taskVars, blockVars>>

BlockTypeOK ==
    /\ blocks \in [EntityIds -> Nat]
    /\ trx \in [Consumers -> {"none", "absent", "written"}]
    /\ creating \in [Consumers -> SUBSET EntityIds]
    /\ announcing \in [Consumers -> SUBSET EntityIds]
    /\ followUps \in [EntityIds -> Nat]
    /\ announced \in [EntityIds -> Nat]

TypeOK == TaskTypeOK /\ BlockTypeOK

Init ==
    /\ TaskInit
    /\ blocks = [b \in EntityIds |-> 0]
    /\ trx = [c \in Consumers |-> "none"]
    /\ creating = [c \in Consumers |-> {}]
    /\ announcing = [c \in Consumers |-> {}]
    /\ followUps = [b \in EntityIds |-> 0]
    /\ announced = [b \in EntityIds |-> 0]

-----------------------------------------------------------------------------
\* Mutant: the task table is asked instead of the blocks table.
TaskPresent(b) == RowsOf(b) # {}

\* getBlockById reads the committed blocks table, outside the transaction.
BlockPresent(b) == blocks[b] > 0

\* The block is there already: status true, and no callback.
FindBlock(c) ==
    /\ pc[c] = "run"
    /\ trx[c] = "none"
    /\ BlockPresent(msg[c].entity_id)
    /\ FinishTask(c)
    /\ UNCHANGED blockVars

MissBlock(c) ==
    /\ pc[c] = "run"
    /\ trx[c] = "none"
    /\ ~ BlockPresent(msg[c].entity_id)
    /\ trx' = [trx EXCEPT ![c] = "absent"]
    /\ UNCHANGED <<taskVars, blocks, creating, announcing, followUps, announced>>

\* total_issuance has a unique index on the block: its insert waits for another
\* transaction that has inserted the block's row, and throws (FailTask) when one
\* has committed it.
CanStoreBlock(c) ==
    LET b == msg[c].entity_id IN
    /\ blocks[b] = 0
    /\ \A d \in Consumers \ {c} : trx[d] = "written" => msg[d].entity_id # b

\* processBlock: the block is read from the node and its rows are inserted by
\* the transaction, invisible to others until it commits.
ProcessBlock(c) ==
    /\ trx[c] = "absent"
    /\ CanStoreBlock(c)
    /\ FinishTask(c)
    /\ trx' = [trx EXCEPT ![c] = "written"]
    /\ UNCHANGED <<blocks, creating, announcing, followUps, announced>>

\* What the commit adds to the blocks table, and the callback it starts: a
\* transaction that wrote the block has one.
Extracted(c) ==
    IF trx[c] = "written" THEN [blocks EXCEPT ![msg[c].entity_id] = @ + 1] ELSE blocks

\* Mutant: the callback is returned for a block that was found, too.
CallbackAlways(c) == {msg[c].entity_id}

\* Mutant: no callback once the channel of the message is gone.
CallbackIfConnected(c) ==
    IF trx[c] = "written" /\ delivery[c] = "unacked" THEN {msg[c].entity_id} ELSE {}

CallbackOf(c) == IF trx[c] = "written" THEN {msg[c].entity_id} ELSE {}

Commit(c) ==
    /\ CommitTask(c)
    /\ blocks' = Extracted(c)
    /\ creating' = [creating EXCEPT ![c] = @ \union CallbackOf(c)]
    /\ trx' = [trx EXCEPT ![c] = "none"]
    /\ UNCHANGED <<announcing, followUps, announced>>

\* A failure rolls the block's rows back with the rest of the transaction.
Fail(c) ==
    /\ FailTask(c)
    /\ trx' = [trx EXCEPT ![c] = "none"]
    /\ UNCHANGED <<blocks, creating, announcing, followUps, announced>>

\* The callback is not awaited: it runs beside the ack and beside the next
\* message of the same consumer.
InsertFollowUps(c, b) ==
    /\ b \in creating[c]
    /\ creating' = [creating EXCEPT ![c] = @ \ {b}]
    /\ announcing' = [announcing EXCEPT ![c] = @ \union {b}]
    /\ followUps' = [followUps EXCEPT ![b] = @ + 1]
    /\ UNCHANGED <<taskVars, blocks, trx, announced>>

SendFollowUps(c, b) ==
    /\ b \in announcing[c]
    /\ announcing' = [announcing EXCEPT ![c] = @ \ {b}]
    /\ announced' = [announced EXCEPT ![b] = @ + 1]
    /\ UNCHANGED <<taskVars, blocks, trx, creating, followUps>>

\* A crash takes the transaction and the callbacks with it.  An error thrown in
\* a callback is one too: nobody handles its rejection, which ends the process.
Crash(c) ==
    /\ ConsumerCrash(c)
    /\ trx' = [trx EXCEPT ![c] = "none"]
    /\ creating' = [creating EXCEPT ![c] = {}]
    /\ announcing' = [announcing EXCEPT ![c] = {}]
    /\ UNCHANGED <<blocks, followUps, announced>>

-----------------------------------------------------------------------------
Listener == ListenerStep /\ UNCHANGED blockVars

Framework(c) == HandlerStep(c) /\ UNCHANGED blockVars

Processor(c) == FindBlock(c) \/ MissBlock(c) \/ ProcessBlock(c) \/ Commit(c)

Callback(c) == \E b \in EntityIds : InsertFollowUps(c, b) \/ SendFollowUps(c, b)

Deliver(c) == /\ \E m \in Message : Receive(c, m)
              /\ UNCHANGED blockVars

Disconnect(c) == LoseChannel(c) /\ UNCHANGED blockVars

Next ==
    \/ Listener
    \/ \E c \in Consumers :
        \/ Deliver(c)
        \/ Framework(c)
        \/ Processor(c)
        \/ Callback(c)
        \/ Fail(c)
        \/ Crash(c)
        \/ Disconnect(c)

Spec == Init /\ [][Next]_vars

(***************************************************************************)
(* Fairness.  A handler and its callback go on as long as they can; a      *)
(* handler waiting for a row lock gets its turn (PostgreSQL queues lock    *)
(* waiters), hence SF.  The queue is served in order, so a message cannot  *)
(* be passed over for ever.  The monitoring cron has unprocessed tasks     *)
(* restarted every five minutes.  Nothing is assumed of new tasks, and     *)
(* faults are bounded by MaxFaults.                                        *)
(***************************************************************************)
Restart == ReadUnprocessed /\ UNCHANGED blockVars
Publish(i) == SendTask(i) /\ UNCHANGED blockVars
DeliverMessage(m) == \E c \in Consumers : Receive(c, m) /\ UNCHANGED blockVars

Fairness ==
    /\ \A c \in Consumers : SF_vars(Framework(c) \/ Processor(c)) /\ WF_vars(Callback(c))
    /\ \A m \in Message : SF_vars(DeliverMessage(m))
    /\ \A i \in RowId : SF_vars(Publish(i))
    /\ WF_vars(Restart)

FairSpec == Spec /\ Fairness

-----------------------------------------------------------------------------
(* Properties.                                                             *)

\* Two handlers never extract the same block at once, however many task rows,
\* copies of messages, consumers, crashes and redeliveries there are: the lock on
\* all the rows of a block (readTaskAndLockRow) is held from before getBlockById
\* reads the blocks table until the commit.  An overlap would end one of them with
\* a duplicate key in total_issuance, and its task unprocessed.
OneExtractionAtATime ==
    \A c, d \in Consumers :
        c # d /\ trx[c] # "none" /\ trx[d] # "none" => msg[c].entity_id # msg[d].entity_id

\* A block is in the database at most once.
NoDuplicateBlocks == \A b \in EntityIds : blocks[b] <= 1

\* A task marked as processed has its block in the database: the mark and the
\* block are one transaction, and a task that finds the block is marked too.
ProcessedTaskHasBlock ==
    \A i \in RowIds : rows[i].status = "processed" => blocks[rows[i].entity_id] >= 1

\* As long as no processor has crashed, the follow-up tasks of a block in the
\* database are created and announced, or a callback is on its way to it.
FollowUpsLostOnlyByCrash ==
    faults["crash"] = 0 =>
        \A b \in EntityIds :
            blocks[b] > 0 => \/ announced[b] = 1
                             \/ \E c \in Consumers : b \in creating[c] \union announcing[c]

\* The processor and its queue implement block extraction as BlockExtraction
\* promises it: no duplicate block, no block nobody asked for, follow-up tasks
\* at most once and only after the block is stored.
Extraction == INSTANCE BlockExtraction WITH
    Blocks <- EntityIds,
    requested <- {b \in EntityIds : RowsOf(b) # {}},
    extracted <- blocks,
    followed <- followUps

ImplementsExtraction == Extraction!Spec

\* Every block that has a task is extracted in the end, whatever messages,
\* consumers and attempts are lost, as long as faults stop and unprocessed
\* tasks are restarted from time to time.
EveryTaskExtracted ==
    \A b \in EntityIds : (RowsOf(b) # {}) ~> (blocks[b] > 0)
=============================================================================
