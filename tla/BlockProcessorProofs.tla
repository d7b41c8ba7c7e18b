------------------------- MODULE BlockProcessorProofs -------------------------
(***************************************************************************)
(* Proofs about BlockProcessor, for any number of blocks, consumers, rows, *)
(* copies and faults: its types, that a block is in the database at most   *)
(* once, that processed tasks have their blocks, that only a crash loses   *)
(* follow-up tasks, and that it implements BlockExtraction.                *)
(***************************************************************************)
EXTENDS BlockProcessor, TaskConsumerProofs

-----------------------------------------------------------------------------
(* Every step is a step of the framework, or leaves its variables alone.   *)

LEMMA StepOfFramework == [Next]_vars => [TaskNext]_taskVars
<1> SUFFICES ASSUME [Next]_vars PROVE [TaskNext]_taskVars
  OBVIOUS
<1>1. CASE Listener
  BY <1>1 DEF Listener, TaskNext
<1>2. ASSUME NEW c \in Consumers, Deliver(c) \/ Framework(c) \/ Disconnect(c)
      PROVE  [TaskNext]_taskVars
  BY <1>2 DEF Deliver, Framework, Disconnect, TaskNext
<1>3. ASSUME NEW c \in Consumers, Processor(c)
      PROVE  [TaskNext]_taskVars
  BY <1>3 DEF Processor, FindBlock, MissBlock, ProcessBlock, Commit, TaskNext
<1>4. ASSUME NEW c \in Consumers, Callback(c)
      PROVE  [TaskNext]_taskVars
  BY <1>4 DEF Callback, InsertFollowUps, SendFollowUps
<1>5. ASSUME NEW c \in Consumers, Fail(c) \/ Crash(c)
      PROVE  [TaskNext]_taskVars
  BY <1>5 DEF Fail, Crash, TaskNext
<1>6. CASE UNCHANGED vars
  BY <1>6 DEF vars
<1> QED BY <1>1, <1>2, <1>3, <1>4, <1>5, <1>6 DEF Next

-----------------------------------------------------------------------------
(* Type correctness.                                                       *)

LEMMA BlockTypeStep ==
    ASSUME TypeOK, [Next]_vars
    PROVE  BlockTypeOK'
<1> USE DEF TypeOK
<1>1. CASE Listener
  BY <1>1 DEF Listener, blockVars, BlockTypeOK
<1>2. ASSUME NEW c \in Consumers, Deliver(c) \/ Framework(c) \/ Disconnect(c)
      PROVE  BlockTypeOK'
  BY <1>2 DEF Deliver, Framework, Disconnect, blockVars, BlockTypeOK
<1>3. ASSUME NEW c \in Consumers, FindBlock(c) \/ MissBlock(c) \/ ProcessBlock(c)
      PROVE  BlockTypeOK'
  BY <1>3 DEF FindBlock, MissBlock, ProcessBlock, blockVars, BlockTypeOK
<1>4. ASSUME NEW c \in Consumers, Commit(c)
      PROVE  BlockTypeOK'
  <2>1. blocks' \in [EntityIds -> Nat]
    BY <1>4, CountOneMore DEF Commit, Extracted, BlockTypeOK
  <2>2. msg[c].entity_id \in EntityIds
    BY <1>4 DEF Commit, CommitTask, TaskTypeOK, HandlerTypeOK, Message
  <2>3. CallbackOf(c) \subseteq EntityIds
    BY <2>2 DEF CallbackOf
  <2>4. creating' \in [Consumers -> SUBSET EntityIds]
    BY <1>4, <2>3 DEF Commit, BlockTypeOK
  <2> QED BY <1>4, <2>1, <2>4 DEF Commit, BlockTypeOK
<1>5. ASSUME NEW c \in Consumers, NEW b \in EntityIds, InsertFollowUps(c, b) \/ SendFollowUps(c, b)
      PROVE  BlockTypeOK'
  BY <1>5 DEF InsertFollowUps, SendFollowUps, BlockTypeOK
<1>6. ASSUME NEW c \in Consumers, Fail(c) \/ Crash(c)
      PROVE  BlockTypeOK'
  BY <1>6 DEF Fail, Crash, BlockTypeOK
<1>7. CASE UNCHANGED vars
  BY <1>7 DEF vars, blockVars, BlockTypeOK
<1> QED BY <1>1, <1>2, <1>3, <1>4, <1>5, <1>6, <1>7 DEF Next, Processor, Callback

\* The variables keep their types: TypeOK of the safety run, for every value of
\* the constants.
THEOREM TypeCorrect == Spec => []TypeOK
<1>1. Init => TypeOK
  <2> SUFFICES ASSUME Init PROVE TypeOK
    OBVIOUS
  <2>1. TaskTypeOK
    BY TaskInitType DEF Init
  <2>2. BlockTypeOK
    BY DEF Init, BlockTypeOK
  <2> QED BY <2>1, <2>2 DEF TypeOK
<1>2. TypeOK /\ [Next]_vars => TypeOK'
  BY StepOfFramework, TaskTypeStep, BlockTypeStep DEF TypeOK
<1> QED BY <1>1, <1>2, PTL DEF Spec

-----------------------------------------------------------------------------
(***************************************************************************)
(* The inductive invariant.  A handler that runs holds the locks of its    *)
(* block (LockInv), so what its transaction knows of the block stays true  *)
(* until it commits; the callback of a block is on its way, or has been,   *)
(* in one place only.                                                      *)
(***************************************************************************)
WritesInOrder ==
    \A c \in Consumers : /\ trx[c] = "absent" => pc[c] = "run"
                         /\ trx[c] = "written" => pc[c] = "done"

KnowsItsBlock ==
    \A c \in Consumers : pc[c] \in Running =>
        /\ trx[c] # "none" => blocks[msg[c].entity_id] = 0
        /\ pc[c] = "done" /\ trx[c] = "none" => blocks[msg[c].entity_id] >= 1

FollowUpsInOrder ==
    \A b \in EntityIds :
        /\ followUps[b] <= 1 /\ (followUps[b] = 1 => blocks[b] = 1)
        /\ announced[b] <= 1 /\ (announced[b] = 1 => followUps[b] = 1)

OneCallback ==
    \A c \in Consumers, b \in EntityIds :
        /\ b \in creating[c] =>
              /\ blocks[b] = 1 /\ followUps[b] = 0
              /\ \A d \in Consumers \ {c} : b \notin creating[d]
        /\ b \in announcing[c] =>
              /\ followUps[b] = 1 /\ announced[b] = 0
              /\ \A d \in Consumers \ {c} : b \notin announcing[d]

BlockInv ==
    /\ NoDuplicateBlocks
    /\ ProcessedTaskHasBlock
    /\ WritesInOrder
    /\ KnowsItsBlock
    /\ FollowUpsInOrder
    /\ OneCallback
    /\ FollowUpsLostOnlyByCrash

IInv == TypeOK /\ LockInv /\ BlockInv

LEMMA IInvInit == Init => IInv
<1> SUFFICES ASSUME Init PROVE IInv
  OBVIOUS
<1>1. TypeOK
  BY TaskInitType DEF Init, TypeOK, BlockTypeOK
<1>2. LockInv
  BY LockInvInit DEF Init
<1>3. RowIds = {} /\ \A c \in Consumers : pc[c] = "idle"
  BY DEF Init, TaskInit, RowIds
<1>4. NoDuplicateBlocks /\ ProcessedTaskHasBlock
  BY <1>3 DEF Init, NoDuplicateBlocks, ProcessedTaskHasBlock
<1>5. WritesInOrder /\ KnowsItsBlock
  BY <1>3 DEF Init, WritesInOrder, KnowsItsBlock, Running
<1>6. FollowUpsInOrder /\ OneCallback /\ FollowUpsLostOnlyByCrash
  BY DEF Init, FollowUpsInOrder, OneCallback, FollowUpsLostOnlyByCrash
<1> QED BY <1>1, <1>2, <1>4, <1>5, <1>6 DEF IInv, BlockInv

-----------------------------------------------------------------------------
(* Each step keeps the invariant.                                          *)

\* Faults are counted up.
LEMMA CrashesAreCounted ==
    ASSUME TypeOK, NEW k \in FaultKind, Fault(k)
    PROVE  /\ faults'["crash"] = 0 => faults["crash"] = 0
           /\ k = "crash" => faults'["crash"] # 0
<1>1. faults \in [FaultKind -> Nat] /\ faults' = [faults EXCEPT ![k] = @ + 1]
  BY DEF TypeOK, TaskTypeOK, TableTypeOK, Fault
<1>2. faults[k] \in Nat /\ faults'[k] = faults[k] + 1 /\ "crash" \in FaultKind
  BY <1>1 DEF FaultKind
<1>3. k # "crash" => faults'["crash"] = faults["crash"]
  BY <1>1, <1>2
<1> QED BY <1>2, <1>3

\* A running handler's task is about a block, and is one of its rows.
LEMMA RunsForARow ==
    ASSUME TypeOK, LockInv, NEW c \in Consumers, pc[c] \in Running
    PROVE  /\ msg[c].entity_id \in EntityIds
           /\ msg[c].collect_uid \in RowsOf(msg[c].entity_id)
<1>1. msg[c].entity_id \in EntityIds
  BY DEF TypeOK, TaskTypeOK, HandlerTypeOK, Message, Running
<1>2. msg[c].collect_uid \in snap[c] /\ pc[c] \in Locking
  BY DEF LockInv, LocksOnlyWhatIsFound, Running, Locking
<1> QED BY <1>1, <1>2 DEF LockInv, FoundFromTheOldest

\* A step of the framework alone: the handlers that are at work on a block go
\* on with the message they have, and a task starts with an empty transaction.
LEMMA FrameworkStep ==
    ASSUME TypeOK, BlockInv, UNCHANGED blockVars,
           ProcessedTaskHasBlock',
           faults'["crash"] = 0 => faults["crash"] = 0,
           \A c \in Consumers : trx[c] # "none" => pc'[c] = pc[c],
           \A c \in Consumers : pc'[c] \in Running =>
              /\ msg'[c] = msg[c]
              /\ pc'[c] = pc[c] \/ (pc'[c] = "run" /\ trx[c] = "none")
    PROVE  BlockInv'
<1>1. NoDuplicateBlocks' /\ FollowUpsInOrder' /\ OneCallback' /\ FollowUpsLostOnlyByCrash'
  BY DEF BlockInv, blockVars, NoDuplicateBlocks, FollowUpsInOrder, OneCallback,
         FollowUpsLostOnlyByCrash
<1>2. WritesInOrder'
  BY DEF BlockInv, blockVars, WritesInOrder
<1>3. KnowsItsBlock'
  BY DEF BlockInv, blockVars, KnowsItsBlock
<1> QED BY <1>1, <1>2, <1>3 DEF BlockInv

LEMMA ListenerKeepsBlocks ==
    ASSUME IInv, Listener
    PROVE  BlockInv'
<1> USE DEF IInv
<1>1. UNCHANGED <<pc, msg, blockVars>>
  BY DEF Listener, ListenerStep, InsertTask, SendFreshUid, ReadUnprocessed, SendTask,
         ListenerCrash, consumerVars
<1>2. faults'["crash"] = 0 => faults["crash"] = 0
  BY CrashesAreCounted
  DEF Listener, ListenerStep, InsertTask, SendFreshUid, ReadUnprocessed, SendTask, ListenerCrash,
      FaultKind
<1>3. ProcessedTaskHasBlock'
  <2>1. ASSUME NEW b \in EntityIds, InsertTask(b) PROVE ProcessedTaskHasBlock'
    <3>1. TableTypeOK
      BY DEF TypeOK, TaskTypeOK
    <3>2. /\ RowIds' = RowIds \union {Len(rows) + 1}
          /\ \A j \in RowIds : rows'[j] = rows[j]
          /\ rows'[Len(rows) + 1] = [entity_id |-> b, status |-> "not_processed"]
      BY <2>1, <3>1, InsertedRow, Zenon DEF InsertTask
    <3>3. rows'[Len(rows) + 1].status = "not_processed"
      BY <3>2
    <3> QED BY <1>1, <3>2, <3>3 DEF BlockInv, blockVars, ProcessedTaskHasBlock
  <2>2. CASE rows' = rows
    BY <1>1, <2>2 DEF BlockInv, blockVars, ProcessedTaskHasBlock, RowIds
  <2>3. rows' = rows \/ \E b \in EntityIds : InsertTask(b)
    BY DEF Listener, ListenerStep, SendFreshUid, ReadUnprocessed, SendTask, ListenerCrash
  <2> QED BY <2>1, <2>2, <2>3
<1> QED BY <1>1, <1>2, <1>3, FrameworkStep

LEMMA HandlerKeepsBlocks ==
    ASSUME IInv, NEW c \in Consumers, Deliver(c) \/ Framework(c) \/ Disconnect(c)
    PROVE  BlockInv'
<1> USE DEF IInv
<1>1. UNCHANGED <<rows, blockVars>>
  BY DEF Deliver, Receive, Framework, HandlerStep, IncreaseAttempts, SelectRows, LockRow, StartTask,
         SkipTask, Ack, Disconnect, LoseChannel
<1>2. ProcessedTaskHasBlock'
  BY <1>1 DEF BlockInv, blockVars, ProcessedTaskHasBlock, RowIds
<1>3. faults'["crash"] = 0 => faults["crash"] = 0
  BY CrashesAreCounted
  DEF Deliver, Receive, Framework, HandlerStep, IncreaseAttempts, SelectRows, LockRow, StartTask,
      SkipTask, Ack, Disconnect, LoseChannel, FaultKind
<1>4. pc[c] \notin Running => trx[c] = "none"
  BY DEF BlockInv, WritesInOrder, TypeOK, BlockTypeOK, Running
<1>5. \A d \in Consumers \ {c} : pc'[d] = pc[d] /\ msg'[d] = msg[d]
  BY DEF Deliver, Receive, Framework, HandlerStep, IncreaseAttempts, SelectRows, LockRow, StartTask,
         SkipTask, Ack, Disconnect, LoseChannel, TypeOK, TaskTypeOK, HandlerTypeOK
<1>6. pc[c] \in Running => pc'[c] = pc[c] /\ msg'[c] = msg[c]
  BY DEF Deliver, Receive, Framework, HandlerStep, IncreaseAttempts, SelectRows, LockRow, StartTask,
         SkipTask, Ack, Disconnect, LoseChannel, Running
<1>7. pc[c] \notin Running /\ pc'[c] \in Running => pc'[c] = "run" /\ msg'[c] = msg[c]
  BY DEF Deliver, Receive, Framework, HandlerStep, IncreaseAttempts, SelectRows, LockRow, StartTask,
         SkipTask, Ack, Disconnect, LoseChannel, Running, TypeOK, TaskTypeOK, HandlerTypeOK
<1>8. \A d \in Consumers : trx[d] # "none" => pc'[d] = pc[d]
  BY <1>4, <1>5, <1>6
<1>9. \A d \in Consumers : pc'[d] \in Running =>
         /\ msg'[d] = msg[d]
         /\ pc'[d] = pc[d] \/ (pc'[d] = "run" /\ trx[d] = "none")
  BY <1>4, <1>5, <1>6, <1>7
<1> QED BY <1>1, <1>2, <1>3, <1>8, <1>9, FrameworkStep

\* Reading and writing the block inside the transaction.
LEMMA TaskKeepsBlocks ==
    ASSUME IInv, NEW c \in Consumers, FindBlock(c) \/ MissBlock(c) \/ ProcessBlock(c)
    PROVE  BlockInv'
<1> USE DEF IInv
<1>1. UNCHANGED <<rows, msg, faults, blocks, creating, announcing, followUps, announced>>
  BY DEF FindBlock, MissBlock, ProcessBlock, FinishTask, taskVars, consumerVars, blockVars
<1>2. /\ NoDuplicateBlocks' /\ FollowUpsInOrder' /\ OneCallback' /\ FollowUpsLostOnlyByCrash'
      /\ ProcessedTaskHasBlock'
  BY <1>1 DEF BlockInv, NoDuplicateBlocks, FollowUpsInOrder, OneCallback,
              FollowUpsLostOnlyByCrash, ProcessedTaskHasBlock, RowIds
<1>3. \A d \in Consumers \ {c} : pc'[d] = pc[d] /\ trx'[d] = trx[d]
  BY DEF FindBlock, MissBlock, ProcessBlock, FinishTask, taskVars, consumerVars, blockVars,
         TypeOK, TaskTypeOK, HandlerTypeOK, BlockTypeOK
<1>4. pc[c] = "run" /\ pc'[c] \in Running
  BY DEF FindBlock, MissBlock, ProcessBlock, FinishTask, taskVars, consumerVars, Running,
         TypeOK, TaskTypeOK, HandlerTypeOK
<1>5. /\ trx'[c] = "absent" => pc'[c] = "run"
      /\ trx'[c] = "written" => pc'[c] = "done"
  BY DEF FindBlock, MissBlock, ProcessBlock, FinishTask, taskVars, consumerVars, blockVars,
         TypeOK, TaskTypeOK, HandlerTypeOK, BlockTypeOK
<1>6. /\ trx'[c] # "none" => blocks[msg[c].entity_id] = 0
      /\ pc'[c] = "done" /\ trx'[c] = "none" => blocks[msg[c].entity_id] >= 1
  <2>1. msg[c].entity_id \in EntityIds
    BY <1>4, RunsForARow DEF Running
  <2>2. blocks[msg[c].entity_id] \in Nat
    BY <2>1 DEF TypeOK, BlockTypeOK
  <2>3. CASE FindBlock(c)
    BY <2>2, <2>3 DEF FindBlock, blockVars, BlockPresent
  <2>4. CASE MissBlock(c)
    <3>1. pc'[c] = "run"
      BY <1>4, <2>4 DEF MissBlock, taskVars, consumerVars
    <3> QED BY <2>2, <2>4, <3>1 DEF MissBlock, BlockPresent
  <2>5. CASE ProcessBlock(c)
    <3>1. blocks[msg[c].entity_id] = 0
      BY <1>4, <2>5 DEF ProcessBlock, BlockInv, KnowsItsBlock, Running
    <3>2. trx'[c] = "written"
      BY <2>5 DEF ProcessBlock, TypeOK, BlockTypeOK
    <3> QED BY <3>1, <3>2
  <2> QED BY <2>3, <2>4, <2>5
<1>7. WritesInOrder'
  BY <1>3, <1>5 DEF BlockInv, WritesInOrder
<1>8. KnowsItsBlock'
  BY <1>1, <1>3, <1>6 DEF BlockInv, KnowsItsBlock
<1> QED BY <1>2, <1>7, <1>8 DEF BlockInv

\* A failed attempt leaves nothing of its transaction behind.
LEMMA FailKeepsBlocks ==
    ASSUME IInv, NEW c \in Consumers, Fail(c)
    PROVE  BlockInv'
<1> USE DEF IInv
<1>1. UNCHANGED <<rows, msg, blocks, creating, announcing, followUps, announced>>
  BY DEF Fail, FailTask
<1>2. faults'["crash"] = 0 => faults["crash"] = 0
  BY CrashesAreCounted DEF Fail, FailTask, FaultKind
<1>3. /\ NoDuplicateBlocks' /\ FollowUpsInOrder' /\ OneCallback' /\ FollowUpsLostOnlyByCrash'
      /\ ProcessedTaskHasBlock'
  BY <1>1, <1>2 DEF BlockInv, NoDuplicateBlocks, FollowUpsInOrder, OneCallback,
                    FollowUpsLostOnlyByCrash, ProcessedTaskHasBlock, RowIds
<1>4. /\ pc'[c] = "ack" /\ trx'[c] = "none"
      /\ \A d \in Consumers \ {c} : pc'[d] = pc[d] /\ trx'[d] = trx[d]
  BY DEF Fail, FailTask, TypeOK, TaskTypeOK, HandlerTypeOK, BlockTypeOK
<1>5. WritesInOrder' /\ KnowsItsBlock'
  BY <1>1, <1>4 DEF BlockInv, WritesInOrder, KnowsItsBlock, Running
<1> QED BY <1>3, <1>5 DEF BlockInv

\* A crash may lose callbacks: no one counts on them any more.
LEMMA CrashKeepsBlocks ==
    ASSUME IInv, NEW c \in Consumers, Crash(c)
    PROVE  BlockInv'
<1> USE DEF IInv
<1>1. UNCHANGED <<rows, blocks, followUps, announced>>
  BY DEF Crash, ConsumerCrash
<1>2. faults'["crash"] # 0
  BY CrashesAreCounted DEF Crash, ConsumerCrash, FaultKind
<1>3. /\ creating'[c] = {} /\ announcing'[c] = {}
      /\ \A d \in Consumers \ {c} : creating'[d] = creating[d] /\ announcing'[d] = announcing[d]
  BY DEF Crash, TypeOK, BlockTypeOK
<1>4. OneCallback'
  BY <1>1, <1>3 DEF BlockInv, OneCallback
<1>5. /\ NoDuplicateBlocks' /\ FollowUpsInOrder' /\ FollowUpsLostOnlyByCrash'
      /\ ProcessedTaskHasBlock'
  BY <1>1, <1>2 DEF BlockInv, NoDuplicateBlocks, FollowUpsInOrder,
                    FollowUpsLostOnlyByCrash, ProcessedTaskHasBlock, RowIds
<1>6. /\ pc'[c] = "idle" /\ trx'[c] = "none"
      /\ \A d \in Consumers \ {c} : pc'[d] = pc[d] /\ trx'[d] = trx[d] /\ msg'[d] = msg[d]
  BY DEF Crash, ConsumerCrash, TypeOK, TaskTypeOK, HandlerTypeOK, BlockTypeOK
<1>7. WritesInOrder' /\ KnowsItsBlock'
  BY <1>1, <1>6 DEF BlockInv, WritesInOrder, KnowsItsBlock, Running
<1> QED BY <1>4, <1>5, <1>7 DEF BlockInv

\* What a commit does to the block of its task: it is in the database, once,
\* and if this commit put it there then its callback is on the way.
LEMMA CommittedBlock ==
    ASSUME IInv, NEW c \in Consumers, Commit(c),
           NEW b \in EntityIds, b = msg[c].entity_id
    PROVE  /\ blocks'[b] = 1
           /\ \A a \in EntityIds \ {b} : blocks'[a] = blocks[a]
           /\ trx[c] = "written" => blocks[b] = 0 /\ creating'[c] = creating[c] \union {b}
           /\ trx[c] = "none" => blocks[b] = 1 /\ creating'[c] = creating[c]
           /\ trx[c] \in {"none", "written"}
           /\ \A d \in Consumers \ {c} : creating'[d] = creating[d]
<1> USE DEF IInv
<1>1. pc[c] = "done" /\ pc[c] \in Running
  BY DEF Commit, CommitTask, Running
<1>2. trx[c] \in {"none", "written"}
  BY <1>1 DEF BlockInv, WritesInOrder, TypeOK, BlockTypeOK
<1>3. /\ trx[c] = "written" => blocks[b] = 0
      /\ trx[c] = "none" => blocks[b] >= 1
  BY <1>1 DEF BlockInv, KnowsItsBlock
<1>4. blocks \in [EntityIds -> Nat] /\ blocks[b] <= 1
  BY DEF BlockInv, NoDuplicateBlocks, TypeOK, BlockTypeOK
<1>5. CASE trx[c] = "written"
  <2>1. blocks' = [blocks EXCEPT ![b] = @ + 1]
    BY <1>5 DEF Commit, Extracted
  <2>2. creating' = [creating EXCEPT ![c] = @ \union {b}]
    BY <1>5 DEF Commit, CallbackOf
  <2> QED BY <1>3, <1>4, <1>5, <2>1, <2>2 DEF TypeOK, BlockTypeOK
<1>6. CASE trx[c] = "none"
  <2>1. blocks' = blocks
    BY <1>6 DEF Commit, Extracted
  <2>2. creating' = [creating EXCEPT ![c] = @ \union {}]
    BY <1>6 DEF Commit, CallbackOf
  <2>3. blocks[b] = 1
    BY <1>3, <1>4, <1>6
  <2> QED BY <1>6, <2>1, <2>2, <2>3 DEF TypeOK, BlockTypeOK
<1> QED BY <1>2, <1>5, <1>6

LEMMA CommitKeepsBlocks ==
    ASSUME IInv, NEW c \in Consumers, Commit(c)
    PROVE  BlockInv'
<1> USE DEF IInv
<1>1. pc[c] = "done" /\ pc[c] \in Running
  BY DEF Commit, CommitTask, Running
<1>2. PICK b \in EntityIds : b = msg[c].entity_id
  BY <1>1, RunsForARow
<1>3. /\ blocks'[b] = 1
      /\ \A a \in EntityIds \ {b} : blocks'[a] = blocks[a]
      /\ trx[c] = "written" => blocks[b] = 0 /\ creating'[c] = creating[c] \union {b}
      /\ trx[c] = "none" => blocks[b] = 1 /\ creating'[c] = creating[c]
      /\ trx[c] \in {"none", "written"}
      /\ \A d \in Consumers \ {c} : creating'[d] = creating[d]
  BY <1>2, CommittedBlock
<1>4. UNCHANGED <<msg, faults, announcing, followUps, announced>>
  BY DEF Commit, CommitTask
<1>5. /\ pc'[c] = "ack" /\ trx'[c] = "none"
      /\ \A d \in Consumers \ {c} : pc'[d] = pc[d] /\ trx'[d] = trx[d]
  BY DEF Commit, CommitTask, TypeOK, TaskTypeOK, HandlerTypeOK, BlockTypeOK
<1>6. \A d \in Consumers \ {c} : pc[d] \in Running => msg[d].entity_id # b
  BY <1>1, <1>2, OneRunPerEntity DEF TypeOK
<1>7. NoDuplicateBlocks' /\ FollowUpsInOrder'
  <2>1. ASSUME NEW a \in EntityIds
        PROVE  /\ blocks'[a] <= 1
               /\ followUps[a] <= 1 /\ (followUps[a] = 1 => blocks'[a] = 1)
               /\ announced[a] <= 1 /\ (announced[a] = 1 => followUps[a] = 1)
    <3>1. CASE a = b
      BY <1>3, <3>1 DEF BlockInv, FollowUpsInOrder
    <3>2. CASE a # b
      BY <1>3, <3>2 DEF BlockInv, NoDuplicateBlocks, FollowUpsInOrder
    <3> QED BY <3>1, <3>2
  <2> QED BY <1>4, <2>1 DEF NoDuplicateBlocks, FollowUpsInOrder
<1>8. ProcessedTaskHasBlock'
  <2>1. msg[c].collect_uid \in RowsOf(b)
    BY <1>1, <1>2, RunsForARow
  <2>2. /\ RowIds' = RowIds
        /\ \A i \in RowIds : /\ rows'[i].entity_id = rows[i].entity_id
                             /\ i # msg[c].collect_uid => rows'[i] = rows[i]
    BY MarkedRow DEF Commit, TypeOK, TaskTypeOK
  <2>3. ASSUME NEW i \in RowIds, rows'[i].status = "processed"
        PROVE  blocks'[rows[i].entity_id] >= 1
    <3>1. CASE rows[i].entity_id = b
      BY <1>3, <3>1
    <3>2. CASE rows[i].entity_id # b
      <4>1. i # msg[c].collect_uid
        BY <2>1, <3>2 DEF RowsOf
      <4>2. rows[i].status = "processed"
        BY <2>2, <2>3, <4>1
      <4>3. rows \in Seq(Row) /\ i \in 1..Len(rows)
        BY DEF RowIds, TypeOK, TaskTypeOK, TableTypeOK
      <4>4. rows[i].entity_id \in EntityIds
        <5>1. rows[i] \in Row
          BY <4>3
        <5> QED BY <5>1 DEF Row
      <4> QED BY <1>3, <3>2, <4>2, <4>4 DEF BlockInv, ProcessedTaskHasBlock
    <3> QED BY <3>1, <3>2
  <2> QED BY <2>2, <2>3 DEF ProcessedTaskHasBlock
<1>9. WritesInOrder'
  BY <1>5 DEF BlockInv, WritesInOrder
<1>10. KnowsItsBlock'
  <2> SUFFICES ASSUME NEW d \in Consumers \ {c}, pc[d] \in Running
               PROVE  blocks'[msg[d].entity_id] = blocks[msg[d].entity_id]
    BY <1>4, <1>5 DEF BlockInv, KnowsItsBlock, Running
  <2> QED BY <1>3, <1>6, RunsForARow
<1>11. OneCallback'
  <2>1. ASSUME NEW d \in Consumers, NEW a \in EntityIds, a \in creating'[d]
        PROVE  /\ blocks'[a] = 1 /\ followUps[a] = 0
               /\ \A e \in Consumers \ {d} : a \notin creating'[e]
    <3>1. CASE a = b /\ trx[c] = "written"
      <4>1. \A e \in Consumers : b \notin creating[e]
        BY <1>3, <3>1 DEF BlockInv, OneCallback
      <4>2. d = c
        BY <1>3, <2>1, <3>1, <4>1
      <4>3. followUps[b] = 0
        BY <1>3, <3>1 DEF BlockInv, FollowUpsInOrder, TypeOK, BlockTypeOK
      <4> QED BY <1>3, <3>1, <4>1, <4>2, <4>3
    <3>2. CASE a # b \/ trx[c] = "none"
      <4>1. /\ a \in creating[d]
            /\ \A e \in Consumers : a \in creating'[e] => a \in creating[e]
            /\ blocks'[a] = blocks[a]
        BY <1>3, <2>1, <3>2
      <4> QED BY <4>1 DEF BlockInv, OneCallback
    <3> QED BY <1>3, <3>1, <3>2
  <2> QED BY <1>4, <2>1 DEF BlockInv, OneCallback
<1>12. FollowUpsLostOnlyByCrash'
  <2> SUFFICES ASSUME faults["crash"] = 0, NEW a \in EntityIds, blocks'[a] > 0
               PROVE  \/ announced[a] = 1
                      \/ \E d \in Consumers : a \in creating'[d] \union announcing[d]
    BY <1>4 DEF FollowUpsLostOnlyByCrash
  <2>1. CASE a = b /\ trx[c] = "written"
    BY <1>3, <2>1
  <2>2. CASE a # b \/ trx[c] = "none"
    <3>1. blocks[a] > 0
      BY <1>3, <2>2
    <3>2. \A d \in Consumers : creating[d] \subseteq creating'[d]
      BY <1>3
    <3> QED BY <3>1, <3>2 DEF BlockInv, FollowUpsLostOnlyByCrash
  <2> QED BY <1>3, <2>1, <2>2
<1> QED BY <1>7, <1>8, <1>9, <1>10, <1>11, <1>12 DEF BlockInv

\* A callback creates its tasks, then sends them.
LEMMA CallbackKeepsBlocks ==
    ASSUME IInv, NEW c \in Consumers, NEW b \in EntityIds,
           InsertFollowUps(c, b) \/ SendFollowUps(c, b)
    PROVE  BlockInv'
<1> USE DEF IInv
<1>1. UNCHANGED <<taskVars, blocks, trx>>
  BY DEF InsertFollowUps, SendFollowUps
<1>2. NoDuplicateBlocks' /\ ProcessedTaskHasBlock' /\ WritesInOrder' /\ KnowsItsBlock'
  BY <1>1 DEF BlockInv, taskVars, consumerVars, NoDuplicateBlocks, ProcessedTaskHasBlock, RowIds,
              WritesInOrder, KnowsItsBlock
<1>3. /\ creating \in [Consumers -> SUBSET EntityIds] /\ announcing \in [Consumers -> SUBSET EntityIds]
      /\ followUps \in [EntityIds -> Nat] /\ announced \in [EntityIds -> Nat]
  BY DEF TypeOK, BlockTypeOK
<1>4. CASE InsertFollowUps(c, b)
  <2>1. /\ blocks[b] = 1 /\ followUps[b] = 0 /\ announced[b] = 0
        /\ \A d \in Consumers : b \notin announcing[d] /\ (d # c => b \notin creating[d])
    BY <1>3, <1>4 DEF InsertFollowUps, BlockInv, OneCallback, FollowUpsInOrder
  <2>2. /\ followUps'[b] = 1 /\ announced' = announced
        /\ \A a \in EntityIds \ {b} : followUps'[a] = followUps[a]
        /\ creating'[c] = creating[c] \ {b} /\ announcing'[c] = announcing[c] \union {b}
        /\ \A d \in Consumers \ {c} : creating'[d] = creating[d] /\ announcing'[d] = announcing[d]
    BY <1>3, <1>4, <2>1 DEF InsertFollowUps
  <2>3. FollowUpsInOrder'
    BY <1>1, <2>1, <2>2 DEF BlockInv, FollowUpsInOrder
  <2>4. OneCallback'
    BY <1>1, <2>1, <2>2 DEF BlockInv, OneCallback
  <2>5. FollowUpsLostOnlyByCrash'
    BY <1>1, <2>2 DEF BlockInv, FollowUpsLostOnlyByCrash, taskVars
  <2> QED BY <1>2, <2>3, <2>4, <2>5 DEF BlockInv
<1>5. CASE SendFollowUps(c, b)
  <2>1. /\ followUps[b] = 1 /\ announced[b] = 0
        /\ \A d \in Consumers : d # c => b \notin announcing[d]
    BY <1>5 DEF SendFollowUps, BlockInv, OneCallback
  <2>2. /\ announced'[b] = 1 /\ followUps' = followUps /\ creating' = creating
        /\ \A a \in EntityIds \ {b} : announced'[a] = announced[a]
        /\ announcing'[c] = announcing[c] \ {b}
        /\ \A d \in Consumers \ {c} : announcing'[d] = announcing[d]
    BY <1>3, <1>5, <2>1 DEF SendFollowUps
  <2>3. FollowUpsInOrder'
    BY <1>1, <2>1, <2>2 DEF BlockInv, FollowUpsInOrder
  <2>4. OneCallback'
    BY <1>1, <2>1, <2>2 DEF BlockInv, OneCallback
  <2>5. FollowUpsLostOnlyByCrash'
    BY <1>1, <2>2 DEF BlockInv, FollowUpsLostOnlyByCrash, taskVars
  <2> QED BY <1>2, <2>3, <2>4, <2>5 DEF BlockInv
<1> QED BY <1>4, <1>5

LEMMA IInvStep == IInv /\ [Next]_vars => IInv'
<1> SUFFICES ASSUME IInv, [Next]_vars PROVE IInv'
  OBVIOUS
<1>1. TypeOK'
  BY StepOfFramework, TaskTypeStep, BlockTypeStep DEF IInv, TypeOK
<1>2. LockInv'
  BY StepOfFramework, LockInvStep DEF IInv, TypeOK
<1>3. BlockInv'
  <2>1. CASE UNCHANGED vars
    BY <2>1 DEF IInv, BlockInv, vars, blockVars, taskVars, consumerVars, NoDuplicateBlocks,
                ProcessedTaskHasBlock, RowIds, WritesInOrder, KnowsItsBlock, FollowUpsInOrder,
                OneCallback, FollowUpsLostOnlyByCrash
  <2>2. CASE Next
    BY <2>2, ListenerKeepsBlocks, HandlerKeepsBlocks, TaskKeepsBlocks, CommitKeepsBlocks,
       FailKeepsBlocks, CrashKeepsBlocks, CallbackKeepsBlocks
    DEF Next, Processor, Callback
  <2> QED BY <2>1, <2>2
<1> QED BY <1>1, <1>2, <1>3 DEF IInv

LEMMA Invariance == Spec => []IInv
BY IInvInit, IInvStep, PTL DEF Spec

-----------------------------------------------------------------------------
(* What follows from the invariant.                                        *)

\* Two handlers never extract the same block at once: the locks a running handler
\* holds include one that any other handler of the block would need.
THEOREM ExtractionsExclusive == Spec => []OneExtractionAtATime
<1>1. IInv => OneExtractionAtATime
  <2> SUFFICES ASSUME IInv, NEW c \in Consumers, NEW d \in Consumers,
                      c # d, trx[c] # "none", trx[d] # "none"
               PROVE  msg[c].entity_id # msg[d].entity_id
    BY DEF OneExtractionAtATime
  <2>1. pc[c] \in Running /\ pc[d] \in Running
    BY DEF IInv, BlockInv, WritesInOrder, TypeOK, BlockTypeOK, Running
  <2> QED BY <2>1, OneRunPerEntity DEF IInv, TypeOK
<1> QED BY <1>1, Invariance, PTL

\* No block is in the database twice, whatever the number of consumers, duplicate
\* rows, message copies, crashes and redeliveries.
THEOREM BlocksAreUnique == Spec => []NoDuplicateBlocks
<1>1. IInv => NoDuplicateBlocks
  BY DEF IInv, BlockInv
<1> QED BY <1>1, Invariance, PTL

\* Handlers never wait for each other's row locks in a circle, however many there
\* are: whoever holds the row that is waited for waits, if at all, for an older one.
THEOREM NoDeadlockOnRows == Spec => []NoLockDeadlock
<1>1. IInv => NoLockDeadlock
  BY NoCircleOfWaiters DEF IInv, TypeOK
<1> QED BY <1>1, Invariance, PTL

\* A task marked as processed has its block in the database.
THEOREM ProcessedMeansStored == Spec => []ProcessedTaskHasBlock
<1>1. IInv => ProcessedTaskHasBlock
  BY DEF IInv, BlockInv
<1> QED BY <1>1, Invariance, PTL

\* Without a crash, a block in the database has its follow-up tasks announced or
\* a callback on its way to announce them.
THEOREM OnlyCrashesLoseFollowUps == Spec => []FollowUpsLostOnlyByCrash
<1>1. IInv => FollowUpsLostOnlyByCrash
  BY DEF IInv, BlockInv
<1> QED BY <1>1, Invariance, PTL

-----------------------------------------------------------------------------
(* The refinement.  Three steps are seen by BlockExtraction: a row is      *)
(* inserted, a transaction that wrote its block commits, and a callback    *)
(* inserts its tasks.  The others leave its variables alone.               *)

Requested == {b \in EntityIds : RowsOf(b) # {}}

LEMMA RequestStep ==
    ASSUME IInv, NEW b \in EntityIds, InsertTask(b)
    PROVE  Requested' = Requested \union {b}
<1>1. /\ RowsOf(b)' = RowsOf(b) \union {Len(rows) + 1}
      /\ \A a \in EntityIds \ {b} : RowsOf(a)' = RowsOf(a)
  BY InsertedRow DEF InsertTask, IInv, TypeOK, TaskTypeOK
<1>2. RowsOf(b)' # {}
  BY <1>1
<1>3. \A a \in EntityIds : RowsOf(a)' # {} <=> (RowsOf(a) # {} \/ a = b)
  BY <1>1, <1>2
<1>4. Requested' = {a \in EntityIds : RowsOf(a)' # {}}
  BY DEF Requested
<1> QED BY <1>3, <1>4 DEF Requested

LEMMA RequestedUnchanged ==
    ASSUME \A b : RowsOf(b)' = RowsOf(b)
    PROVE  Requested' = Requested
<1>1. Requested' = {b \in EntityIds : RowsOf(b)' # {}}
  BY DEF Requested
<1>2. \A b \in EntityIds : RowsOf(b)' # {} <=> RowsOf(b) # {}
  OBVIOUS
<1> QED BY <1>1, <1>2 DEF Requested

LEMMA ExtractionInit == Init => Extraction!Init
<1> SUFFICES ASSUME Init PROVE Extraction!Init
  OBVIOUS
<1>1. \A b : RowsOf(b) = {}
  BY DEF Init, TaskInit, RowsOf, RowIds
<1> QED BY <1>1 DEF Init, Extraction!Init

LEMMA ExtractionStep ==
    ASSUME IInv, [Next]_vars
    PROVE  [Extraction!Next]_(Extraction!vars)
<1> USE DEF IInv
<1>1. ASSUME \A b : RowsOf(b)' = RowsOf(b), UNCHANGED <<blocks, followUps>>
      PROVE  UNCHANGED Extraction!vars
  BY <1>1, RequestedUnchanged DEF Extraction!vars, Requested
<1>2. ASSUME UNCHANGED <<rows, blocks, followUps>>
      PROVE  UNCHANGED Extraction!vars
  BY <1>1, <1>2 DEF RowsOf, RowIds
<1>3. ASSUME NEW b \in EntityIds, InsertTask(b), UNCHANGED blockVars
      PROVE  Extraction!Next
  BY <1>3, RequestStep DEF blockVars, Requested, Extraction!Next, Extraction!Request
<1>4. CASE Listener
  <2>1. (\E b \in EntityIds : InsertTask(b)) \/ rows' = rows
    BY <1>4 DEF Listener, ListenerStep, SendFreshUid, ReadUnprocessed, SendTask, ListenerCrash
  <2> QED BY <1>2, <1>3, <1>4, <2>1 DEF Listener, blockVars
<1>5. ASSUME NEW c \in Consumers, Deliver(c) \/ Framework(c) \/ Disconnect(c) \/ Fail(c) \/ Crash(c)
      PROVE  UNCHANGED Extraction!vars
  <2>1. UNCHANGED <<rows, blocks, followUps>>
    BY <1>5 DEF Deliver, Receive, Framework, HandlerStep, IncreaseAttempts, SelectRows, LockRow,
                StartTask, SkipTask, Ack, Disconnect, LoseChannel, Fail, FailTask, Crash,
                ConsumerCrash, blockVars
  <2> QED BY <1>2, <2>1
<1>6. ASSUME NEW c \in Consumers, FindBlock(c) \/ MissBlock(c) \/ ProcessBlock(c)
      PROVE  UNCHANGED Extraction!vars
  <2>1. UNCHANGED <<rows, blocks, followUps>>
    BY <1>6 DEF FindBlock, MissBlock, ProcessBlock, FinishTask, taskVars, blockVars
  <2> QED BY <1>2, <2>1
<1>7. ASSUME NEW c \in Consumers, Commit(c)
      PROVE  Extraction!Next \/ UNCHANGED Extraction!vars
  <2>1. pc[c] \in Running
    BY <1>7 DEF Commit, CommitTask, Running
  <2>2. PICK b \in EntityIds : b = msg[c].entity_id
    BY <2>1, RunsForARow
  <2>3. msg[c].collect_uid \in RowsOf(b)
    BY <2>1, <2>2, RunsForARow
  <2>4. \A a : RowsOf(a)' = RowsOf(a)
    BY <1>7, MarkedRow DEF Commit, TypeOK, TaskTypeOK
  <2>5. trx[c] \in {"none", "written"} /\ (trx[c] = "written" => blocks[b] = 0)
    BY <1>7, <2>2, CommittedBlock
  <2>6. followUps' = followUps
    BY <1>7 DEF Commit
  <2>7. CASE trx[c] = "none"
    BY <1>1, <1>7, <2>4, <2>6, <2>7 DEF Commit, Extracted
  <2>8. CASE trx[c] = "written"
    <3>1. blocks' = [blocks EXCEPT ![b] = 1]
      <4>1. blocks' = [blocks EXCEPT ![b] = @ + 1]
        BY <1>7, <2>2, <2>8 DEF Commit, Extracted
      <4>2. blocks[b] + 1 = 1
        BY <2>5, <2>8
      <4> QED BY <4>1, <4>2
    <3>2. b \in Requested /\ Requested' = Requested
      BY <2>3, <2>4, RequestedUnchanged DEF Requested
    <3>3. Extraction!Extract(b)
      BY <2>5, <2>6, <2>8, <3>1, <3>2 DEF Extraction!Extract, Requested
    <3> QED BY <3>3 DEF Extraction!Next
  <2> QED BY <2>5, <2>7, <2>8
<1>8. ASSUME NEW c \in Consumers, NEW b \in EntityIds, InsertFollowUps(c, b)
      PROVE  Extraction!Next
  <2>1. blocks[b] = 1 /\ followUps[b] = 0
    BY <1>8 DEF InsertFollowUps, BlockInv, OneCallback
  <2>2. followUps' = [followUps EXCEPT ![b] = 1] /\ UNCHANGED <<rows, blocks>>
    BY <1>8, <2>1 DEF InsertFollowUps, taskVars
  <2>3. Requested' = Requested
    BY <2>2, RequestedUnchanged DEF RowsOf, RowIds
  <2>4. Extraction!FollowUp(b)
    BY <2>1, <2>2, <2>3 DEF Extraction!FollowUp, Requested
  <2> QED BY <2>4 DEF Extraction!Next
<1>9. ASSUME NEW c \in Consumers, NEW b \in EntityIds, SendFollowUps(c, b)
      PROVE  UNCHANGED Extraction!vars
  BY <1>2, <1>9 DEF SendFollowUps, taskVars
<1>10. CASE UNCHANGED vars
  BY <1>2, <1>10 DEF vars, taskVars, blockVars
<1> QED
  BY <1>4, <1>5, <1>6, <1>7, <1>8, <1>9, <1>10 DEF Next, Processor, Callback

\* The processor implements BlockExtraction: whatever the queue, the locks and
\* the faults do, a block is extracted at most once and only when asked for, and
\* its follow-up tasks are created at most once and only after it.
THEOREM ExtractionImplemented == Spec => ImplementsExtraction
BY ExtractionInit, ExtractionStep, Invariance, PTL DEF Spec, ImplementsExtraction, Extraction!Spec
=============================================================================
