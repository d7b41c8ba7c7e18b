---------------------------- MODULE EraPayoutProofs ----------------------------
(***************************************************************************)
(* Proofs about EraStaking and EraPayout, for any eras, consumers, copies  *)
(* and faults.  First EraStaking: its types, that what is stored of an era *)
(* goes with the status of its task, and that rewards are skipped only     *)
(* before the era before is processed.  They hold in EraPayout too, whose  *)
(* steps are those of EraStaking and of the queues that read an era's rows.*)
(* Then those rows can be told, and that EraPayout implements EraRecords.  *)
(***************************************************************************)
EXTENDS EraPayout, TaskConsumerProofs, SequenceTheorems

-----------------------------------------------------------------------------
(* Every step is a step of the framework, or leaves its variables alone.   *)

LEMMA EraStepOfFramework == [Next]_vars => [TaskNext]_taskVars
<1> SUFFICES ASSUME [Next]_vars PROVE [TaskNext]_taskVars
  OBVIOUS
<1>1. ASSUME NEW e \in EntityIds, AddEraTask(e) PROVE [TaskNext]_taskVars
  BY <1>1 DEF AddEraTask, TaskNext, ListenerStep
<1>2. CASE Messages
  BY <1>2 DEF Messages, TaskNext, ListenerStep
<1>3. ASSUME NEW c \in Consumers, Deliver(c) \/ Framework(c) \/ Disconnect(c)
      PROVE  [TaskNext]_taskVars
  BY <1>3 DEF Deliver, Framework, Disconnect, TaskNext
<1>4. ASSUME NEW c \in Consumers, Processor(c)
      PROVE  [TaskNext]_taskVars
  BY <1>4 DEF Processor, ProcessStakeEra, FindEraStart, SkipRewards, ProcessRewardsEra, Commit,
              TaskNext
<1>5. ASSUME NEW c \in Consumers, Fail(c) \/ Crash(c)
      PROVE  [TaskNext]_taskVars
  BY <1>5 DEF Fail, Crash, TaskNext
<1>6. CASE UNCHANGED vars
  BY <1>6 DEF vars
<1> QED BY <1>1, <1>2, <1>3, <1>4, <1>5, <1>6 DEF Next

-----------------------------------------------------------------------------
(* Type correctness.                                                       *)

LEMMA EraTypeStep ==
    ASSUME TypeOK, [Next]_vars
    PROVE  EraTypeOK'
<1> USE DEF TypeOK
<1>1. ASSUME NEW e \in EntityIds, AddEraTask(e) PROVE EraTypeOK'
  BY <1>1 DEF AddEraTask, eraVars, EraTypeOK
<1>2. CASE Messages
  BY <1>2 DEF Messages, eraVars, EraTypeOK
<1>3. ASSUME NEW c \in Consumers, Deliver(c) \/ Framework(c) \/ Disconnect(c)
      PROVE  EraTypeOK'
  BY <1>3 DEF Deliver, Framework, Disconnect, eraVars, EraTypeOK
<1>4. ASSUME NEW c \in Consumers,
             ProcessStakeEra(c) \/ FindEraStart(c) \/ SkipRewards(c) \/ ProcessRewardsEra(c)
      PROVE  EraTypeOK'
  BY <1>4 DEF ProcessStakeEra, FindEraStart, SkipRewards, ProcessRewardsEra, eraVars, EraTypeOK
<1>5. ASSUME NEW c \in Consumers, Commit(c)
      PROVE  EraTypeOK'
  <2>1. stakes' \in [Era -> Nat]
    BY <1>5, CountOneMore DEF Commit, StakesWith, EraTypeOK
  <2>2. rewards' \in [EntityIds -> Nat]
    BY <1>5, CountOneMore DEF Commit, RewardsWith, EraTypeOK
  <2> QED BY <1>5, <2>1, <2>2 DEF Commit, EraTypeOK
<1>6. ASSUME NEW c \in Consumers, Fail(c) \/ Crash(c)
      PROVE  EraTypeOK'
  BY <1>6 DEF Fail, Crash, EraTypeOK
<1>7. CASE UNCHANGED vars
  BY <1>7 DEF vars, eraVars, EraTypeOK
<1> QED BY <1>1, <1>2, <1>3, <1>4, <1>5, <1>6, <1>7 DEF Next, Processor

\* The variables keep their types, for every value of the constants.
THEOREM EraTypeCorrect == Spec => []TypeOK
<1>1. Init => TypeOK
  <2> SUFFICES ASSUME Init PROVE TypeOK
    OBVIOUS
  <2>1. TaskTypeOK
    BY TaskInitType DEF Init
  <2>2. EraTypeOK
    BY DEF Init, EraTypeOK
  <2> QED BY <2>1, <2>2 DEF TypeOK
<1>2. TypeOK /\ [Next]_vars => TypeOK'
  BY EraStepOfFramework, TaskTypeStep, EraTypeStep DEF TypeOK
<1> QED BY <1>1, <1>2, PTL DEF Spec

-----------------------------------------------------------------------------
(***************************************************************************)
(* The inductive invariant.  An era has one task row; the handler that     *)
(* runs it holds its lock (LockInv), so the status it has checked is the   *)
(* one it will change.                                                     *)
(***************************************************************************)
OneTaskPerEra == \A e \in EntityIds : \A i, j \in RowsOf(e) : i = j

RunsUnprocessed ==
    \A c \in Consumers : pc[c] \in Running => rows[msg[c].collect_uid].status = "not_processed"

PartsInOrder ==
    \A c \in Consumers : /\ trx[c] # "none" => pc[c] \in Running
                         /\ pc[c] = "done" => trx[c] \in {"staked", "rewarded"}

EraInv ==
    /\ OneTaskPerEra
    /\ RunsUnprocessed
    /\ PartsInOrder
    /\ EraStoredWithItsTask

IInv == TypeOK /\ LockInv /\ EraInv

LEMMA EraIInvInit == Init => IInv
<1> SUFFICES ASSUME Init PROVE IInv
  OBVIOUS
<1>1. TypeOK
  BY TaskInitType DEF Init, TypeOK, EraTypeOK
<1>2. LockInv
  BY LockInvInit DEF Init
<1>3. RowIds = {} /\ \A c \in Consumers : pc[c] = "idle"
  BY DEF Init, TaskInit, RowIds
<1>4. \A e \in EntityIds : RowsOf(e) = {} /\ ~ Processed(e)
  BY <1>3 DEF RowsOf, Processed
<1>5. OneTaskPerEra
  BY <1>4 DEF OneTaskPerEra
<1>6. RunsUnprocessed /\ PartsInOrder
  BY <1>3 DEF Init, RunsUnprocessed, PartsInOrder, Running
<1>7. EraStoredWithItsTask
  BY <1>4 DEF Init, EraStoredWithItsTask, Era
<1> QED BY <1>1, <1>2, <1>5, <1>6, <1>7 DEF IInv, EraInv

-----------------------------------------------------------------------------
(* Each step keeps the invariant.                                          *)

\* The task of a running handler is about an era, and is its row.
LEMMA RunsForAnEra ==
    ASSUME TypeOK, LockInv, NEW c \in Consumers, pc[c] \in Running
    PROVE  /\ msg[c].entity_id \in EntityIds
           /\ msg[c].collect_uid \in RowsOf(msg[c].entity_id)
<1>1. msg[c].entity_id \in EntityIds
  BY DEF TypeOK, TaskTypeOK, HandlerTypeOK, Message, Running
<1>2. msg[c].collect_uid \in snap[c] /\ pc[c] \in Locking
  BY DEF LockInv, LocksOnlyWhatIsFound, Running, Locking
<1> QED BY <1>1, <1>2 DEF LockInv, FoundFromTheOldest

\* With the rows as they were, what is stored still goes with them.
LEMMA SameRows ==
    ASSUME EraInv, rows' = rows, stakes' = stakes, rewards' = rewards
    PROVE  OneTaskPerEra' /\ EraStoredWithItsTask'
<1>1. \A e : RowsOf(e)' = RowsOf(e) /\ Processed(e)' = Processed(e)
  BY DEF RowsOf, RowIds, Processed
<1> QED BY <1>1 DEF EraInv, OneTaskPerEra, EraStoredWithItsTask

LEMMA NewTaskKeepsEras ==
    ASSUME IInv, NEW e \in EntityIds, AddEraTask(e)
    PROVE  EraInv'
<1> USE DEF IInv
<1>1. TableTypeOK /\ InsertRow(e) /\ RowsOf(e) = {}
  BY DEF TypeOK, TaskTypeOK, AddEraTask, InsertTask
<1>2. UNCHANGED <<pc, msg, stakes, rewards, trx>>
  BY DEF AddEraTask, InsertTask, consumerVars, eraVars
<1>3. /\ RowsOf(e)' = {Len(rows) + 1}
      /\ \A a \in EntityIds \ {e} : RowsOf(a)' = RowsOf(a)
      /\ \A a \in EntityIds : \A j \in RowsOf(a) : rows'[j] = rows[j]
      /\ rows'[Len(rows) + 1].status = "not_processed"
  <2>1. /\ RowsOf(e)' = RowsOf(e) \union {Len(rows) + 1}
        /\ \A a \in EntityIds \ {e} : RowsOf(a)' = RowsOf(a)
        /\ \A j \in RowIds : rows'[j] = rows[j]
        /\ rows'[Len(rows) + 1] = [entity_id |-> e, status |-> "not_processed"]
    BY <1>1, InsertedRow, Zenon
  <2>2. rows'[Len(rows) + 1].status = "not_processed"
    BY <2>1
  <2>3. \A a \in EntityIds : RowsOf(a) \subseteq RowIds
    BY DEF RowsOf
  <2> QED BY <1>1, <2>1, <2>2, <2>3
<1>4. OneTaskPerEra'
  BY <1>3 DEF EraInv, OneTaskPerEra
<1>5. RunsUnprocessed'
  BY <1>2, <1>3, RunsForAnEra DEF EraInv, RunsUnprocessed
<1>6. PartsInOrder'
  BY <1>2 DEF EraInv, PartsInOrder
<1>7. \A a \in EntityIds : Processed(a)' <=> Processed(a)
  <2>1. ~ Processed(e) /\ ~ Processed(e)'
    BY <1>1, <1>3 DEF Processed
  <2>2. \A a \in EntityIds \ {e} : Processed(a)' = Processed(a)
    BY <1>3 DEF Processed
  <2> QED BY <2>1, <2>2
<1>8. EraStoredWithItsTask'
  BY <1>2, <1>7 DEF EraInv, EraStoredWithItsTask
<1> QED BY <1>4, <1>5, <1>6, <1>8 DEF EraInv

LEMMA MessagesKeepEras ==
    ASSUME IInv, Messages
    PROVE  EraInv'
<1> USE DEF IInv
<1>1. UNCHANGED <<rows, pc, msg, stakes, rewards, trx>>
  BY DEF Messages, ReadUnprocessed, SendTask, ListenerCrash, consumerVars, eraVars
<1>2. RunsUnprocessed' /\ PartsInOrder'
  BY <1>1 DEF EraInv, RunsUnprocessed, PartsInOrder
<1> QED BY <1>1, <1>2, SameRows DEF EraInv

\* A handler that starts has seen the status of its row, and holds it.
LEMMA HandlersKeepEras ==
    ASSUME IInv, NEW c \in Consumers, Deliver(c) \/ Framework(c) \/ Disconnect(c)
    PROVE  EraInv'
<1> USE DEF IInv
<1>1. UNCHANGED <<rows, stakes, rewards, trx>>
  BY DEF Deliver, Receive, Framework, HandlerStep, IncreaseAttempts, SelectRows, LockRow, StartTask,
         SkipTask, Ack, Disconnect, LoseChannel, eraVars
<1>2. \A d \in Consumers \ {c} : pc'[d] = pc[d] /\ msg'[d] = msg[d]
  BY DEF Deliver, Receive, Framework, HandlerStep, IncreaseAttempts, SelectRows, LockRow, StartTask,
         SkipTask, Ack, Disconnect, LoseChannel, TypeOK, TaskTypeOK, HandlerTypeOK
<1>3. pc[c] \in Running => pc'[c] = pc[c] /\ msg'[c] = msg[c]
  BY DEF Deliver, Receive, Framework, HandlerStep, IncreaseAttempts, SelectRows, LockRow, StartTask,
         SkipTask, Ack, Disconnect, LoseChannel, Running
<1>4. pc[c] \notin Running /\ pc'[c] \in Running =>
         /\ pc'[c] = "run" /\ msg'[c] = msg[c]
         /\ rows[msg[c].collect_uid].status = "not_processed"
  BY DEF Deliver, Receive, Framework, HandlerStep, IncreaseAttempts, SelectRows, LockRow, StartTask,
         SkipTask, Ack, Disconnect, LoseChannel, Running, TypeOK, TaskTypeOK, HandlerTypeOK,
         TaskIsCurrent
<1>5. RunsUnprocessed'
  BY <1>1, <1>2, <1>3, <1>4 DEF EraInv, RunsUnprocessed
<1>6. PartsInOrder'
  BY <1>1, <1>2, <1>3, <1>4 DEF EraInv, PartsInOrder, Running
<1> QED BY <1>1, <1>5, <1>6, SameRows DEF EraInv

LEMMA PartsKeepEras ==
    ASSUME IInv, NEW c \in Consumers,
           ProcessStakeEra(c) \/ FindEraStart(c) \/ SkipRewards(c) \/ ProcessRewardsEra(c)
    PROVE  EraInv'
<1> USE DEF IInv
<1>1. UNCHANGED <<rows, msg, stakes, rewards>>
  BY DEF ProcessStakeEra, FindEraStart, SkipRewards, ProcessRewardsEra, FinishTask, taskVars,
         consumerVars, eraVars
<1>2. \A d \in Consumers \ {c} : pc'[d] = pc[d] /\ trx'[d] = trx[d]
  BY DEF ProcessStakeEra, FindEraStart, SkipRewards, ProcessRewardsEra, FinishTask, taskVars,
         consumerVars, eraVars, TypeOK, TaskTypeOK, HandlerTypeOK, EraTypeOK
<1>3. /\ pc[c] = "run"
      /\ pc'[c] \in Running
      /\ pc'[c] = "done" => trx'[c] \in {"staked", "rewarded"}
  BY DEF ProcessStakeEra, FindEraStart, SkipRewards, ProcessRewardsEra, FinishTask, taskVars,
         consumerVars, eraVars, Running, TypeOK, TaskTypeOK, HandlerTypeOK, EraTypeOK
<1>4. RunsUnprocessed'
  BY <1>1, <1>2, <1>3 DEF EraInv, RunsUnprocessed, Running
<1>5. PartsInOrder'
  BY <1>2, <1>3 DEF EraInv, PartsInOrder
<1> QED BY <1>1, <1>4, <1>5, SameRows DEF EraInv

\* A task that ends without a commit leaves nothing behind.
LEMMA RollbackKeepsEras ==
    ASSUME IInv, NEW c \in Consumers, Fail(c) \/ Crash(c)
    PROVE  EraInv'
<1> USE DEF IInv
<1>1. UNCHANGED <<rows, stakes, rewards>>
  BY DEF Fail, FailTask, Crash, ConsumerCrash
<1>2. /\ pc'[c] \in {"ack", "idle"} /\ trx'[c] = "none"
      /\ \A d \in Consumers \ {c} : pc'[d] = pc[d] /\ msg'[d] = msg[d] /\ trx'[d] = trx[d]
  BY DEF Fail, FailTask, Crash, ConsumerCrash, TypeOK, TaskTypeOK, HandlerTypeOK, EraTypeOK
<1>3. RunsUnprocessed' /\ PartsInOrder'
  BY <1>1, <1>2 DEF EraInv, RunsUnprocessed, PartsInOrder, Running
<1> QED BY <1>1, <1>3, SameRows DEF EraInv

\* The commit stores the era and marks its task, of which it is the one row; no
\* other handler runs a task of this era.
LEMMA CommitKeepsEras ==
    ASSUME IInv, NEW c \in Consumers, Commit(c)
    PROVE  EraInv'
<1> USE DEF IInv
<1>1. TableTypeOK /\ TaskTypeOK /\ CommitTask(c) /\ pc[c] \in Running
  BY DEF TypeOK, TaskTypeOK, Commit, CommitTask, Running
<1>2. PICK e \in EntityIds : \E i \in RowsOf(e) : msg[c].entity_id = e /\ msg[c].collect_uid = i
  BY <1>1, RunsForAnEra
<1>2a. PICK uid \in RowsOf(e) : msg[c].entity_id = e /\ msg[c].collect_uid = uid
  BY <1>2
<1>3. /\ \A a : RowsOf(a)' = RowsOf(a)
      /\ \A j \in RowIds : j # uid => rows'[j] = rows[j]
  BY <1>1, <1>2a, MarkedRow
<1>4. rows'[uid].status = "processed"
  <2>1. uid \in RowIds
    BY DEF RowsOf
  <2> QED BY <1>1, <1>2a, <2>1, MarkRow DEF CommitTask, TableTypeOK
<1>5. /\ pc'[c] = "ack" /\ trx'[c] = "none" /\ msg' = msg
      /\ \A d \in Consumers \ {c} : pc'[d] = pc[d] /\ trx'[d] = trx[d]
  BY DEF Commit, CommitTask, TypeOK, TaskTypeOK, HandlerTypeOK, EraTypeOK
<1>6. OneTaskPerEra'
  BY <1>3 DEF EraInv, OneTaskPerEra
<1>7. RunsUnprocessed'
  <2> SUFFICES ASSUME NEW d \in Consumers, d # c, pc[d] \in Running
               PROVE  rows'[msg[d].collect_uid].status = "not_processed"
    BY <1>5 DEF RunsUnprocessed, Running
  <2>1. PICK a \in EntityIds : msg[d].entity_id = a /\ msg[d].collect_uid \in RowsOf(a)
    BY RunsForAnEra
  <2>2. a # e
    BY <1>1, <1>2a, <2>1, OneRunPerEntity
  <2>3. msg[d].collect_uid \in RowIds /\ msg[d].collect_uid # uid
    BY <2>1, <2>2 DEF RowsOf
  <2> QED BY <1>3, <2>3 DEF EraInv, RunsUnprocessed
<1>8. PartsInOrder'
  BY <1>5 DEF EraInv, PartsInOrder, Running
<1>9. ~ Processed(e) /\ Processed(e)'
  <2>1. rows[uid].status = "not_processed" /\ \A i \in RowsOf(e) : i = uid
    BY <1>1, <1>2 DEF EraInv, RunsUnprocessed, OneTaskPerEra
  <2> QED BY <1>2a, <1>3, <1>4, <2>1 DEF Processed
<1>10. \A a \in EntityIds \ {e} : Processed(a)' = Processed(a)
  <2>1. \A a \in EntityIds \ {e} : \A i \in RowsOf(a) : i \in RowIds /\ i # uid
    BY <1>2a DEF RowsOf
  <2> QED BY <1>3, <2>1 DEF Processed
<1>11. EraStoredWithItsTask'
  <2>1. /\ stakes \in [Era -> Nat] /\ rewards \in [EntityIds -> Nat]
        /\ stakes' = [stakes EXCEPT ![e + 1] = @ + 1]
        /\ rewards' = [rewards EXCEPT ![e] = @ + 1] \/ rewards' = rewards
    BY <1>2a DEF Commit, StakesWith, RewardsWith, TypeOK, EraTypeOK
  <2>2. e + 1 \in Era /\ e \in Nat
    BY ErasAssumption DEF Era
  <2>3. stakes[e + 1] = 0 /\ rewards[e] = 0
    BY <1>9, <2>1, <2>2 DEF EraInv, EraStoredWithItsTask
  <2>4. stakes'[e + 1] = 1 /\ rewards'[e] <= 1
    BY <2>1, <2>2, <2>3
  <2>5. \A a \in EntityIds \ {e} : stakes'[a + 1] = stakes[a + 1] /\ rewards'[a] = rewards[a]
    <3>1. \A a \in EntityIds \ {e} : a \in Nat /\ a + 1 # e + 1 /\ a + 1 \in Era
      BY <2>2, ErasAssumption DEF Era
    <3> QED BY <2>1, <3>1
  <2> QED BY <1>9, <1>10, <2>4, <2>5 DEF EraInv, EraStoredWithItsTask
<1> QED BY <1>6, <1>7, <1>8, <1>11 DEF EraInv

LEMMA EraIInvStep == IInv /\ [Next]_vars => IInv'
<1> SUFFICES ASSUME IInv, [Next]_vars PROVE IInv'
  OBVIOUS
<1>1. TypeOK' /\ LockInv'
  BY EraStepOfFramework, TaskTypeStep, EraTypeStep, LockInvStep DEF IInv, TypeOK
<1>2. EraInv'
  <2>1. CASE Next
    BY <2>1, NewTaskKeepsEras, MessagesKeepEras, HandlersKeepEras, PartsKeepEras, CommitKeepsEras,
       RollbackKeepsEras
    DEF Next, Processor
  <2>2. CASE UNCHANGED vars
    <3>1. UNCHANGED <<rows, pc, msg, stakes, rewards, trx>>
      BY <2>2 DEF vars, taskVars, consumerVars, eraVars
    <3>2. RunsUnprocessed' /\ PartsInOrder'
      BY <3>1 DEF IInv, EraInv, RunsUnprocessed, PartsInOrder
    <3> QED BY <3>1, <3>2, SameRows DEF IInv, EraInv
  <2> QED BY <2>1, <2>2
<1> QED BY <1>1, <1>2 DEF IInv

-----------------------------------------------------------------------------
(* The theorems.                                                           *)

\* What is stored of an era goes with the status of its task, whatever crashes,
\* redeliveries and failures there are.
THEOREM ErasStoredOnce == Spec => []EraStoredWithItsTask
<1>1. IInv => EraStoredWithItsTask
  BY DEF IInv, EraInv
<1> QED BY <1>1, EraIInvInit, EraIInvStep, PTL DEF Spec

\* Rewards are skipped only while the task of the era before is not processed.
THEOREM RewardsSkippedTooEarly == Spec => SkippedOnlyTooEarly
<1> DEFINE Skips(c) == pc[c] = "run" /\ pc'[c] = "done" /\ trx'[c] = "staked"
           AskedEarly(c) == \A e \in EntityIds : e + 1 = msg[c].entity_id => ~ Processed(e)
<1>1. IInv /\ [Next]_vars => \A c \in Consumers : Skips(c) => AskedEarly(c)
  <2> SUFFICES ASSUME IInv, [Next]_vars, NEW c \in Consumers, Skips(c) PROVE AskedEarly(c)
    OBVIOUS
  <2>1. SkipRewards(c)
    <3>1. \A d \in Consumers : d # c => ~ (Deliver(d) \/ Framework(d) \/ Disconnect(d)
                                           \/ Processor(d) \/ Fail(d) \/ Crash(d))
      BY DEF IInv, TypeOK, TaskTypeOK, HandlerTypeOK, Deliver, Receive, Framework, HandlerStep,
             IncreaseAttempts, SelectRows, LockRow, StartTask, SkipTask, Ack, Disconnect,
             LoseChannel, Processor, ProcessStakeEra, FindEraStart, SkipRewards, ProcessRewardsEra,
             Commit, CommitTask, FinishTask, Fail, FailTask, Crash, ConsumerCrash, taskVars,
             consumerVars
    <3>2. ~ (Deliver(c) \/ Framework(c) \/ Disconnect(c) \/ Fail(c) \/ Crash(c))
      BY DEF IInv, TypeOK, TaskTypeOK, HandlerTypeOK, Deliver, Receive, Framework, HandlerStep,
             IncreaseAttempts, SelectRows, LockRow, StartTask, SkipTask, Ack, Disconnect,
             LoseChannel, Fail, FailTask, Crash, ConsumerCrash
    <3>3. ~ (ProcessStakeEra(c) \/ FindEraStart(c) \/ ProcessRewardsEra(c) \/ Commit(c))
      BY DEF IInv, TypeOK, EraTypeOK, ProcessStakeEra, FindEraStart, ProcessRewardsEra, Commit,
             CommitTask, taskVars, consumerVars
    <3>4. ~ Messages /\ \A e \in EntityIds : ~ AddEraTask(e)
      BY DEF Messages, ReadUnprocessed, SendTask, ListenerCrash, AddEraTask, InsertTask, consumerVars
    <3>5. ~ UNCHANGED vars
      BY DEF vars, taskVars, consumerVars
    <3> QED BY <3>1, <3>2, <3>3, <3>4, <3>5 DEF Next, Processor
  <2>2. ~ EraStartKnown(msg[c].entity_id)
    BY <2>1 DEF SkipRewards
  <2> SUFFICES ASSUME NEW e \in EntityIds, e + 1 = msg[c].entity_id PROVE ~ Processed(e)
    OBVIOUS
  <2>3. ~ (stakes[e + 1] > 0)
    BY <2>2 DEF EraStartKnown
  <2> QED BY <2>3 DEF IInv, EraInv, EraStoredWithItsTask
<1> QED BY <1>1, EraIInvInit, EraIInvStep, PTL DEF Spec, SkippedOnlyTooEarly

-----------------------------------------------------------------------------
(* EraPayout.                                                               *)

\* What a handler reads is its own: the tables, the queue and its transaction stay.
LEMMA ReadingIsSilent ==
    ASSUME NEW c \in Consumers, Reading(c)
    PROVE  UNCHANGED vars
BY DEF Reading, AskStakers, ProcessStake, AskPayees, ProcessPayout

\* A step of EraPayout is one of EraStaking, or changes nothing EraStaking has.
LEMMA DetailedStep ==
    ASSUME DetailedNext
    PROVE  [Next]_vars
<1>1. CASE \E e \in EntityIds : AddEraTask(e)
  BY <1>1 DEF Next
<1>2. CASE Messages
  BY <1>2 DEF Next
<1>3. ASSUME NEW c \in Consumers,
             \/ Deliver(c) \/ Framework(c) \/ Disconnect(c) \/ SkipRewards(c)
             \/ SaveStakeEra(c) \/ FindStart(c) \/ SaveRewardsEra(c)
             \/ CommitRows(c) \/ FailRows(c) \/ CrashRows(c)
      PROVE  Next
  <2>1. Deliver(c) \/ Framework(c) \/ Disconnect(c) \/ Processor(c) \/ Fail(c) \/ Crash(c)
    BY <1>3 DEF Processor, SaveStakeEra, FindStart, SaveRewardsEra, CommitRows, FailRows, CrashRows
  <2> QED
    BY <2>1 DEF Next
<1>4. ASSUME NEW c \in Consumers, Reading(c)
      PROVE  UNCHANGED vars
  BY <1>4, ReadingIsSilent
<1> QED
  BY <1>1, <1>2, <1>3, <1>4 DEF DetailedNext

LEMMA DetailedIsEraStaking == DetailedSpec => Spec
<1>1. PayoutInit => Init
  BY DEF PayoutInit
<1>2. [DetailedNext]_detailedVars => [Next]_vars
  <2>1. CASE DetailedNext
    BY <2>1, DetailedStep
  <2>2. CASE UNCHANGED detailedVars
    BY <2>2 DEF detailedVars
  <2> QED
    BY <2>1, <2>2
<1> QED
  BY <1>1, <1>2, PTL DEF DetailedSpec, Spec

\* So an era's stake is in the database exactly with its task, and its rewards once, with
\* every row read from the node and inserted.
THEOREM PayoutsStoredOnce == DetailedSpec => []EraStoredWithItsTask
BY DetailedIsEraStaking, ErasStoredOnce

-----------------------------------------------------------------------------
(***************************************************************************)
(* Sequences that list the members of a set, each of them once.            *)
(***************************************************************************)
Lists(s, S) ==
    /\ s \in Seq(S)
    /\ \A i, j \in 1..Len(s) : s[i] = s[j] => i = j
    /\ \A x \in S : \E i \in 1..Len(s) : s[i] = x

LEMMA ListsNothing == Lists(<<>>, {})
BY DEF Lists

LEMMA ListsAppend ==
    ASSUME NEW s, NEW S, Lists(s, S), NEW x, x \notin S
    PROVE  Lists(Append(s, x), S \union {x})
<1>1. PICK T : T = S \union {x}
  OBVIOUS
<1>2. PICK t : t = Append(s, x)
  OBVIOUS
<1>3. s \in Seq(T) /\ x \in T /\ s \in Seq(S)
  BY <1>1, SeqMonotonic DEF Lists
<1>4. t \in Seq(T) /\ Len(t) = Len(s) + 1
  BY <1>2, <1>3
<1>5. Len(s) \in Nat /\ t[Len(s) + 1] = x /\ \A i \in 1..Len(s) : t[i] = s[i] /\ s[i] \in S
  BY <1>2, <1>3
<1>6. \A i, j \in 1..Len(t) : t[i] = t[j] => i = j
  <2>1. \A i \in 1..Len(t) : i \in 1..Len(s) \/ i = Len(s) + 1
    BY <1>4, <1>5
  <2> QED BY <1>5, <2>1 DEF Lists
<1>7. ASSUME NEW y \in T PROVE \E i \in 1..Len(t) : t[i] = y
  <2>1. CASE y \in S
    <3>1. PICK i \in 1..Len(s) : s[i] = y
      BY <2>1 DEF Lists
    <3> QED BY <1>4, <1>5, <3>1
  <2>2. CASE y = x
    BY <1>4, <1>5, <2>2
  <2> QED BY <1>1, <2>1, <2>2
<1> QED BY <1>1, <1>2, <1>4, <1>6, <1>7 DEF Lists

LEMMA ListsConcat ==
    ASSUME NEW s, NEW S, Lists(s, S), NEW t, NEW T, Lists(t, T), S \intersect T = {}
    PROVE  Lists(s \o t, S \union T)
<1>1. PICK U : U = S \union T
  OBVIOUS
<1>2. PICK u : u = s \o t
  OBVIOUS
<1>3. s \in Seq(U) /\ t \in Seq(U) /\ s \in Seq(S) /\ t \in Seq(T)
  BY <1>1, SeqMonotonic DEF Lists
<1>4. u \in Seq(U) /\ Len(u) = Len(s) + Len(t) /\ Len(s) \in Nat /\ Len(t) \in Nat
  BY <1>2, <1>3
<1>5. /\ \A i \in 1..Len(s) : u[i] = s[i] /\ s[i] \in S
      /\ \A i \in Len(s) + 1..Len(u) : u[i] = t[i - Len(s)] /\ i - Len(s) \in 1..Len(t)
      /\ \A i \in 1..Len(t) : t[i] \in T
  BY <1>2, <1>3, <1>4
<1>6. \A i, j \in 1..Len(u) : u[i] = u[j] => i = j
  <2> SUFFICES ASSUME NEW i \in 1..Len(u), NEW j \in 1..Len(u), u[i] = u[j] PROVE i = j
    OBVIOUS
  <2>1. CASE i \in 1..Len(s) /\ j \in 1..Len(s)
    BY <1>5, <2>1 DEF Lists
  <2>2. CASE i \in Len(s) + 1..Len(u) /\ j \in Len(s) + 1..Len(u)
    <3>1. PICK k \in 1..Len(t), l \in 1..Len(t) : k = i - Len(s) /\ l = j - Len(s)
      BY <1>5, <2>2
    <3>2. t[k] = t[l]
      BY <1>5, <2>2, <3>1
    <3>3. k = l
      BY <3>2 DEF Lists
    <3> QED BY <1>4, <2>2, <3>1, <3>3
  <2>3. CASE \/ i \in 1..Len(s) /\ j \in Len(s) + 1..Len(u)
             \/ j \in 1..Len(s) /\ i \in Len(s) + 1..Len(u)
    BY <1>5, <2>3
  <2> QED BY <1>4, <2>1, <2>2, <2>3
<1>7. ASSUME NEW y \in U PROVE \E i \in 1..Len(u) : u[i] = y
  <2>1. CASE y \in S
    <3>1. PICK i \in 1..Len(s) : s[i] = y
      BY <2>1 DEF Lists
    <3> QED BY <1>4, <1>5, <3>1
  <2>2. CASE y \in T
    <3>1. PICK i \in 1..Len(t) : t[i] = y
      BY <2>2 DEF Lists
    <3>2. Len(s) + i \in Len(s) + 1..Len(u) /\ (Len(s) + i) - Len(s) = i
      BY <1>4
    <3>3. u[Len(s) + i] = y
      BY <1>5, <3>1, <3>2
    <3> QED BY <1>4, <3>3
  <2> QED BY <1>1, <2>1, <2>2
<1> QED BY <1>1, <1>2, <1>4, <1>6, <1>7 DEF Lists

LEMMA ListsWithout ==
    ASSUME NEW s, NEW S, Lists(s, S), NEW i \in 1..Len(s)
    PROVE  Lists(RemoveAt(s, i), S \ {s[i]})
<1>1. s \in Seq(S) /\ Len(s) \in Nat
  BY DEF Lists
<1>2. PICK r : r = RemoveAt(s, i)
  OBVIOUS
<1>3. PICK n \in Nat : n = Len(s)
  BY <1>1
<1>4. PICK a, b : a = SubSeq(s, 1, i - 1) /\ b = SubSeq(s, i + 1, n)
  OBVIOUS
<1>5. /\ a \in Seq(S) /\ Len(a) = i - 1 /\ \A j \in 1..i - 1 : a[j] = s[j]
      /\ b \in Seq(S) /\ Len(b) = n - i /\ \A j \in 1..n - i : b[j] = s[i + j]
  BY <1>1, <1>3, <1>4
<1>6. /\ r \in Seq(S) /\ Len(r) = n - 1
      /\ \A j \in 1..n - 1 : r[j] = IF j < i THEN s[j] ELSE s[j + 1]
  <2>1. r = a \o b
    BY <1>2, <1>3, <1>4 DEF RemoveAt
  <2>2. r \in Seq(S) /\ Len(r) = n - 1
    BY <1>3, <1>5, <2>1
  <2>3. \A j \in 1..n - 1 : r[j] = IF j <= i - 1 THEN a[j] ELSE b[j - (i - 1)]
    BY <1>3, <1>5, <2>1
  <2>4. ASSUME NEW j \in 1..n - 1 PROVE r[j] = IF j < i THEN s[j] ELSE s[j + 1]
    <3>1. CASE j < i
      BY <1>3, <1>5, <2>3, <3>1
    <3>2. CASE ~ (j < i)
      <4>1. j - (i - 1) \in 1..n - i /\ i + (j - (i - 1)) = j + 1
        BY <1>3, <3>2
      <4>2. r[j] = b[j - (i - 1)]
        BY <1>3, <2>3, <3>2
      <4>3. b[j - (i - 1)] = s[i + (j - (i - 1))]
        BY <1>5, <4>1
      <4> QED BY <3>2, <4>1, <4>2, <4>3
    <3> QED BY <3>1, <3>2
  <2> QED BY <2>2, <2>4
<1> DEFINE At(j) == IF j < i THEN j ELSE j + 1
<1>7. /\ \A j \in 1..n - 1 : r[j] = s[At(j)] /\ At(j) \in 1..n /\ At(j) # i
      /\ \A j, k \in 1..n - 1 : At(j) = At(k) => j = k
  BY <1>3, <1>6
<1> HIDE DEF At
<1>8. \A j, k \in 1..n : s[j] = s[k] => j = k
  BY <1>3 DEF Lists
<1>9. \A j \in 1..n - 1 : r[j] \in S \ {s[i]}
  BY <1>1, <1>3, <1>7, <1>8
<1>10. r \in Seq(S \ {s[i]})
  BY <1>3, <1>6, <1>9
<1>11. ASSUME NEW j \in 1..Len(r), NEW k \in 1..Len(r), r[j] = r[k] PROVE j = k
  <2>1. j \in 1..n - 1 /\ k \in 1..n - 1
    BY <1>6
  <2>2. s[At(j)] = s[At(k)] /\ At(j) \in 1..n /\ At(k) \in 1..n
    BY <1>7, <1>11, <2>1
  <2>3. At(j) = At(k)
    BY <1>8, <2>2
  <2> QED BY <1>7, <2>1, <2>3
<1>12. ASSUME NEW x \in S \ {s[i]} PROVE \E j \in 1..Len(r) : r[j] = x
  <2>1. PICK k \in 1..n : s[k] = x /\ k # i
    BY <1>3 DEF Lists
  <2>2. CASE k < i
    BY <1>3, <1>6, <2>1, <2>2
  <2>3. CASE k > i
    <3>1. k - 1 \in 1..n - 1 /\ ~ (k - 1 < i) /\ (k - 1) + 1 = k
      BY <1>3, <2>3
    <3> QED BY <1>6, <2>1, <3>1
  <2> QED BY <1>3, <2>1, <2>2, <2>3
<1> QED BY <1>2, <1>10, <1>11, <1>12 DEF Lists

\* It lists what is in it.
LEMMA ListsRange ==
    ASSUME NEW s, NEW S, Lists(s, S)
    PROVE  ToSet(s) = S /\ DOMAIN s = 1..Len(s) /\ Len(s) \in Nat
<1>1. DOMAIN s = 1..Len(s) /\ Len(s) \in Nat
  BY DEF Lists
<1> QED BY <1>1 DEF Lists, ToSet

LEMMA ListsReplace ==
    ASSUME NEW s, NEW S, Lists(s, S), NEW i \in 1..Len(s), NEW x, x \notin S \ {s[i]}
    PROVE  Lists([s EXCEPT ![i] = x], (S \ {s[i]}) \union {x})
<1>1. PICK n \in Nat : n = Len(s) /\ s \in Seq(S)
  BY DEF Lists
<1>2. PICK T : T = (S \ {s[i]}) \union {x}
  OBVIOUS
<1>3. PICK t : t = [s EXCEPT ![i] = x]
  OBVIOUS
<1>4. s = [j \in 1..n |-> s[j]] /\ \A j \in 1..n : s[j] \in S
  BY <1>1
<1>5. t = [j \in 1..n |-> IF j = i THEN x ELSE s[j]]
  BY <1>1, <1>3, <1>4
<1>6. \A j \in 1..n, k \in 1..n : s[j] = s[k] => j = k
  BY <1>1 DEF Lists
<1>7. \A j \in 1..n : t[j] \in T
  <2> SUFFICES ASSUME NEW j \in 1..n PROVE t[j] \in T
    OBVIOUS
  <2>1. CASE j = i
    BY <1>2, <1>5, <2>1
  <2>2. CASE j # i
    BY <1>1, <1>2, <1>4, <1>5, <1>6, <2>2
  <2> QED BY <2>1, <2>2
<1>8. t \in Seq(T) /\ Len(t) = n
  BY <1>5, <1>7
<1>9. \A j \in 1..n, k \in 1..n : t[j] = t[k] => j = k
  <2> SUFFICES ASSUME NEW j \in 1..n, NEW k \in 1..n, t[j] = t[k] PROVE j = k
    OBVIOUS
  <2>1. \A l \in 1..n : l # i => s[l] \in S \ {s[i]} /\ t[l] = s[l]
    BY <1>1, <1>4, <1>5, <1>6
  <2>2. t[i] = x
    BY <1>1, <1>5
  <2>3. CASE j = i \/ k = i
    BY <2>1, <2>2, <2>3
  <2>4. CASE j # i /\ k # i
    BY <1>6, <2>1, <2>4
  <2> QED BY <2>3, <2>4
<1>10. ASSUME NEW y \in T PROVE \E j \in 1..n : t[j] = y
  <2>1. CASE y = x
    BY <1>1, <1>5, <2>1
  <2>2. CASE y \in S /\ y # s[i]
    <3>1. PICK j \in 1..n : s[j] = y
      BY <1>1, <2>2 DEF Lists
    <3> QED BY <1>5, <2>2, <3>1
  <2> QED BY <1>2, <2>1, <2>2
<1> QED BY <1>2, <1>3, <1>8, <1>9, <1>10 DEF Lists

\* A function of each member, if no two of them have the same.
LEMMA ListsMapped ==
    ASSUME NEW s, NEW S, Lists(s, S), NEW F, \A x, y \in S : F[x] = F[y] => x = y,
           NEW n \in Nat, n = Len(s)
    PROVE  Lists([i \in 1..n |-> F[s[i]]], {F[x] : x \in S})
<1>1. PICK t, T : t = [i \in 1..n |-> F[s[i]]] /\ T = {F[x] : x \in S}
  OBVIOUS
<1>2. \A i \in 1..n : s[i] \in S
  BY DEF Lists
<1>3. \A i \in 1..n : t[i] = F[s[i]] /\ t[i] \in T
  BY <1>1, <1>2
<1>4. t \in Seq(T) /\ Len(t) = n
  BY <1>1, <1>3
<1>5. \A i, j \in 1..n : t[i] = t[j] => i = j
  BY <1>2, <1>3 DEF Lists
<1>6. \A y \in T : \E i \in 1..n : t[i] = y
  <2> SUFFICES ASSUME NEW x \in S PROVE \E i \in 1..n : t[i] = F[x]
    BY <1>1
  <2>1. PICK i \in 1..n : s[i] = x
    BY DEF Lists
  <2> QED BY <1>3, <2>1
<1> QED BY <1>1, <1>4, <1>5, <1>6 DEF Lists

\* What comes first and what comes after it have nothing in common.
LEMMA ListsSplit ==
    ASSUME NEW s, NEW S, Lists(s, S), NEW n \in Nat, n <= Len(s)
    PROVE  \E A \in SUBSET S : /\ Lists(SubSeq(s, 1, n), A)
                               /\ Lists(SubSeq(s, n + 1, Len(s)), S \ A)
<1>1. PICK m \in Nat : m = Len(s) /\ s \in Seq(S)
  BY DEF Lists
<1>2. PICK a, b : a = SubSeq(s, 1, n) /\ b = SubSeq(s, n + 1, m)
  OBVIOUS
<1>3. /\ a \in Seq(S) /\ Len(a) = n /\ \A j \in 1..n : a[j] = s[j]
      /\ b \in Seq(S) /\ Len(b) = m - n /\ \A j \in 1..m - n : b[j] = s[n + j]
  BY <1>1, <1>2
<1>4. PICK A : A = {s[j] : j \in 1..n}
  OBVIOUS
<1>5. /\ \A j \in 1..m : s[j] \in S
      /\ \A j, k \in 1..m : s[j] = s[k] => j = k
      /\ \A x \in S : \E j \in 1..m : s[j] = x
  BY <1>1 DEF Lists
<1>6. A \in SUBSET S
  BY <1>1, <1>4, <1>5
<1>7. Lists(a, A)
  <2>1. \A j \in 1..n : a[j] \in A
    BY <1>3, <1>4
  <2>2. a \in Seq(A)
    BY <1>3, <2>1
  <2>3. \A j, k \in 1..n : a[j] = a[k] => j = k
    <3> SUFFICES ASSUME NEW j \in 1..n, NEW k \in 1..n, a[j] = a[k] PROVE j = k
      OBVIOUS
    <3>1. j \in 1..m /\ k \in 1..m
      BY <1>1
    <3>2. s[j] = s[k]
      BY <1>3
    <3> QED BY <1>5, <3>1, <3>2
  <2> QED BY <1>3, <1>4, <2>2, <2>3 DEF Lists
<1>8. Lists(b, S \ A)
  <2>1. ASSUME NEW j \in 1..m - n PROVE n + j \in 1..m /\ n + j \notin 1..n /\ b[j] = s[n + j]
    BY <1>1, <1>3
  <2>2. \A j \in 1..m - n : b[j] \in S \ A
    <3> SUFFICES ASSUME NEW j \in 1..m - n PROVE s[n + j] \in S \ A
      BY <2>1
    <3>1. \A k \in 1..n : k \in 1..m
      BY <1>1
    <3>2. \A k \in 1..n : s[k] # s[n + j]
      BY <1>5, <2>1, <3>1
    <3> QED BY <1>4, <1>5, <2>1, <3>2
  <2>3. b \in Seq(S \ A)
    BY <1>3, <2>2
  <2>4. \A j, k \in 1..m - n : b[j] = b[k] => j = k
    <3> SUFFICES ASSUME NEW j \in 1..m - n, NEW k \in 1..m - n, b[j] = b[k] PROVE j = k
      OBVIOUS
    <3>1. n + j = n + k
      BY <1>5, <2>1
    <3> QED BY <3>1
  <2>5. \A x \in S \ A : \E j \in 1..m - n : b[j] = x
    <3> SUFFICES ASSUME NEW x \in S \ A PROVE \E j \in 1..m - n : b[j] = x
      OBVIOUS
    <3>1. PICK k \in 1..m : s[k] = x
      BY <1>5
    <3>2. k \notin 1..n
      BY <1>4, <3>1
    <3>3. k - n \in 1..m - n /\ n + (k - n) = k
      BY <1>1, <3>2
    <3> QED BY <1>3, <3>1, <3>3
  <2> QED BY <1>3, <2>3, <2>4, <2>5 DEF Lists
<1> QED BY <1>1, <1>2, <1>6, <1>7, <1>8

\* Induction over the natural numbers, for a set.
LEMMA Induction ==
    ASSUME NEW S, 0 \in S, \A n \in Nat : n \in S => n + 1 \in S
    PROVE  Nat \subseteq S
<1> DEFINE T == Nat \ S
<1> SUFFICES ASSUME T # {} PROVE FALSE
  OBVIOUS
<1>1. PICK n \in T : \A m \in T : <<m, n>> \notin OpToRel(<, Nat)
  BY NatLessThanWellFounded, WFMin
<1>2. n \in Nat /\ n # 0 /\ n \notin S
  OBVIOUS
<1>3. n - 1 \in Nat /\ (n - 1) + 1 = n
  BY <1>2
<1>4. n - 1 \notin S
  BY <1>2, <1>3
<1>5. <<n - 1, n>> \in OpToRel(<, Nat)
  BY <1>2, <1>3 DEF OpToRel
<1> QED BY <1>1, <1>3, <1>4, <1>5

\* The recursion of OfValidator has a solution.
FilterStep(ns, v, g, n) ==
    IF n = 0 THEN <<>> ELSE IF ns[n].validator = v THEN Append(g[n - 1], ns[n]) ELSE g[n - 1]

LEMMA FilterExists ==
    ASSUME NEW ns, NEW v
    PROVE  \A m \in Nat : \E g : g = [n \in 0..m |-> FilterStep(ns, v, g, n)]
<1> DEFINE S == {m \in Nat : \E g : g = [n \in 0..m |-> FilterStep(ns, v, g, n)]}
<1>1. 0 \in S
  <2>1. PICK g : g = [n \in 0..0 |-> <<>>]
    OBVIOUS
  <2>2. FilterStep(ns, v, g, 0) = <<>>
    BY DEF FilterStep
  <2>3. g = [n \in 0..0 |-> FilterStep(ns, v, g, n)]
    BY <2>1, <2>2
  <2> QED BY <2>3
<1>2. ASSUME NEW m \in Nat, m \in S PROVE m + 1 \in S
  <2>1. PICK g : g = [n \in 0..m |-> FilterStep(ns, v, g, n)]
    BY <1>2
  <2>2. PICK h : h = [n \in 0..m + 1 |-> IF n = m + 1 THEN FilterStep(ns, v, g, m + 1) ELSE g[n]]
    OBVIOUS
  <2>3. \A n \in 0..m : h[n] = g[n]
    BY <2>2
  <2>4. ASSUME NEW n \in 0..m + 1 PROVE FilterStep(ns, v, h, n) = FilterStep(ns, v, g, n)
    <3>1. CASE n = 0
      BY <3>1 DEF FilterStep
    <3>2. CASE n # 0
      <4>1. n - 1 \in 0..m
        BY <3>2
      <4>2. h[n - 1] = g[n - 1]
        BY <2>3, <4>1
      <4> QED BY <4>2 DEF FilterStep
    <3> QED BY <3>1, <3>2
  <2>5. ASSUME NEW n \in 0..m + 1 PROVE h[n] = FilterStep(ns, v, h, n)
    <3>1. CASE n = m + 1
      BY <2>2, <2>4, <3>1
    <3>2. CASE n \in 0..m
      <4>1. g[n] = FilterStep(ns, v, g, n)
        BY <2>1, <3>2
      <4> QED BY <2>3, <2>4, <3>2, <4>1
    <3> QED BY <3>1, <3>2
  <2>6. h = [n \in 0..m + 1 |-> h[n]]
    BY <2>2
  <2>7. h = [n \in 0..m + 1 |-> FilterStep(ns, v, h, n)]
    BY <2>5, <2>6
  <2> QED BY <2>7
<1> HIDE DEF S
<1>3. Nat \subseteq S
  BY <1>1, <1>2, Induction
<1> QED BY <1>3 DEF S

\* The rows of one validator are those of the array that name it, each once.
LEMMA OfValidatorLists ==
    ASSUME NEW ns, NEW S, Lists(ns, S), NEW v
    PROVE  Lists(OfValidator(ns, v), {x \in S : x.validator = v})
<1>1. PICK m \in Nat : m = Len(ns)
  BY DEF Lists
<1>2. \E g : g = [n \in 0..m |-> FilterStep(ns, v, g, n)]
  BY FilterExists
<1>3. PICK g : g = CHOOSE f : f = [n \in 0..m |-> FilterStep(ns, v, f, n)]
  OBVIOUS
<1>4. OfValidator(ns, v) = g[m]
  BY <1>1, <1>3 DEF OfValidator, FilterStep
<1>5. g = [n \in 0..m |-> FilterStep(ns, v, g, n)]
  BY <1>2, <1>3
<1>6. \A n \in 0..m : g[n] = FilterStep(ns, v, g, n)
  BY <1>5
<1> DEFINE Upto(n) == {x \in S : x.validator = v /\ \E k \in 1..n : ns[k] = x}
<1> DEFINE P == {n \in Nat : n <= m => Lists(g[n], Upto(n))}
<1>7. 0 \in P
  <2>1. g[0] = <<>>
    BY <1>1, <1>6 DEF FilterStep
  <2>2. Upto(0) = {}
    OBVIOUS
  <2> QED BY <2>1, <2>2, ListsNothing
<1>8. ASSUME NEW n \in Nat, n \in P PROVE n + 1 \in P
  <2> SUFFICES ASSUME n + 1 <= m PROVE Lists(g[n + 1], Upto(n + 1))
    OBVIOUS
  <2>1. PICK x : x = ns[n + 1] /\ x \in S
    BY <1>1 DEF Lists
  <2>2. Lists(g[n], Upto(n))
    BY <1>8
  <2>3. g[n + 1] = IF x.validator = v THEN Append(g[n], x) ELSE g[n]
    BY <1>6, <2>1 DEF FilterStep
  <2>4. \A k \in 1..n + 1 : k \in 1..n \/ k = n + 1
    OBVIOUS
  <2>5. x \notin Upto(n)
    BY <1>1, <2>1 DEF Lists
  <2>6. CASE x.validator = v
    <3>1. Upto(n + 1) = Upto(n) \union {x}
      BY <2>1, <2>4, <2>6
    <3> HIDE DEF Upto
    <3>2. g[n + 1] = Append(g[n], x)
      BY <2>3, <2>6
    <3> QED BY <2>2, <2>5, <3>1, <3>2, ListsAppend
  <2>7. CASE x.validator # v
    <3>1. Upto(n + 1) = Upto(n)
      BY <2>1, <2>4, <2>7
    <3> QED BY <2>2, <2>3, <2>7, <3>1
  <2> QED BY <2>6, <2>7
<1>9. Lists(g[m], Upto(m))
  <2> HIDE DEF P
  <2>1. m \in P
    BY <1>7, <1>8, Induction
  <2> QED BY <2>1 DEF P
<1>10. Upto(m) = {x \in S : x.validator = v}
  BY <1>1 DEF Lists
<1> QED BY <1>4, <1>9, <1>10

\* Inserted as rows, it is the set.
LEMMA ListsBag ==
    ASSUME NEW s, NEW S, Lists(s, S)
    PROVE  ToBag(s) = SetToBag(S)
<1>1. s \in Seq(S) /\ DOMAIN s = 1..Len(s)
  BY DEF Lists
<1>2. Range(s) = S
  BY <1>1 DEF Lists, Range
<1>3. ASSUME NEW x \in S PROVE Cardinality({i \in DOMAIN s : s[i] = x}) = 1
  <2>1. PICK i \in 1..Len(s) : s[i] = x
    BY DEF Lists
  <2>2. {j \in DOMAIN s : s[j] = x} = {i}
    BY <1>1, <2>1 DEF Lists
  <2> QED BY <2>2, FS_Singleton
<1> QED BY <1>2, <1>3 DEF ToBag, SetToBag

-----------------------------------------------------------------------------
(***************************************************************************)
(* The inductive invariant.  A handler that reads the stake of an era has  *)
(* read that of the validators its queue has lost, as they were when the   *)
(* era began: the start block it has looked up is the era's.  Once it is   *)
(* past that part, what it has inserted is the stake of the era to come.   *)
(* A handler that asks for payees has asked for those of the validators    *)
(* its second queue has lost, and for the nominators these tasks have lost. *)
(***************************************************************************)
\* The workers have left only some of the era's validators to be read.
Reads(w, e) ==
    \E left \in SUBSET Validators(e) :
        /\ Lists(w.todo, left)
        /\ w.step = "staked" => w.todo = <<>>
        /\ Lists(w.validators, ValidatorRows(e, Validators(e) \ left))
        /\ Lists(w.nominators, NominatorRows(e, Validators(e) \ left))

\* A validator whose payee, or some of whose nominators' payees, are still to be asked for.
IsTask(t, e) ==
    /\ t = [validator |-> t.validator, others |-> t.others]
    /\ Lists(t.others, ToSet(t.others))
    /\ \E v \in Validators(e) :
          t.validator = ValidatorRow(v, Exposure[e][v]) /\ ToSet(t.others) \subseteq NominatorRowsOf(e, v)

NotPaid(tasks) == UNION {ToSet(t.others) : t \in tasks}

\* The workers of the second queue have left some of the era's validators, and of these
\* some of their nominators.
Pays(w, e) ==
    LET tasks == ToSet(w.todo) IN
    /\ Lists(w.todo, tasks)
    /\ w.step = "paid" => w.todo = <<>>
    /\ \A t \in tasks : IsTask(t, e)
    /\ \A t, u \in tasks : t.validator = u.validator => t = u
    /\ Lists(w.validatorsResult,
             {PaidValidator(e, r) : r \in ValidatorRows(e, Validators(e)) \ {t.validator : t \in tasks}})
    /\ Lists(w.nominatorsResult,
             {PaidNominator(e, n) : n \in NominatorRows(e, Validators(e)) \ NotPaid(tasks)})

IsWork(w) ==
    w = [step |-> w.step, start |-> w.start, todo |-> w.todo, validators |-> w.validators,
         nominators |-> w.nominators, validatorsResult |-> w.validatorsResult,
         nominatorsResult |-> w.nominatorsResult]

\* The work of a handler whose task is about era id.
WorkOK(w, part, id) ==
    /\ w.step \in Step /\ w.start \in {0, id}
    /\ part \in {"none", "started"}
    /\ w.step = "none" => w.validators = <<>> /\ w.nominators = <<>>
    /\ w.step \in {"stake", "staked"} => Reads(w, IF part = "none" THEN id + 1 ELSE id)
    /\ w.step \in {"payout", "paid"} => part = "started" /\ Pays(w, id)
    /\ w.step \notin {"payout", "paid"} => w.validatorsResult = <<>> /\ w.nominatorsResult = <<>>

\* The era's start is known.
Started(e) == e \in KnownStarts \union DOMAIN stored.stake

IsInsert(r) == r = [stake |-> r.stake, rewards |-> r.rewards]

HandlerInv(c) ==
    /\ IsWork(work[c]) /\ IsInsert(inserts[c])
    /\ trx[c] = "started" => work[c].start = EraId(c)
    /\ work[c] # NoWork => pc[c] = "run" /\ WorkOK(work[c], trx[c], EraId(c))
    /\ inserts[c] # NoRows => pc[c] \in Running
    /\ trx[c] # "none" => inserts[c].stake = StakeOf(EraId(c) + 1)
    /\ trx[c] \in {"started", "rewarded"} => Started(EraId(c))
    /\ trx[c] = "rewarded" => inserts[c].rewards = RewardsOf(EraId(c))

StoredInv ==
    /\ IsInsert(stored)
    /\ DOMAIN stored.stake = {e \in Era : stakes[e] > 0}
    /\ DOMAIN stored.rewards = {e \in EntityIds : rewards[e] > 0}
    /\ \A e \in DOMAIN stored.stake : stored.stake[e] = StakeOf(e)
    /\ \A e \in DOMAIN stored.rewards : stored.rewards[e] = RewardsOf(e) /\ Started(e)

PayoutInv ==
    /\ work = [c \in Consumers |-> work[c]]
    /\ inserts = [c \in Consumers |-> inserts[c]]
    /\ StoredInv
    /\ \A c \in Consumers : HandlerInv(c)

LEMMA NothingAtAll ==
    /\ IsWork(NoWork) /\ IsInsert(NoRows)
    /\ NoWork.start = 0 /\ NoWork.step = "none"
    /\ NoWork.validators = <<>> /\ NoWork.nominators = <<>>
    /\ NoWork.validatorsResult = <<>> /\ NoWork.nominatorsResult = <<>>
    /\ NoRows.stake = <<>> /\ NoRows.rewards = <<>>
BY DEF IsWork, IsInsert, NoWork, NoRows

LEMMA PayoutInvInit == PayoutInit => PayoutInv
<1> SUFFICES ASSUME PayoutInit PROVE PayoutInv
  OBVIOUS
<1>1. \A c \in Consumers : work[c] = NoWork /\ inserts[c] = NoRows /\ trx[c] = "none"
  BY DEF PayoutInit, Init
<1>2. \A c \in Consumers : HandlerInv(c)
  BY <1>1, NothingAtAll DEF HandlerInv
<1>3. StoredInv
  <2>1. \A e \in Era : stakes[e] = 0
    BY DEF PayoutInit, Init
  <2>2. \A e \in EntityIds : rewards[e] = 0
    BY DEF PayoutInit, Init
  <2>3. stored = NoRows /\ DOMAIN NoRows.stake = {} /\ DOMAIN NoRows.rewards = {}
    BY NothingAtAll DEF PayoutInit
  <2> QED BY <2>1, <2>2, <2>3, NothingAtAll DEF StoredInv
<1> QED BY <1>2, <1>3 DEF PayoutInv, PayoutInit

\* A handler that runs no task has no work; one that does, and goes on with it, keeps what it
\* has read and inserted.
LEMMA KeepsOn ==
    ASSUME IInv, NEW d \in Consumers, HandlerInv(d),
           work'[d] = work[d], inserts'[d] = inserts[d],
           DOMAIN stored.stake \subseteq DOMAIN stored'.stake,
           pc[d] \in Running => pc'[d] = pc[d] /\ msg'[d] = msg[d] /\ trx'[d] = trx[d],
           pc[d] \notin Running => trx'[d] = "none"
    PROVE  HandlerInv(d)'
<1>1. trx[d] # "none" => pc[d] \in Running
  BY DEF IInv, EraInv, PartsInOrder
<1>2. CASE pc[d] \in Running
  <2>1. Started(EraId(d)) => Started(EraId(d))'
    BY <1>2 DEF Started, EraId
  <2> QED BY <1>2, <2>1 DEF HandlerInv, EraId
<1>3. CASE pc[d] \notin Running
  BY <1>3 DEF HandlerInv, Running
<1> QED BY <1>2, <1>3

\* The steps that have nothing to do with the rows of an era.
LEMMA OthersKeepPayouts ==
    ASSUME IInv, PayoutInv, UNCHANGED payoutVars,
           \/ \E e \in EntityIds : AddEraTask(e)
           \/ Messages
           \/ \E c \in Consumers : Deliver(c) \/ Framework(c) \/ Disconnect(c) \/ SkipRewards(c)
    PROVE  PayoutInv'
<1>1. StoredInv'
  <2>1. UNCHANGED <<stakes, rewards>>
    BY DEF AddEraTask, Messages, Deliver, Framework, Disconnect, SkipRewards, eraVars
  <2> QED BY <2>1 DEF PayoutInv, StoredInv, Started, payoutVars
<1>2. ASSUME NEW d \in Consumers,
             pc[d] \in Running => pc'[d] = pc[d] /\ msg'[d] = msg[d] /\ trx'[d] = trx[d],
             pc[d] \notin Running => trx'[d] = "none"
      PROVE  HandlerInv(d)'
  BY <1>2, KeepsOn DEF PayoutInv, payoutVars
<1>3. \A d \in Consumers : trx[d] # "none" => pc[d] \in Running
  BY DEF IInv, EraInv, PartsInOrder
<1>4. CASE Messages \/ \E e \in EntityIds : AddEraTask(e)
  <2>1. UNCHANGED <<pc, msg, trx>>
    BY <1>4 DEF AddEraTask, InsertTask, Messages, ReadUnprocessed, SendTask, ListenerCrash,
                consumerVars, eraVars
  <2>2. \A d \in Consumers : HandlerInv(d)'
    BY <1>2, <1>3, <2>1
  <2> QED BY <1>1, <2>2 DEF PayoutInv, payoutVars
<1>5. ASSUME NEW c \in Consumers, Deliver(c) \/ Framework(c) \/ Disconnect(c) PROVE PayoutInv'
  <2>1. trx' = trx /\ \A d \in Consumers \ {c} : pc'[d] = pc[d] /\ msg'[d] = msg[d]
    BY <1>5 DEF Deliver, Receive, Framework, HandlerStep, IncreaseAttempts, SelectRows, LockRow,
                StartTask, SkipTask, Ack, Disconnect, LoseChannel, IInv, TypeOK, TaskTypeOK,
                HandlerTypeOK, eraVars
  <2>2. pc[c] \in Running => pc'[c] = pc[c] /\ msg'[c] = msg[c]
    BY <1>5 DEF Deliver, Receive, Framework, HandlerStep, IncreaseAttempts, SelectRows, LockRow,
                StartTask, SkipTask, Ack, Disconnect, LoseChannel, Running
  <2>3. \A d \in Consumers : HandlerInv(d)'
    BY <1>2, <1>3, <2>1, <2>2
  <2> QED BY <1>1, <2>3 DEF PayoutInv, payoutVars
<1>6. ASSUME NEW c \in Consumers, SkipRewards(c) PROVE PayoutInv'
  <2>1. /\ trx' = trx /\ msg' = msg /\ trx[c] = "staked" /\ pc'[c] = "done" /\ pc[c] = "run"
        /\ \A d \in Consumers \ {c} : pc'[d] = pc[d]
    BY <1>6 DEF SkipRewards, FinishTask, IInv, TypeOK, TaskTypeOK, HandlerTypeOK, eraVars
  <2>2. \A d \in Consumers \ {c} : HandlerInv(d)'
    BY <1>2, <1>3, <2>1
  <2>3. HandlerInv(c) /\ work[c] = NoWork
    BY <2>1 DEF PayoutInv, HandlerInv, WorkOK
  <2>4. HandlerInv(c)'
    BY <2>1, <2>3 DEF HandlerInv, EraId, Running, payoutVars
  <2> QED BY <1>1, <2>2, <2>4 DEF PayoutInv, payoutVars
<1> QED BY <1>4, <1>5, <1>6

-----------------------------------------------------------------------------
(* The steps of a handler that reads.                                      *)

LEMMA ReplacedWork ==
    ASSUME PayoutInv, NEW c \in Consumers, NEW w, work' = [work EXCEPT ![c] = w]
    PROVE  /\ work'[c] = w
           /\ \A d \in Consumers \ {c} : work'[d] = work[d]
           /\ work' = [d \in Consumers |-> work'[d]]
BY DEF PayoutInv

LEMMA ReadingKeepsPayouts ==
    ASSUME IInv, PayoutInv, NEW c \in Consumers, NEW w, work' = [work EXCEPT ![c] = w],
           UNCHANGED <<vars, inserts, stored>>,
           IsWork(w), pc[c] = "run", WorkOK(w, trx[c], EraId(c)),
           trx[c] = "started" => w.start = EraId(c)
    PROVE  PayoutInv'
<1>1. /\ work'[c] = w
      /\ \A d \in Consumers \ {c} : work'[d] = work[d]
      /\ work' = [d \in Consumers |-> work'[d]]
  BY ReplacedWork
<1>2. UNCHANGED <<pc, msg, trx, stakes, rewards, inserts, stored>>
  BY DEF vars, taskVars, consumerVars, eraVars
<1>3. HandlerInv(c)'
  <2>1. HandlerInv(c)
    BY DEF PayoutInv
  <2> QED BY <1>1, <1>2, <2>1 DEF HandlerInv, EraId, Started
<1>4. \A d \in Consumers \ {c} : HandlerInv(d)'
  <2>1. \A d \in Consumers : HandlerInv(d) /\ (trx[d] # "none" => pc[d] \in Running)
    BY DEF PayoutInv, IInv, EraInv, PartsInOrder
  <2> QED BY <1>1, <1>2, <2>1, KeepsOn
<1>5. StoredInv' /\ inserts' = [d \in Consumers |-> inserts'[d]]
  BY <1>2 DEF PayoutInv, StoredInv, Started
<1> QED BY <1>1, <1>3, <1>4, <1>5 DEF PayoutInv

\* The era a handler reads the stake of, which it asks for at the block the era starts at.
EraRead(c) == IF trx[c] = "none" THEN EraId(c) + 1 ELSE EraId(c)

LEMMA ReadsAtTheStart ==
    ASSUME IInv, PayoutInv, NEW c \in Consumers, pc[c] = "run", trx[c] \in {"none", "started"}
    PROVE  /\ EraId(c) \in EntityIds /\ EraRead(c) \in Era \cap Nat
           /\ StakedEra(c) = EraRead(c) /\ StakedAt(c) = EraRead(c)
<1>1. EraId(c) \in EntityIds
  BY RunsForAnEra DEF IInv, Running, EraId
<1>2. EraId(c) \in Nat /\ EraId(c) + 1 \in Nat
  <2>1. EraId(c) \in Nat
    BY <1>1, ErasAssumption, Zenon
  <2> QED BY <2>1
<1>3. trx[c] = "started" => work[c].start = EraId(c)
  BY DEF PayoutInv, HandlerInv
<1> QED BY <1>1, <1>2, <1>3 DEF EraRead, StakedEra, StakedAt, PayoutBlock, Era

\* The chain's session and exposures of an era.
LEMMA OfTheChain ==
    ASSUME NEW e \in Era
    PROVE  /\ Lists(Session[e], Validators(e))
           /\ \A v \in Validators(e) :
                /\ v \in DOMAIN Exposure[e]
                /\ Lists([k \in DOMAIN Exposure[e][v].others |-> NominatorRow(v, Exposure[e][v], k)],
                         NominatorRowsOf(e, v))
<1>1. Lists(Session[e], Validators(e))
  <2>1. Session[e] \in Seq(Validators(e)) /\ IsInjective(Session[e])
    BY PayoutAssumption DEF Validators
  <2>2. DOMAIN Session[e] = 1..Len(Session[e])
    BY <2>1
  <2>3. \A i, j \in 1..Len(Session[e]) : Session[e][i] = Session[e][j] => i = j
    BY <2>1, <2>2 DEF IsInjective
  <2>4. \A x \in Validators(e) : \E i \in 1..Len(Session[e]) : Session[e][i] = x
    BY <2>2 DEF Validators, ToSet
  <2> QED BY <2>1, <2>3, <2>4 DEF Lists
<1>2. ASSUME NEW v \in Validators(e)
      PROVE  /\ v \in DOMAIN Exposure[e]
             /\ Lists([k \in DOMAIN Exposure[e][v].others |-> NominatorRow(v, Exposure[e][v], k)],
                      NominatorRowsOf(e, v))
  <2>1. PICK others : others = Exposure[e][v].others
    OBVIOUS
  <2>2. /\ v \in DOMAIN Exposure[e] /\ others \in Seq(ToSet(others))
        /\ \A i, j \in DOMAIN others : others[i].who = others[j].who => i = j
    BY <1>2, <2>1, PayoutAssumption DEF Validators
  <2>3. PICK n \in Nat : n = Len(others) /\ DOMAIN others = 1..n
    BY <2>2
  <2> DEFINE Of(k) == NominatorRow(v, Exposure[e][v], k)
  <2>4. PICK t : t = [k \in 1..n |-> Of(k)]
    OBVIOUS
  <2>5. \A k \in 1..n : Of(k) \in NominatorRowsOf(e, v)
    BY <2>1, <2>3 DEF NominatorRowsOf
  <2>6. t \in Seq(NominatorRowsOf(e, v)) /\ Len(t) = n
    BY <2>4, <2>5, IsASeq
  <2>7. \A i, j \in 1..n : Of(i) = Of(j) => i = j
    BY <2>1, <2>2, <2>3 DEF NominatorRow
  <2>8. \A x \in NominatorRowsOf(e, v) : \E i \in 1..n : Of(i) = x
    BY <2>1, <2>3 DEF NominatorRowsOf
  <2>9. Lists(t, NominatorRowsOf(e, v))
    <3> HIDE DEF Of
    <3> QED BY <2>4, <2>6, <2>7, <2>8 DEF Lists
  <2> QED BY <2>1, <2>2, <2>3, <2>4, <2>9
<1> QED BY <1>1, <1>2

LEMMA AskStakersKeeps ==
    ASSUME IInv, PayoutInv, NEW c \in Consumers, AskStakers(c)
    PROVE  PayoutInv'
<1>1. PICK r : r = work[c]
  OBVIOUS
<1>2. PICK e \in Era : e = EraRead(c)
  BY ReadsAtTheStart DEF AskStakers
<1>3. PICK w : w = [r EXCEPT !.step = "stake", !.todo = Session[e]]
  OBVIOUS
<1>4. work' = [work EXCEPT ![c] = w] /\ r.step = "none" /\ pc[c] = "run" /\ trx[c] \in {"none", "started"}
  BY <1>1, <1>2, <1>3, ReadsAtTheStart DEF AskStakers, FillQueue
<1>5. /\ IsWork(r)
      /\ trx[c] = "started" => r.start = EraId(c)
      /\ r.start \in {0, EraId(c)}
      /\ r.validators = <<>> /\ r.nominators = <<>>
      /\ r.validatorsResult = <<>> /\ r.nominatorsResult = <<>>
  <2>1. HandlerInv(c)
    BY DEF PayoutInv
  <2>2. CASE r = NoWork
    BY <1>1, <2>1, <2>2, NothingAtAll DEF HandlerInv
  <2>3. CASE r # NoWork
    BY <1>1, <1>4, <2>1, <2>3 DEF HandlerInv, WorkOK
  <2> QED BY <2>2, <2>3
<1>6. /\ IsWork(w) /\ w.step = "stake" /\ w.start = r.start /\ w.todo = Session[e]
      /\ w.validators = <<>> /\ w.nominators = <<>>
      /\ w.validatorsResult = <<>> /\ w.nominatorsResult = <<>>
  BY <1>3, <1>5 DEF IsWork
<1>7. Reads(w, e)
  <2>1. Lists(w.todo, Validators(e))
    BY <1>6, OfTheChain
  <2>2. PICK none : none = Validators(e) \ Validators(e)
    OBVIOUS
  <2>3. ValidatorRows(e, none) = {} /\ NominatorRows(e, none) = {}
    BY <2>2 DEF ValidatorRows, NominatorRows
  <2>4. Lists(w.validators, ValidatorRows(e, none)) /\ Lists(w.nominators, NominatorRows(e, none))
    BY <1>6, <2>3, ListsNothing
  <2> QED BY <1>6, <2>1, <2>2, <2>4 DEF Reads
<1>8. WorkOK(w, trx[c], EraId(c))
  BY <1>2, <1>4, <1>5, <1>6, <1>7 DEF WorkOK, EraRead, Step
<1>9. UNCHANGED <<vars, inserts, stored>>
  BY DEF AskStakers
<1> QED BY <1>4, <1>5, <1>6, <1>8, <1>9, ReadingKeepsPayouts

\* What one worker pushes is what was missing of its validator.
LEMMA OneMoreRead ==
    ASSUME NEW e \in Era, NEW left \in SUBSET Validators(e), NEW v \in left,
           NEW ex, ex = Exposure[e][v],
           NEW validators, Lists(validators, ValidatorRows(e, Validators(e) \ left)),
           NEW nominators, Lists(nominators, NominatorRows(e, Validators(e) \ left))
    PROVE  /\ Lists(Append(validators, ValidatorRow(v, ex)),
                    ValidatorRows(e, Validators(e) \ (left \ {v})))
           /\ Lists(nominators \o [k \in DOMAIN ex.others |-> NominatorRow(v, ex, k)],
                    NominatorRows(e, Validators(e) \ (left \ {v})))
<1>2. PICK D : D = Validators(e) \ left
  OBVIOUS
<1>3. Validators(e) \ (left \ {v}) = D \union {v} /\ v \notin D /\ v \in Validators(e)
  BY <1>2
<1>4. PICK R, x : R = ValidatorRows(e, D) /\ x = ValidatorRow(v, ex)
  OBVIOUS
<1>5. ValidatorRows(e, D \union {v}) = R \union {x} /\ x \notin R
  BY <1>3, <1>4 DEF ValidatorRows, ValidatorRow
<1>6. Lists(Append(validators, x), R \union {x})
  BY <1>2, <1>4, <1>5, ListsAppend, Zenon
<1>7. PICK N, M, t : /\ N = NominatorRows(e, D) /\ M = NominatorRowsOf(e, v)
                     /\ t = [k \in DOMAIN ex.others |-> NominatorRow(v, ex, k)]
  OBVIOUS
<1>8. NominatorRows(e, D \union {v}) = N \union M
  BY <1>7 DEF NominatorRows
<1>9. N \intersect M = {}
  <2>1. \A n \in M : n.validator = v
    BY <1>7 DEF NominatorRowsOf, NominatorRow
  <2>2. \A n \in N : n.validator \in D
    <3> SUFFICES ASSUME NEW n \in N PROVE n.validator \in D
      OBVIOUS
    <3>1. PICK u \in D : n \in NominatorRowsOf(e, u)
      BY <1>7 DEF NominatorRows
    <3>2. n.validator = u
      BY <3>1 DEF NominatorRowsOf, NominatorRow
    <3> QED BY <3>2
  <2> QED BY <1>3, <2>1, <2>2
<1>10. Lists(t, M)
  BY <1>3, <1>7, OfTheChain
<1>11. Lists(nominators \o t, N \union M)
  BY <1>2, <1>7, <1>9, <1>10, ListsConcat, Zenon
<1> QED BY <1>3, <1>4, <1>5, <1>6, <1>7, <1>8, <1>11

LEMMA ProcessStakeKeeps ==
    ASSUME IInv, PayoutInv, NEW c \in Consumers, ProcessStake(c)
    PROVE  PayoutInv'
<1>1. PICK r : r = work[c]
  OBVIOUS
<1>2. r.step = "stake" /\ r # NoWork
  BY <1>1, NothingAtAll DEF ProcessStake
<1>3. /\ IsWork(r) /\ pc[c] = "run" /\ WorkOK(r, trx[c], EraId(c))
      /\ trx[c] = "started" => r.start = EraId(c)
  BY <1>1, <1>2 DEF PayoutInv, HandlerInv
<1>4. PICK e \in Era : e = EraRead(c) /\ e \in Nat /\ StakedAt(c) = e /\ StakedEra(c) = e
  BY <1>3, ReadsAtTheStart DEF WorkOK
<1>5. PICK left \in SUBSET Validators(e) :
        /\ Lists(r.todo, left)
        /\ Lists(r.validators, ValidatorRows(e, Validators(e) \ left))
        /\ Lists(r.nominators, NominatorRows(e, Validators(e) \ left))
  BY <1>2, <1>3, <1>4 DEF WorkOK, Reads, EraRead
<1>6. PICK i \in DOMAIN r.todo :
        work' = [work EXCEPT ![c] = StakePushed(r, i, ErasStakers(e, e, r.todo[i]))]
  BY <1>1, <1>4 DEF ProcessStake, InProgress
<1>7. PICK v, todo : v = r.todo[i] /\ todo = RemoveAt(r.todo, i)
  OBVIOUS
<1>8. i \in 1..Len(r.todo) /\ v \in left /\ v \in Validators(e)
  BY <1>5, <1>7 DEF Lists
<1>9. PICK ex : ex = Exposure[e][v] /\ ex = ErasStakers(e, e, v)
  <2>1. v \in DOMAIN Exposure[e] /\ e <= e
    <3>1. v \in DOMAIN Exposure[e]
      BY <1>8, OfTheChain
    <3> QED BY <1>4, <3>1
  <2>2. ErasStakers(e, e, v) = Exposure[e][v]
    BY <2>1 DEF ErasStakers
  <2> QED BY <2>2
<1>10. PICK step : step = IF todo = <<>> THEN "staked" ELSE "stake"
  OBVIOUS
<1>11. PICK vs, ns : /\ vs = Append(r.validators, ValidatorRow(v, ex))
                     /\ ns = r.nominators \o [k \in DOMAIN ex.others |-> NominatorRow(v, ex, k)]
  OBVIOUS
<1>12. PICK w : w = [r EXCEPT !.todo = todo, !.step = step, !.validators = vs, !.nominators = ns]
  OBVIOUS
<1>13. /\ IsWork(w) /\ w.step = step /\ w.start = r.start /\ w.todo = todo
       /\ w.validators = vs /\ w.nominators = ns
       /\ w.validatorsResult = r.validatorsResult /\ w.nominatorsResult = r.nominatorsResult
  BY <1>3, <1>12 DEF IsWork
<1>14. work' = [work EXCEPT ![c] = w]
  BY <1>2, <1>6, <1>7, <1>9, <1>10, <1>11, <1>12 DEF StakePushed, Without
<1>15. Reads(w, e)
  <2>1. Lists(w.todo, left \ {v})
    BY <1>5, <1>7, <1>8, <1>13, ListsWithout
  <2>2. /\ Lists(w.validators, ValidatorRows(e, Validators(e) \ (left \ {v})))
        /\ Lists(w.nominators, NominatorRows(e, Validators(e) \ (left \ {v})))
    <3>1. /\ Lists(Append(r.validators, ValidatorRow(v, ex)),
                   ValidatorRows(e, Validators(e) \ (left \ {v})))
          /\ Lists(r.nominators \o [k \in DOMAIN ex.others |-> NominatorRow(v, ex, k)],
                   NominatorRows(e, Validators(e) \ (left \ {v})))
      BY <1>5, <1>8, <1>9, OneMoreRead, Zenon
    <3> QED BY <1>11, <1>13, <3>1, Zenon
  <2>3. left \ {v} \in SUBSET Validators(e) /\ (w.step = "staked" => w.todo = <<>>)
    BY <1>10, <1>13
  <2> QED BY <2>1, <2>2, <2>3 DEF Reads
<1>16. WorkOK(w, trx[c], EraId(c))
  BY <1>2, <1>3, <1>4, <1>10, <1>13, <1>15 DEF WorkOK, EraRead, Step
<1>17. UNCHANGED <<vars, inserts, stored>>
  BY DEF ProcessStake
<1> QED BY <1>3, <1>13, <1>14, <1>16, <1>17, ReadingKeepsPayouts

\* A row of the rewards has all that the row of the stake has.
LEMMA PaidApart ==
    ASSUME NEW e
    PROVE  /\ \A x, y \in NominatorRows(e, Validators(e)) :
                 PaidNominator(e, x) = PaidNominator(e, y) => x = y
           /\ \A x, y \in ValidatorRows(e, Validators(e)) :
                 PaidValidator(e, x) = PaidValidator(e, y) => x = y
           /\ \A x \in NominatorRows(e, Validators(e)) : StakeNominator(PaidNominator(e, x)) = x
           /\ \A x \in ValidatorRows(e, Validators(e)) : StakeValidator(PaidValidator(e, x)) = x
<1>1. ASSUME NEW x \in NominatorRows(e, Validators(e)) PROVE StakeNominator(PaidNominator(e, x)) = x
  <2>1. PICK v \in Validators(e) : x \in NominatorRowsOf(e, v)
    BY DEF NominatorRows
  <2>2. PICK i : x = NominatorRow(v, Exposure[e][v], i)
    BY <2>1 DEF NominatorRowsOf
  <2> QED BY <2>2 DEF NominatorRow, PaidNominator, StakeNominator
<1>2. ASSUME NEW x \in ValidatorRows(e, Validators(e)) PROVE StakeValidator(PaidValidator(e, x)) = x
  <2>1. PICK v \in Validators(e) : x = ValidatorRow(v, Exposure[e][v])
    BY DEF ValidatorRows
  <2> QED BY <2>1 DEF ValidatorRow, PaidValidator, StakeValidator
<1>3. /\ \A x, y \in NominatorRows(e, Validators(e)) : PaidNominator(e, x) = PaidNominator(e, y) => x = y
  <2> SUFFICES ASSUME NEW x \in NominatorRows(e, Validators(e)), NEW y \in NominatorRows(e, Validators(e)),
                      PaidNominator(e, x) = PaidNominator(e, y)
               PROVE  x = y
    OBVIOUS
  <2>1. StakeNominator(PaidNominator(e, x)) = StakeNominator(PaidNominator(e, y))
    OBVIOUS
  <2> QED BY <1>1, <2>1
<1>4. \A x, y \in ValidatorRows(e, Validators(e)) : PaidValidator(e, x) = PaidValidator(e, y) => x = y
  <2> SUFFICES ASSUME NEW x \in ValidatorRows(e, Validators(e)), NEW y \in ValidatorRows(e, Validators(e)),
                      PaidValidator(e, x) = PaidValidator(e, y)
               PROVE  x = y
    OBVIOUS
  <2>1. StakeValidator(PaidValidator(e, x)) = StakeValidator(PaidValidator(e, y))
    OBVIOUS
  <2> QED BY <1>2, <2>1
<1> QED BY <1>1, <1>2, <1>3, <1>4

\* Whose tasks differ have no rows in common.
LEMMA RowsNameTheirValidator ==
    ASSUME NEW e, NEW v, NEW n \in NominatorRowsOf(e, v)
    PROVE  n.validator = v
BY DEF NominatorRowsOf, NominatorRow

LEMMA TasksApart ==
    ASSUME NEW e, NEW t, NEW u, IsTask(t, e), IsTask(u, e), t.validator # u.validator
    PROVE  ToSet(t.others) \intersect ToSet(u.others) = {}
<1>1. PICK v : t.validator = ValidatorRow(v, Exposure[e][v]) /\ ToSet(t.others) \subseteq NominatorRowsOf(e, v)
  BY DEF IsTask
<1>2. PICK x : u.validator = ValidatorRow(x, Exposure[e][x]) /\ ToSet(u.others) \subseteq NominatorRowsOf(e, x)
  BY DEF IsTask
<1>3. v # x
  BY <1>1, <1>2
<1> QED BY <1>1, <1>2, <1>3, RowsNameTheirValidator

\* The second queue begins with all validators and all their nominators.
LEMMA PayoutTasks ==
    ASSUME NEW e \in Era, NEW r, NEW w,
           Lists(r.validators, ValidatorRows(e, Validators(e))),
           Lists(r.nominators, NominatorRows(e, Validators(e))),
           w.todo = [i \in DOMAIN r.validators |-> PayoutTask(r, r.validators[i])],
           w.step = "payout", w.validatorsResult = <<>>, w.nominatorsResult = <<>>
    PROVE  Pays(w, e)
<1>1. PICK V, N : V = ValidatorRows(e, Validators(e)) /\ N = NominatorRows(e, Validators(e))
  OBVIOUS
<1>2. PICK F : F = [x \in V |-> PayoutTask(r, x)]
  OBVIOUS
<1>3. \A x \in V : F[x].validator = x
  BY <1>2 DEF PayoutTask
<1>4. \A x, y \in V : F[x] = F[y] => x = y
  BY <1>3
<1>5. PICK n \in Nat : n = Len(r.validators) /\ DOMAIN r.validators = 1..n
  BY ListsRange
<1>6. \A i \in 1..n : r.validators[i] \in V
  BY <1>1, <1>5 DEF Lists
<1>7. w.todo = [i \in 1..n |-> F[r.validators[i]]]
  BY <1>2, <1>5, <1>6
<1>8. PICK T : T = {F[x] : x \in V}
  OBVIOUS
<1>9. Lists(w.todo, T)
  BY <1>1, <1>4, <1>5, <1>7, <1>8, ListsMapped
<1>10. ToSet(w.todo) = T
  BY <1>9, ListsRange
<1>11. ASSUME NEW v \in Validators(e), NEW x, x = ValidatorRow(v, Exposure[e][v])
       PROVE  /\ x \in V /\ F[x] = [validator |-> x, others |-> F[x].others]
              /\ ToSet(F[x].others) = NominatorRowsOf(e, v)
              /\ Lists(F[x].others, ToSet(F[x].others))
  <2>1. x \in V /\ x.account_id = v
    BY <1>1, <1>11 DEF ValidatorRows, ValidatorRow
  <2>2. F[x] = [validator |-> x, others |-> OfValidator(r.nominators, v)]
    BY <1>2, <2>1 DEF PayoutTask
  <2>3. Lists(OfValidator(r.nominators, v), {y \in N : y.validator = v})
    BY <1>1, OfValidatorLists
  <2>4. {y \in N : y.validator = v} = NominatorRowsOf(e, v)
    <3>1. NominatorRowsOf(e, v) \subseteq N
      BY <1>1 DEF NominatorRows
    <3>2. ASSUME NEW y \in N, y.validator = v PROVE y \in NominatorRowsOf(e, v)
      <4>1. PICK u \in Validators(e) : y \in NominatorRowsOf(e, u)
        BY <1>1 DEF NominatorRows
      <4> QED BY <3>2, <4>1, RowsNameTheirValidator
    <3> QED BY <3>1, <3>2, RowsNameTheirValidator
  <2>5. Lists(F[x].others, NominatorRowsOf(e, v))
    BY <2>2, <2>3, <2>4
  <2>6. ToSet(F[x].others) = NominatorRowsOf(e, v)
    BY <2>5, ListsRange
  <2> QED BY <2>1, <2>2, <2>5, <2>6
<1>12. \A t \in T : IsTask(t, e)
  <2> SUFFICES ASSUME NEW x \in V PROVE IsTask(F[x], e)
    BY <1>8
  <2>1. PICK v \in Validators(e) : x = ValidatorRow(v, Exposure[e][v])
    BY <1>1 DEF ValidatorRows
  <2> QED BY <1>3, <1>11, <2>1 DEF IsTask
<1>13. \A t, u \in T : t.validator = u.validator => t = u
  BY <1>3, <1>8
<1>14. {t.validator : t \in T} = V
  BY <1>3, <1>8
<1>15. N \ NotPaid(T) = {}
  <2> SUFFICES ASSUME NEW y \in N PROVE y \in NotPaid(T)
    OBVIOUS
  <2>1. PICK v \in Validators(e) : y \in NominatorRowsOf(e, v)
    BY <1>1 DEF NominatorRows
  <2>2. PICK x : x = ValidatorRow(v, Exposure[e][v])
    OBVIOUS
  <2>3. x \in V /\ y \in ToSet(F[x].others)
    BY <1>11, <2>1, <2>2
  <2> QED BY <1>8, <2>3 DEF NotPaid
<1>16. Lists(w.validatorsResult, {PaidValidator(e, x) : x \in V \ {t.validator : t \in T}})
  <2>1. V \ {t.validator : t \in T} = {}
    BY <1>14
  <2>2. {PaidValidator(e, x) : x \in {}} = {}
    OBVIOUS
  <2> QED BY <2>1, <2>2, ListsNothing
<1>17. Lists(w.nominatorsResult, {PaidNominator(e, x) : x \in N \ NotPaid(T)})
  <2>1. {PaidNominator(e, x) : x \in {}} = {}
    OBVIOUS
  <2> QED BY <1>15, <2>1, ListsNothing
<1> QED BY <1>1, <1>9, <1>10, <1>12, <1>13, <1>16, <1>17 DEF Pays

LEMMA AskPayeesKeeps ==
    ASSUME IInv, PayoutInv, NEW c \in Consumers, AskPayees(c)
    PROVE  PayoutInv'
<1>1. PICK r : r = work[c]
  OBVIOUS
<1>2. r.step = "staked" /\ r # NoWork /\ trx[c] = "started"
  BY <1>1, NothingAtAll DEF AskPayees
<1>3. IsWork(r) /\ pc[c] = "run" /\ WorkOK(r, "started", EraId(c)) /\ r.start = EraId(c)
  BY <1>1, <1>2 DEF PayoutInv, HandlerInv
<1>4. PICK e \in Era : e = EraId(c)
  BY <1>2, <1>3, ReadsAtTheStart DEF EraRead
<1>5. PICK left \in SUBSET Validators(e) :
        /\ Lists(<<>>, left)
        /\ Lists(r.validators, ValidatorRows(e, Validators(e) \ left))
        /\ Lists(r.nominators, NominatorRows(e, Validators(e) \ left))
  BY <1>2, <1>3, <1>4 DEF WorkOK, Reads
<1>6. Validators(e) \ left = Validators(e)
  BY <1>5 DEF Lists
<1>7. PICK todo : todo = [i \in DOMAIN r.validators |-> PayoutTask(r, r.validators[i])]
  OBVIOUS
<1>8. PICK w : w = [r EXCEPT !.step = "payout", !.todo = todo]
  OBVIOUS
<1>9. /\ IsWork(w) /\ w.step = "payout" /\ w.start = r.start /\ w.todo = todo
      /\ w.validatorsResult = r.validatorsResult /\ w.nominatorsResult = r.nominatorsResult
  BY <1>3, <1>8 DEF IsWork
<1>10. r.validatorsResult = <<>> /\ r.nominatorsResult = <<>>
  BY <1>2, <1>3 DEF WorkOK
<1>11. Pays(w, e)
  <2>1. /\ Lists(r.validators, ValidatorRows(e, Validators(e)))
        /\ Lists(r.nominators, NominatorRows(e, Validators(e)))
    BY <1>5, <1>6
  <2> QED BY <1>7, <1>9, <1>10, <2>1, PayoutTasks
<1>12. work' = [work EXCEPT ![c] = w] /\ UNCHANGED <<vars, inserts, stored>>
  BY <1>1, <1>7, <1>8 DEF AskPayees, FillQueue
<1>13. WorkOK(w, trx[c], EraId(c))
  BY <1>2, <1>3, <1>4, <1>9, <1>11 DEF WorkOK, Step
<1> QED BY <1>2, <1>3, <1>9, <1>12, <1>13, ReadingKeepsPayouts

\* A chunk's rows go from the task to the results.
ChunkTaken(todo, i, n) ==
    [todo EXCEPT ![i].others = SubSeq(todo[i].others, n + 1, Len(todo[i].others))]
ChunkRows(e, others, n) == [k \in 1..n |-> PaidNominator(e, others[k])]

LEMMA ChunkPaid ==
    ASSUME NEW e, NEW r, Pays(r, e), r.step = "payout",
           NEW i \in DOMAIN r.todo, NEW others, others = r.todo[i].others, others # <<>>,
           NEW n, n = ChunkLen(others),
           NEW w, w.step = "payout", w.validatorsResult = r.validatorsResult,
           w.todo = ChunkTaken(r.todo, i, n),
           w.nominatorsResult = r.nominatorsResult \o ChunkRows(e, others, n)
    PROVE  Pays(w, e)
<1>1. /\ w.todo = [r.todo EXCEPT ![i].others = SubSeq(others, n + 1, Len(others))]
       /\ w.nominatorsResult = r.nominatorsResult \o [k \in 1..n |-> PaidNominator(e, others[k])]
  BY DEF ChunkTaken, ChunkRows
<1>2. PICK T : T = ToSet(r.todo) /\ Lists(r.todo, T)
  BY DEF Pays
<1>3. i \in 1..Len(r.todo)
  BY <1>2, ListsRange
<1>4. PICK t : t = r.todo[i] /\ t \in T
  BY <1>2, <1>3 DEF Lists
<1>5. /\ t = [validator |-> t.validator, others |-> others]
      /\ Lists(others, ToSet(others)) /\ IsTask(t, e)
  BY <1>2, <1>4 DEF Pays, IsTask
<1>6. Len(others) \in Nat /\ Len(others) # 0
  <2>1. others \in Seq(ToSet(others))
    BY <1>5 DEF Lists
  <2> QED BY <2>1
<1>7. n \in Nat /\ n <= Len(others)
  BY <1>6, PayoutAssumption DEF ChunkLen
<1>8. PICK A \in SUBSET ToSet(others) :
        /\ Lists(SubSeq(others, 1, n), A)
        /\ Lists(SubSeq(others, n + 1, Len(others)), ToSet(others) \ A)
  BY <1>5, <1>7, ListsSplit
<1>9. PICK rest : rest = SubSeq(others, n + 1, Len(others)) /\ ToSet(rest) = ToSet(others) \ A
                  /\ Lists(rest, ToSet(rest))
  <2>1. PICK rest : rest = SubSeq(others, n + 1, Len(others))
    OBVIOUS
  <2>2. Lists(rest, ToSet(others) \ A)
    BY <1>8, <2>1
  <2>3. PICK D : D = ToSet(others) \ A
    OBVIOUS
  <2>4. Lists(rest, D)
    BY <2>2, <2>3
  <2>5. ToSet(rest) = D
    BY <2>4, ListsRange
  <2>6. Lists(rest, ToSet(rest))
    BY <2>4, <2>5
  <2> QED BY <2>1, <2>3, <2>5, <2>6, Zenon
<1>10. PICK u : u = [validator |-> t.validator, others |-> rest]
  OBVIOUS
<1>11. w.todo = [r.todo EXCEPT ![i] = u]
  BY <1>4, <1>5, <1>9, <1>10, <1>1
<1>12. IsTask(u, e)
  BY <1>5, <1>9, <1>10 DEF IsTask
<1>13. PICK U : U = (T \ {t}) \union {u}
  OBVIOUS
<1>14. \A x, y \in T : x.validator = y.validator => x = y
  BY <1>2 DEF Pays
<1>15. u \notin T \ {t}
  BY <1>4, <1>10, <1>14
<1>16. Lists(w.todo, U)
  BY <1>2, <1>3, <1>4, <1>11, <1>13, <1>15, ListsReplace
<1>17. ToSet(w.todo) = U
  BY <1>16, ListsRange
<1>18. \A x \in U : IsTask(x, e)
  BY <1>2, <1>12, <1>13 DEF Pays
<1>19. \A x, y \in U : x.validator = y.validator => x = y
  BY <1>4, <1>10, <1>13, <1>14
<1>20. {x.validator : x \in U} = {x.validator : x \in T}
  BY <1>4, <1>10, <1>13
<1>21. NotPaid(U) = NotPaid(T) \ A
  <2>1. \A x \in T \ {t} : ToSet(x.others) \intersect A = {}
    <3> SUFFICES ASSUME NEW x \in T \ {t} PROVE ToSet(x.others) \intersect A = {}
      OBVIOUS
    <3>1. x.validator # t.validator /\ IsTask(x, e)
      BY <1>2, <1>4, <1>14 DEF Pays
    <3>2. ToSet(x.others) \intersect ToSet(t.others) = {}
      BY <1>5, <3>1, TasksApart
    <3>3. t.others = others
      BY <1>4
    <3> QED BY <3>2, <3>3
  <2>2. ToSet(u.others) = ToSet(others) \ A /\ t.others = others
    BY <1>4, <1>9, <1>10
  <2>3. \A x : x \in NotPaid(U) <=> (\E y \in T \ {t} : x \in ToSet(y.others)) \/ x \in ToSet(others) \ A
    BY <1>13, <2>2 DEF NotPaid
  <2>4. \A x : x \in NotPaid(T) <=> (\E y \in T \ {t} : x \in ToSet(y.others)) \/ x \in ToSet(others)
    BY <1>4, <2>2 DEF NotPaid
  <2> QED BY <2>1, <2>3, <2>4
<1>22. PICK N : N = NominatorRows(e, Validators(e))
  OBVIOUS
<1>23. A \subseteq NotPaid(T) /\ A \subseteq N
  <2>1. PICK v \in Validators(e) : ToSet(others) \subseteq NominatorRowsOf(e, v)
    BY <1>4, <1>5 DEF IsTask
  <2> QED BY <1>4, <1>22, <2>1 DEF NotPaid, NominatorRows
<1>24. PICK G : G = [x \in N |-> PaidNominator(e, x)]
  OBVIOUS
<1>25. \A x, y \in N : G[x] = G[y] => x = y
  <2>1. \A x, y \in N : PaidNominator(e, x) = PaidNominator(e, y) => x = y
    BY <1>22, PaidApart
  <2> QED BY <1>24, <2>1
<1>26. Lists([k \in 1..n |-> PaidNominator(e, others[k])], {G[x] : x \in A})
  <2>1. PICK a : a = SubSeq(others, 1, n)
    OBVIOUS
  <2>2. Len(a) = n /\ \A k \in 1..n : a[k] = others[k] /\ a[k] \in A
    <3>1. others \in Seq(ToSet(others)) /\ Lists(a, A)
      <4>1. Lists(a, A)
        BY <1>8, <2>1
      <4>2. others \in Seq(ToSet(others))
        BY <1>5 DEF Lists
      <4> QED BY <4>1, <4>2
    <3>2. Len(a) = n /\ \A k \in 1..n : a[k] = others[k]
      BY <1>6, <1>7, <2>1, <3>1
    <3> QED BY <3>1, <3>2 DEF Lists
  <2>3. [k \in 1..n |-> PaidNominator(e, others[k])] = [k \in 1..n |-> G[a[k]]]
    BY <1>23, <1>24, <2>2
  <2>4. \A x, y \in A : G[x] = G[y] => x = y
    BY <1>23, <1>25
  <2>5. Lists([k \in 1..n |-> G[a[k]]], {G[x] : x \in A})
    <3>1. Lists(a, A)
      BY <1>8, <2>1
    <3>2. n = Len(a)
      BY <2>2
    <3> QED BY <1>7, <2>4, <3>1, <3>2, ListsMapped
  <2> QED BY <2>3, <2>5
<1>27. PICK B : B = N \ NotPaid(T)
  OBVIOUS
<1>28. Lists(r.nominatorsResult, {G[x] : x \in B})
  <2>1. {PaidNominator(e, x) : x \in N \ NotPaid(T)} = {G[x] : x \in B}
    BY <1>24, <1>27
  <2> QED BY <1>2, <1>22, <2>1 DEF Pays
<1>29. {G[x] : x \in B} \intersect {G[x] : x \in A} = {}
  BY <1>23, <1>25, <1>27
<1>30. Lists(w.nominatorsResult, {G[x] : x \in B} \union {G[x] : x \in A})
  BY <1>26, <1>28, <1>29, <1>1, ListsConcat
<1>31. {G[x] : x \in B} \union {G[x] : x \in A} = {PaidNominator(e, x) : x \in N \ NotPaid(U)}
  <2>1. N \ NotPaid(U) = B \union A
    BY <1>21, <1>23, <1>27
  <2>2. B \union A \subseteq N
    BY <1>23, <1>27
  <2> QED BY <1>24, <2>1, <2>2
<1>32. Lists(w.validatorsResult,
             {PaidValidator(e, x) : x \in ValidatorRows(e, Validators(e)) \ {y.validator : y \in U}})
  BY <1>2, <1>20 DEF Pays
<1> QED BY <1>16, <1>17, <1>18, <1>19, <1>22, <1>30, <1>31, <1>32 DEF Pays

\* A task that ends has nobody left to be asked for, but the validator.
LEMMA TaskPaid ==
    ASSUME NEW e, NEW r, Pays(r, e),
           NEW i \in DOMAIN r.todo, r.todo[i].others = <<>>,
           NEW w, w.nominatorsResult = r.nominatorsResult,
           w.todo = RemoveAt(r.todo, i), w.step = "paid" => w.todo = <<>>,
           w.validatorsResult = Append(r.validatorsResult, PaidValidator(e, r.todo[i].validator))
    PROVE  Pays(w, e)
<1>1. PICK T : T = ToSet(r.todo) /\ Lists(r.todo, T)
  BY DEF Pays
<1>2. i \in 1..Len(r.todo)
  BY <1>1, ListsRange
<1>3. PICK t : t = r.todo[i] /\ t \in T /\ t.others = <<>>
  BY <1>1, <1>2 DEF Lists
<1>4. PICK U : U = T \ {t}
  OBVIOUS
<1>5. Lists(w.todo, U)
  BY <1>1, <1>2, <1>3, <1>4, ListsWithout
<1>6. ToSet(w.todo) = U
  BY <1>5, ListsRange
<1>7. (\A x \in U : IsTask(x, e)) /\ (\A x, y \in U : x.validator = y.validator => x = y)
  BY <1>1, <1>4 DEF Pays
<1>8. NotPaid(U) = NotPaid(T)
  <2>1. ToSet(t.others) = {}
    BY <1>3 DEF ToSet
  <2> QED BY <1>4, <2>1 DEF NotPaid
<1>9. PICK V, D : V = ValidatorRows(e, Validators(e)) /\ D = V \ {x.validator : x \in T}
  OBVIOUS
<1>10. PICK z : z = t.validator /\ z \in V
  BY <1>1, <1>3, <1>9 DEF Pays, IsTask, ValidatorRows
<1>11. V \ {x.validator : x \in U} = D \union {z} /\ z \notin D
  <2>1. \A x \in T : x.validator = z => x = t
    BY <1>1, <1>3, <1>10 DEF Pays
  <2> QED BY <1>3, <1>4, <1>9, <1>10, <2>1
<1>12. PICK R : R = {PaidValidator(e, x) : x \in D}
  OBVIOUS
<1>13. PaidValidator(e, z) \notin R
  <2>1. \A x, y \in V : PaidValidator(e, x) = PaidValidator(e, y) => x = y
    BY <1>9, PaidApart
  <2> QED BY <1>9, <1>10, <1>11, <1>12, <2>1
<1>14. Lists(r.validatorsResult, R)
  BY <1>1, <1>9, <1>12 DEF Pays
<1>15. Lists(w.validatorsResult, R \union {PaidValidator(e, z)})
  <2>1. w.validatorsResult = Append(r.validatorsResult, PaidValidator(e, z))
    BY <1>3, <1>10
  <2> QED BY <1>13, <1>14, <2>1, ListsAppend
<1>16. R \union {PaidValidator(e, z)} = {PaidValidator(e, x) : x \in V \ {y.validator : y \in U}}
  BY <1>11, <1>12
<1>17. Lists(w.nominatorsResult, {PaidNominator(e, x) : x \in NominatorRows(e, Validators(e)) \ NotPaid(U)})
  BY <1>1, <1>8 DEF Pays
<1> QED BY <1>5, <1>6, <1>7, <1>9, <1>15, <1>16, <1>17 DEF Pays

LEMMA ProcessPayoutKeeps ==
    ASSUME IInv, PayoutInv, NEW c \in Consumers, ProcessPayout(c)
    PROVE  PayoutInv'
<1>1. PICK r : r = work[c]
  OBVIOUS
<1>2. r.step = "payout" /\ r # NoWork
  BY <1>1, NothingAtAll DEF ProcessPayout
<1>3. /\ IsWork(r) /\ pc[c] = "run" /\ WorkOK(r, trx[c], EraId(c))
      /\ trx[c] = "started" => r.start = EraId(c)
  BY <1>1, <1>2 DEF PayoutInv, HandlerInv
<1>4. PICK e : e = EraId(c) /\ Pays(r, e) /\ trx[c] = "started"
  BY <1>2, <1>3 DEF WorkOK
<1>5. PICK i \in DOMAIN r.todo : work' = [work EXCEPT ![c] = PayeesPushed(r, i, e)]
  BY <1>1, <1>4 DEF ProcessPayout, InProgress
<1>6. PICK others, n, left, step : /\ others = r.todo[i].others /\ n = ChunkLen(others)
                                   /\ left = RemoveAt(r.todo, i)
                                   /\ step = IF left = <<>> THEN "paid" ELSE "payout"
  OBVIOUS
<1>7. PICK w : w = PayeesPushed(r, i, e)
  OBVIOUS
<1>8. IsWork(w) /\ w.start = r.start /\ w.step \in {"payout", "paid"} /\ Pays(w, e)
  <2>1. CASE others # <<>>
    <3>1. PICK todo, ns : /\ todo = [r.todo EXCEPT ![i].others = SubSeq(others, n + 1, Len(others))]
                          /\ ns = r.nominatorsResult \o [k \in 1..n |-> PaidNominator(e, others[k])]
      OBVIOUS
    <3>2. w = [r EXCEPT !.todo = todo, !.nominatorsResult = ns]
      BY <1>3, <1>6, <1>7, <2>1, <3>1 DEF PayeesPushed, IsWork
    <3>3. /\ IsWork(w) /\ w.start = r.start /\ w.step = r.step /\ w.todo = todo
          /\ w.validatorsResult = r.validatorsResult /\ w.nominatorsResult = ns
      BY <1>3, <3>2 DEF IsWork
    <3>4. Pays(w, e)
      <4>1. w.step = "payout" /\ Pays(r, e) /\ r.step = "payout" /\ others = r.todo[i].others /\ n = ChunkLen(others)
        BY <1>2, <1>4, <1>6, <3>3
      <4>2. w.todo = ChunkTaken(r.todo, i, n)
        BY <1>6, <3>1, <3>3 DEF ChunkTaken
      <4>3. w.nominatorsResult = r.nominatorsResult \o ChunkRows(e, others, n)
        BY <3>1, <3>3 DEF ChunkRows
      <4>4. w.step = "payout"
        BY <4>1
      <4>5. w.validatorsResult = r.validatorsResult
        BY <3>3
      <4>6. Pays(r, e)
        BY <4>1
      <4>7. r.step = "payout"
        BY <4>1
      <4>8. others = r.todo[i].others
        BY <4>1
      <4>9. n = ChunkLen(others)
        BY <4>1
      <4> QED BY <2>1, <4>2, <4>3, <4>4, <4>5, <4>6, <4>7, <4>8, <4>9, ChunkPaid
    <3> QED BY <1>2, <3>3, <3>4
  <2>2. CASE others = <<>>
    <3>1. PICK vs : vs = Append(r.validatorsResult, PaidValidator(e, r.todo[i].validator))
      OBVIOUS
    <3>2. w = [r EXCEPT !.todo = left, !.step = step, !.validatorsResult = vs]
      BY <1>2, <1>6, <1>7, <2>2, <3>1 DEF PayeesPushed, Without
    <3>3. /\ IsWork(w) /\ w.start = r.start /\ w.step = step /\ w.todo = left
          /\ w.validatorsResult = vs /\ w.nominatorsResult = r.nominatorsResult
      BY <1>3, <3>2 DEF IsWork
    <3>4. Pays(w, e)
      BY <1>4, <1>6, <2>2, <3>1, <3>3, TaskPaid
    <3> QED BY <1>6, <3>3, <3>4
  <2> QED BY <2>1, <2>2
<1>9. WorkOK(w, trx[c], EraId(c))
  BY <1>3, <1>4, <1>8 DEF WorkOK, Step
<1>10. work' = [work EXCEPT ![c] = w] /\ UNCHANGED <<vars, inserts, stored>>
  BY <1>5, <1>7 DEF ProcessPayout
<1> QED BY <1>3, <1>8, <1>9, <1>10, ReadingKeepsPayouts

-----------------------------------------------------------------------------
(* The steps that insert, commit and give up.                              *)

\* What a handler does to its own work and inserts leaves the other handlers' alone.
LEMMA OneHandlerChanges ==
    ASSUME IInv, PayoutInv, NEW c \in Consumers, NEW w, NEW r,
           work' = [work EXCEPT ![c] = w], inserts' = [inserts EXCEPT ![c] = r],
           \A d \in Consumers \ {c} : pc'[d] = pc[d] /\ msg'[d] = msg[d] /\ trx'[d] = trx[d],
           work'[c] = w /\ inserts'[c] = r => HandlerInv(c)',
           DOMAIN stored.stake \subseteq DOMAIN stored'.stake, StoredInv'
    PROVE  PayoutInv'
<1>1. /\ work'[c] = w
      /\ \A d \in Consumers \ {c} : work'[d] = work[d]
      /\ work' = [d \in Consumers |-> work'[d]]
  BY ReplacedWork
<1>2. /\ inserts'[c] = r
      /\ \A d \in Consumers \ {c} : inserts'[d] = inserts[d]
      /\ inserts' = [d \in Consumers |-> inserts'[d]]
  BY DEF PayoutInv
<1>3. \A d \in Consumers \ {c} : HandlerInv(d)'
  <2>1. \A d \in Consumers : HandlerInv(d) /\ (trx[d] # "none" => pc[d] \in Running)
    BY DEF PayoutInv, IInv, EraInv, PartsInOrder
  <2> QED BY <1>1, <1>2, <2>1, KeepsOn
<1> QED BY <1>1, <1>2, <1>3 DEF PayoutInv

LEMMA SaveStakeKeeps ==
    ASSUME IInv, PayoutInv, NEW c \in Consumers, SaveStakeEra(c)
    PROVE  PayoutInv'
<1>1. PICK r : r = work[c]
  OBVIOUS
<1>2. r.step = "staked" /\ r # NoWork /\ pc[c] = "run" /\ trx[c] = "none"
  BY <1>1, NothingAtAll DEF SaveStakeEra, ProcessStakeEra
<1>3. WorkOK(r, "none", EraId(c))
  BY <1>1, <1>2 DEF PayoutInv, HandlerInv
<1>4. PICK e \in Era : e = EraId(c) + 1
  BY <1>2, ReadsAtTheStart DEF EraRead
<1>5. PICK left \in SUBSET Validators(e) :
        /\ Lists(<<>>, left)
        /\ Lists(r.validators, ValidatorRows(e, Validators(e) \ left))
        /\ Lists(r.nominators, NominatorRows(e, Validators(e) \ left))
  BY <1>2, <1>3, <1>4 DEF WorkOK, Reads
<1>6. Validators(e) \ left = Validators(e)
  BY <1>5 DEF Lists
<1>7. PICK row : row = [start_block_id |-> e, validators |-> ToBag(r.validators),
                        nominators |-> ToBag(r.nominators)]
  OBVIOUS
<1>8. row = StakeOf(e)
  <2>1. ToBag(r.validators) = SetToBag(ValidatorRows(e, Validators(e)))
    BY <1>5, <1>6, ListsBag
  <2>2. ToBag(r.nominators) = SetToBag(NominatorRows(e, Validators(e)))
    BY <1>5, <1>6, ListsBag
  <2> QED BY <1>7, <2>1, <2>2 DEF StakeOf
<1>9. PICK t : t = [inserts[c] EXCEPT !.stake = row]
  OBVIOUS
<1>10. IsInsert(t) /\ t.stake = row
  BY <1>9 DEF PayoutInv, HandlerInv, IsInsert
<1>11. inserts' = [inserts EXCEPT ![c] = t] /\ work' = [work EXCEPT ![c] = NoWork] /\ stored' = stored
  BY <1>1, <1>4, <1>7, <1>9 DEF SaveStakeEra, PayoutBlock
<1>12. /\ UNCHANGED <<pc, msg, stakes, rewards>> /\ trx'[c] = "staked"
       /\ \A d \in Consumers \ {c} : trx'[d] = trx[d]
  BY DEF SaveStakeEra, ProcessStakeEra, taskVars, consumerVars, IInv, TypeOK, EraTypeOK
<1>13. ASSUME work'[c] = NoWork, inserts'[c] = t PROVE HandlerInv(c)'
  <2>1. StakeOf(EraId(c) + 1)' = StakeOf(e)
    BY <1>4, <1>12 DEF EraId, StakeOf, ValidatorRows, NominatorRows, NominatorRowsOf, Validators,
           ValidatorRow, NominatorRow
  <2> QED BY <1>2, <1>8, <1>10, <1>12, <1>13, <2>1, NothingAtAll DEF HandlerInv, Running
<1>14. StoredInv'
  BY <1>11, <1>12 DEF PayoutInv, StoredInv, Started
<1> QED BY <1>11, <1>12, <1>13, <1>14, OneHandlerChanges

\* The start block that is looked up is where the era starts.
LEMMA FindStartKeeps ==
    ASSUME IInv, PayoutInv, NEW c \in Consumers, FindStart(c)
    PROVE  PayoutInv'
<1>1. trx[c] = "staked" /\ pc[c] = "run" /\ EraStartKnown(EraId(c))
  BY DEF FindStart, FindEraStart, EraId
<1>2. EraId(c) \in EntityIds /\ EraId(c) \in Era
  BY <1>1, RunsForAnEra DEF IInv, Running, EraId, Era
<1>3. StartBlock(EraId(c)) = EraId(c)
  <2>1. CASE EraId(c) \in KnownStarts
    BY <2>1 DEF StartBlock
  <2>2. CASE EraId(c) \notin KnownStarts
    <3>1. EraId(c) \in DOMAIN stored.stake
      BY <1>1, <1>2, <2>2 DEF EraStartKnown, PayoutInv, StoredInv
    <3>2. stored.stake[EraId(c)] = StakeOf(EraId(c))
      BY <3>1 DEF PayoutInv, StoredInv
    <3>3. StakeOf(EraId(c)).start_block_id = EraId(c)
      BY DEF StakeOf
    <3> QED BY <2>2, <3>2, <3>3 DEF StartBlock
  <2> QED BY <2>1, <2>2
<1>4. work[c] = NoWork /\ HandlerInv(c)
  BY <1>1 DEF PayoutInv, HandlerInv, WorkOK
<1>5. PICK w : w = [NoWork EXCEPT !.start = EraId(c)]
  OBVIOUS
<1>6. /\ IsWork(w) /\ w.start = EraId(c) /\ w.step = "none"
      /\ w.validators = <<>> /\ w.nominators = <<>>
      /\ w.validatorsResult = <<>> /\ w.nominatorsResult = <<>>
  BY <1>5, NothingAtAll DEF IsWork, NoWork
<1>7. work' = [work EXCEPT ![c] = w] /\ inserts' = [inserts EXCEPT ![c] = inserts[c]]
  BY <1>3, <1>4, <1>5 DEF FindStart, PayoutInv
<1>8. /\ UNCHANGED <<pc, msg, stakes, rewards, stored>> /\ trx'[c] = "started"
      /\ \A d \in Consumers \ {c} : trx'[d] = trx[d]
  BY DEF FindStart, FindEraStart, taskVars, consumerVars, IInv, TypeOK, EraTypeOK
<1>9. WorkOK(w, "started", EraId(c))
  BY <1>6 DEF WorkOK, Step
<1>10. ASSUME work'[c] = w, inserts'[c] = inserts[c] PROVE HandlerInv(c)'
  <2>1. Started(EraId(c))'
    BY <1>1, <1>2, <1>8 DEF EraStartKnown, PayoutInv, StoredInv, Started, EraId
  <2> QED BY <1>1, <1>4, <1>6, <1>8, <1>9, <1>10, <2>1 DEF HandlerInv, EraId
<1>11. StoredInv'
  BY <1>8 DEF PayoutInv, StoredInv, Started
<1> QED BY <1>7, <1>8, <1>10, <1>11, OneHandlerChanges

LEMMA SaveRewardsKeeps ==
    ASSUME IInv, PayoutInv, NEW c \in Consumers, SaveRewardsEra(c)
    PROVE  PayoutInv'
<1>1. trx[c] = "started" /\ pc[c] = "run" /\ HandlerInv(c)
  BY DEF SaveRewardsEra, ProcessRewardsEra, FinishTask, PayoutInv
<1>2. PICK w, e : w = work[c] /\ w.step = "paid" /\ e = EraId(c) /\ Pays(w, e)
  BY <1>1, NothingAtAll DEF SaveRewardsEra, HandlerInv, WorkOK
<1>3. PICK row : row = [validators |-> ToBag(w.validatorsResult),
                        nominators |-> ToBag(w.nominatorsResult)]
  OBVIOUS
<1>4. row = RewardsOf(e)
  <2>1. PICK V, N : V = ValidatorRows(e, Validators(e)) /\ N = NominatorRows(e, Validators(e))
    OBVIOUS
  <2>2. ToSet(w.todo) = {}
    BY <1>2 DEF Pays, ToSet
  <2>3. V \ {t.validator : t \in {}} = V /\ N \ NotPaid({}) = N
    BY DEF NotPaid
  <2>4. /\ Lists(w.validatorsResult, {PaidValidator(e, r) : r \in V})
        /\ Lists(w.nominatorsResult, {PaidNominator(e, n) : n \in N})
    BY <1>2, <2>1, <2>2, <2>3 DEF Pays
  <2>5. /\ ToBag(w.validatorsResult) = SetToBag({PaidValidator(e, r) : r \in V})
        /\ ToBag(w.nominatorsResult) = SetToBag({PaidNominator(e, n) : n \in N})
    BY <2>4, ListsBag
  <2> QED BY <1>3, <2>1, <2>5 DEF RewardsOf
<1>5. PICK t : t = [inserts[c] EXCEPT !.rewards = row]
  OBVIOUS
<1>6. IsInsert(t) /\ t.stake = inserts[c].stake /\ t.rewards = row
  BY <1>1, <1>5 DEF HandlerInv, IsInsert
<1>7. inserts' = [inserts EXCEPT ![c] = t] /\ work' = [work EXCEPT ![c] = NoWork] /\ stored' = stored
  BY <1>2, <1>3, <1>5 DEF SaveRewardsEra
<1>8. /\ UNCHANGED <<msg, stakes, rewards>> /\ trx'[c] = "rewarded" /\ pc'[c] = "done"
      /\ \A d \in Consumers \ {c} : trx'[d] = trx[d] /\ pc'[d] = pc[d]
  BY DEF SaveRewardsEra, ProcessRewardsEra, FinishTask, IInv, TypeOK, EraTypeOK, TaskTypeOK,
         HandlerTypeOK
<1>9. ASSUME work'[c] = NoWork, inserts'[c] = t PROVE HandlerInv(c)'
  <2>1. Started(EraId(c))'
    BY <1>1, <1>7, <1>8 DEF HandlerInv, Started, EraId
  <2> QED BY <1>1, <1>2, <1>4, <1>6, <1>8, <1>9, <2>1, NothingAtAll
      DEF HandlerInv, EraId, Running, RewardsOf
<1>10. StoredInv'
  BY <1>7, <1>8 DEF PayoutInv, StoredInv, Started
<1> QED BY <1>7, <1>8, <1>9, <1>10, OneHandlerChanges

LEMMA CommitKeepsPayouts ==
    ASSUME IInv, PayoutInv, NEW c \in Consumers, CommitRows(c)
    PROVE  StoredInv' /\ DOMAIN stored.stake \subseteq DOMAIN stored'.stake
<1>1. pc[c] = "done" /\ trx[c] \in {"staked", "rewarded"}
  BY DEF CommitRows, Commit, CommitTask, IInv, EraInv, PartsInOrder
<1>2. PICK e \in EntityIds : e = EraId(c)
  BY <1>1, RunsForAnEra DEF IInv, Running, EraId
<1>3. e \in Nat /\ e + 1 \in Era
  BY ErasAssumption DEF Era
<1>4. inserts[c].stake = StakeOf(e + 1)
  BY <1>1, <1>2 DEF PayoutInv, HandlerInv
<1>5. PICK s, w : /\ s = With(stored.stake, e + 1, inserts[c].stake)
                  /\ w = IF trx[c] = "rewarded" THEN With(stored.rewards, e, inserts[c].rewards)
                         ELSE stored.rewards
  OBVIOUS
<1>6. stored' = [stake |-> s, rewards |-> w]
  BY <1>2, <1>5 DEF CommitRows
<1>7. /\ stakes' = [stakes EXCEPT ![e + 1] = @ + 1]
      /\ rewards' = IF trx[c] = "rewarded" THEN [rewards EXCEPT ![e] = @ + 1] ELSE rewards
      /\ stakes \in [Era -> Nat] /\ rewards \in [EntityIds -> Nat]
  BY <1>2 DEF CommitRows, Commit, StakesWith, RewardsWith, EraId, IInv, TypeOK, EraTypeOK
<1>8. DOMAIN s = {a \in Era : stakes'[a] > 0}
  <2>1. DOMAIN s = DOMAIN stored.stake \union {e + 1}
    BY <1>5 DEF With
  <2>2. stakes'[e + 1] > 0 /\ \A a \in Era : a # e + 1 => stakes'[a] = stakes[a]
    BY <1>3, <1>7
  <2>3. DOMAIN stored.stake = {a \in Era : stakes[a] > 0}
    BY DEF PayoutInv, StoredInv
  <2> QED BY <1>3, <2>1, <2>2, <2>3
<1>9. DOMAIN w = {a \in EntityIds : rewards'[a] > 0}
  <2>1. DOMAIN stored.rewards = {a \in EntityIds : rewards[a] > 0}
    BY DEF PayoutInv, StoredInv
  <2>2. CASE trx[c] = "rewarded"
    <3>1. DOMAIN w = DOMAIN stored.rewards \union {e}
      BY <1>5, <2>2 DEF With
    <3>2. rewards'[e] > 0 /\ \A a \in EntityIds : a # e => rewards'[a] = rewards[a]
      BY <1>7, <2>2
    <3> QED BY <2>1, <3>1, <3>2
  <2>3. CASE trx[c] # "rewarded"
    BY <1>5, <1>7, <2>1, <2>3
  <2> QED BY <2>2, <2>3
<1>10. \A a \in DOMAIN s : s[a] = StakeOf(a)
  <2>1. /\ DOMAIN s = DOMAIN stored.stake \union {e + 1}
        /\ \A z \in DOMAIN stored.stake \ {e + 1} : s[z] = stored.stake[z]
        /\ s[e + 1] = inserts[c].stake
    BY <1>5 DEF With
  <2>2. \A z \in DOMAIN stored.stake : stored.stake[z] = StakeOf(z)
    BY DEF PayoutInv, StoredInv
  <2> QED BY <1>4, <2>1, <2>2
<1>11. IsInsert(stored') /\ stored'.stake = s /\ stored'.rewards = w
  BY <1>6 DEF IsInsert
<1>12. DOMAIN stored.stake \subseteq DOMAIN s
  BY <1>5 DEF With
<1>13. \A a \in DOMAIN w : w[a] = RewardsOf(a) /\ a \in KnownStarts \union DOMAIN s
  <2>1. \A a \in DOMAIN stored.rewards : stored.rewards[a] = RewardsOf(a) /\ Started(a)
    BY DEF PayoutInv, StoredInv
  <2>2. CASE trx[c] = "rewarded"
    <3>1. /\ DOMAIN w = DOMAIN stored.rewards \union {e}
          /\ \A z \in DOMAIN stored.rewards \ {e} : w[z] = stored.rewards[z]
          /\ w[e] = inserts[c].rewards
      BY <1>5, <2>2 DEF With
    <3>2. inserts[c].rewards = RewardsOf(e) /\ Started(e)
      BY <1>2, <2>2 DEF PayoutInv, HandlerInv
    <3> QED BY <1>12, <2>1, <3>1, <3>2 DEF Started
  <2>3. CASE trx[c] # "rewarded"
    BY <1>5, <1>12, <2>1, <2>3 DEF Started
  <2> QED BY <2>2, <2>3
<1> QED BY <1>8, <1>9, <1>10, <1>11, <1>12, <1>13 DEF StoredInv, Started, RewardsOf, PaidValidator,
           PaidNominator, PayeeAt, PayoutBlock, RewardPoints, StakeOf, ValidatorRows, NominatorRows,
           NominatorRowsOf, Validators, ValidatorRow, NominatorRow, IsInsert

\* A transaction ends, and nothing of it stays in memory.
LEMMA EndKeepsPayouts ==
    ASSUME IInv, PayoutInv, NEW c \in Consumers, CommitRows(c) \/ FailRows(c) \/ CrashRows(c)
    PROVE  PayoutInv'
<1>1. work' = [work EXCEPT ![c] = NoWork] /\ inserts' = [inserts EXCEPT ![c] = NoRows]
  BY DEF CommitRows, FailRows, CrashRows, Forget
<1>2. /\ trx'[c] = "none"
      /\ \A d \in Consumers \ {c} : pc'[d] = pc[d] /\ msg'[d] = msg[d] /\ trx'[d] = trx[d]
  BY DEF CommitRows, FailRows, CrashRows, Commit, CommitTask, Fail, FailTask, Crash, ConsumerCrash,
         IInv, TypeOK, EraTypeOK, TaskTypeOK, HandlerTypeOK
<1>3. ASSUME work'[c] = NoWork, inserts'[c] = NoRows PROVE HandlerInv(c)'
  BY <1>2, <1>3, NothingAtAll DEF HandlerInv
<1>4. StoredInv' /\ DOMAIN stored.stake \subseteq DOMAIN stored'.stake
  <2>1. CASE FailRows(c) \/ CrashRows(c)
    <3>1. UNCHANGED <<stored, stakes, rewards>>
      BY <2>1 DEF FailRows, CrashRows, Fail, Crash
    <3> QED BY <3>1 DEF PayoutInv, StoredInv, Started
  <2> QED BY <2>1, CommitKeepsPayouts
<1> QED BY <1>1, <1>2, <1>3, <1>4, OneHandlerChanges

LEMMA PayoutInvStep ==
    ASSUME IInv, PayoutInv, [DetailedNext]_detailedVars
    PROVE  PayoutInv'
<1>1. CASE UNCHANGED detailedVars
  <2>1. UNCHANGED <<pc, msg, trx, stakes, rewards, work, inserts, stored>>
    BY <1>1 DEF detailedVars, payoutVars, vars, taskVars, consumerVars, eraVars
  <2>2. \A d \in Consumers : HandlerInv(d)'
    BY <2>1 DEF PayoutInv, HandlerInv, EraId, Started
  <2> QED BY <2>1, <2>2 DEF PayoutInv, StoredInv, Started
<1>2. ASSUME NEW c \in Consumers, Reading(c) PROVE PayoutInv'
  BY <1>2, AskStakersKeeps, ProcessStakeKeeps, AskPayeesKeeps, ProcessPayoutKeeps DEF Reading
<1>3. ASSUME NEW c \in Consumers,
             \/ SaveStakeEra(c) \/ FindStart(c) \/ SaveRewardsEra(c)
             \/ CommitRows(c) \/ FailRows(c) \/ CrashRows(c)
      PROVE  PayoutInv'
  BY <1>3, SaveStakeKeeps, FindStartKeeps, SaveRewardsKeeps, EndKeepsPayouts
<1> QED BY <1>1, <1>2, <1>3, OthersKeepPayouts DEF DetailedNext

-----------------------------------------------------------------------------
(* The theorems.                                                           *)

\* The invariant of the rows, on top of EraStaking's: what a handler has pushed and inserted
\* is, validator by validator, what the chain exposes, and what is committed is such rows.
THEOREM PayoutInvariant == DetailedSpec => [](IInv /\ PayoutInv)
<1>1. PayoutInit => IInv /\ PayoutInv
  BY EraIInvInit, PayoutInvInit DEF PayoutInit
<1>2. IInv /\ PayoutInv /\ [DetailedNext]_detailedVars => (IInv /\ PayoutInv)'
  <2> SUFFICES ASSUME IInv, PayoutInv, [DetailedNext]_detailedVars PROVE IInv' /\ PayoutInv'
    OBVIOUS
  <2>1. [Next]_vars
    BY DetailedStep DEF detailedVars
  <2> QED BY <2>1, EraIInvStep, PayoutInvStep
<1> QED BY <1>1, <1>2, PTL DEF DetailedSpec

\* What the handlers have read and inserted, and what is stored, keeps its shape: it is
\* there only while a handler runs, and the tables have the rows of the eras EraStaking counts.
THEOREM PayoutTypeCorrect == DetailedSpec => []PayoutTypeOK
<1>1. IInv /\ PayoutInv => PayoutTypeOK
  <2> SUFFICES ASSUME IInv, PayoutInv PROVE PayoutTypeOK
    OBVIOUS
  <2>1. ASSUME NEW c \in Consumers
        PROVE  /\ work[c].step \in Step
               /\ work[c].start \in Era \union {0}
               /\ ToSet(work[c].nominatorsResult) # {} => work[c].step \in {"payout", "paid"}
               /\ pc[c] # "run" => work[c] = NoWork
               /\ inserts[c] # NoRows => pc[c] \in {"run", "done"}
    <3>1. HandlerInv(c) /\ ToSet(<<>>) = {}
      BY DEF PayoutInv, ToSet
    <3>2. CASE work[c] = NoWork
      BY <3>1, <3>2, NothingAtAll DEF HandlerInv, Step, Running
    <3>3. CASE work[c] # NoWork
      <4>1. pc[c] = "run" /\ WorkOK(work[c], trx[c], EraId(c))
        BY <3>1, <3>3 DEF HandlerInv
      <4>2. EraId(c) \in Era
        BY <4>1, RunsForAnEra DEF IInv, Running, EraId, Era
      <4> QED BY <3>1, <3>3, <4>1, <4>2 DEF WorkOK
    <3> QED BY <3>2, <3>3
  <2>2. StoredInv
    BY DEF PayoutInv
  <2> QED BY <2>1, <2>2 DEF PayoutTypeOK, StoredInv
<1> QED BY <1>1, PayoutInvariant, PTL

\* The stake of every stored era is its validators' exposure when it began, each validator
\* and each of its nominators once, in whatever order the workers were answered.
THEOREM StakeStoredAsExposed == DetailedSpec => []StakeIsTheExposure
<1>1. PayoutInv => StakeIsTheExposure
  <2> SUFFICES ASSUME PayoutInv, NEW e \in DOMAIN stored.stake
               PROVE  /\ stored.stake[e].validators =
                            SetToBag({ValidatorRow(v, Exposure[e][v]) : v \in ToSet(Session[e])})
                      /\ stored.stake[e].nominators =
                            SetToBag(UNION {{NominatorRow(v, Exposure[e][v], i)
                                                : i \in DOMAIN Exposure[e][v].others}
                                              : v \in ToSet(Session[e])})
    BY DEF StakeIsTheExposure
  <2>1. stored.stake[e] = StakeOf(e)
    BY DEF PayoutInv, StoredInv
  <2> QED BY <2>1 DEF StakeOf, ValidatorRows, NominatorRows, NominatorRowsOf, Validators
<1> QED BY <1>1, PayoutInvariant, PTL

\* The bag of a set has each of its members once.
LEMMA BagOfSet ==
    ASSUME NEW S
    PROVE  DOMAIN SetToBag(S) = S /\ \A x \in S : SetToBag(S)[x] = 1
BY DEF SetToBag

\* The rewards of every stored era are its stake's rows with payees and points, though two
\* tasks have read them, at two times, with workers in any order.
THEOREM RewardsStoredAsStaked == DetailedSpec => []RewardsRepeatStake
<1>1. PayoutInv => RewardsRepeatStake
  <2> SUFFICES ASSUME PayoutInv, NEW e \in DOMAIN stored.rewards \ KnownStarts,
                      NEW paid, paid = stored.rewards[e], NEW dest, dest = Payee[e + 1]
               PROVE  /\ e \in DOMAIN stored.stake
                      /\ RowsOfBoth(paid.nominators, stored.stake[e].nominators, StakeNominator)
                      /\ RowsOfBoth(paid.validators, stored.stake[e].validators, StakeValidator)
                      /\ \A r \in DOMAIN paid.nominators : r.reward_dest = dest[r.account_id]
                      /\ \A r \in DOMAIN paid.validators :
                            /\ r.reward_dest = dest[r.account_id]
                            /\ r.reward_points = RewardPoints(e, r.account_id)
    BY DEF RewardsRepeatStake
  <2>1. paid = RewardsOf(e) /\ e \in DOMAIN stored.stake
    BY DEF PayoutInv, StoredInv, Started
  <2>2. stored.stake[e] = StakeOf(e)
    BY <2>1 DEF PayoutInv, StoredInv
  <2>3. PICK V, N : V = ValidatorRows(e, Validators(e)) /\ N = NominatorRows(e, Validators(e))
    OBVIOUS
  <2>4. PICK PV, PN : PV = {PaidValidator(e, x) : x \in V} /\ PN = {PaidNominator(e, x) : x \in N}
    OBVIOUS
  <2>5. /\ paid.validators = SetToBag(PV) /\ paid.nominators = SetToBag(PN)
        /\ stored.stake[e].validators = SetToBag(V) /\ stored.stake[e].nominators = SetToBag(N)
    BY <2>1, <2>2, <2>3, <2>4 DEF RewardsOf, StakeOf
  <2>6. RowsOfBoth(SetToBag(PN), SetToBag(N), StakeNominator) /\ DOMAIN SetToBag(PN) = PN
    <3>1. PICK B, BP : B = SetToBag(N) /\ BP = SetToBag(PN)
      OBVIOUS
    <3>2. /\ DOMAIN B = N /\ \A x \in N : B[x] = 1
          /\ DOMAIN BP = PN /\ \A y \in PN : BP[y] = 1
      BY <3>1, BagOfSet
    <3>3. \A x \in N : StakeNominator(PaidNominator(e, x)) = x
      BY <2>3, PaidApart
    <3>4. /\ \A y \in PN : StakeNominator(y) \in N
          /\ \A x \in N : \E y \in PN : StakeNominator(y) = x
      BY <2>4, <3>3
    <3>5. {StakeNominator(y) : y \in PN} = N
      BY <3>4
    <3>6. \A y \in PN : BP[y] = B[StakeNominator(y)]
      BY <3>2, <3>4
    <3>7. RowsOfBoth(BP, B, StakeNominator)
      BY <3>2, <3>5, <3>6 DEF RowsOfBoth
    <3> QED BY <3>1, <3>2, <3>7
  <2>7. RowsOfBoth(SetToBag(PV), SetToBag(V), StakeValidator) /\ DOMAIN SetToBag(PV) = PV
    <3>1. PICK B, BP : B = SetToBag(V) /\ BP = SetToBag(PV)
      OBVIOUS
    <3>2. /\ DOMAIN B = V /\ \A x \in V : B[x] = 1
          /\ DOMAIN BP = PV /\ \A y \in PV : BP[y] = 1
      BY <3>1, BagOfSet
    <3>3. \A x \in V : StakeValidator(PaidValidator(e, x)) = x
      BY <2>3, PaidApart
    <3>4. /\ \A y \in PV : StakeValidator(y) \in V
          /\ \A x \in V : \E y \in PV : StakeValidator(y) = x
      BY <2>4, <3>3
    <3>5. {StakeValidator(y) : y \in PV} = V
      BY <3>4
    <3>6. \A y \in PV : BP[y] = B[StakeValidator(y)]
      BY <3>2, <3>4
    <3>7. RowsOfBoth(BP, B, StakeValidator)
      BY <3>2, <3>5, <3>6 DEF RowsOfBoth
    <3> QED BY <3>1, <3>2, <3>7
  <2>8. \A r \in PN : r.reward_dest = dest[r.account_id]
    BY <2>4 DEF PaidNominator, PayeeAt, PayoutBlock
  <2>9. \A r \in PV : r.reward_dest = dest[r.account_id] /\ r.reward_points = RewardPoints(e, r.account_id)
    BY <2>4 DEF PaidValidator, PayeeAt, PayoutBlock
  <2> QED BY <2>1, <2>5, <2>6, <2>7, <2>8, <2>9
<1> QED BY <1>1, PayoutInvariant, PTL

-----------------------------------------------------------------------------
(* The refinement.  Four steps are seen by EraRecords: a row is inserted,   *)
(* a handler skips the rewards, a transaction commits, and an attempt that  *)
(* has skipped them is rolled back.  The others leave its variables alone.  *)

\* What a handler is about to commit is not in the tables yet.
LEMMA RunsUnrecorded ==
    ASSUME IInv, PayoutInv, NEW c \in Consumers, pc[c] \in Running
    PROVE  /\ EraId(c) \in Requested /\ EraId(c) + 1 \in Era
           /\ EraId(c) + 1 \notin DOMAIN stored.stake
           /\ EraId(c) \notin DOMAIN stored.rewards
<1>1. PICK e \in EntityIds : e = EraId(c)
  BY RunsForAnEra DEF IInv, EraId
<1>2. msg[c].collect_uid \in RowsOf(e)
  BY <1>1, RunsForAnEra DEF IInv, EraId
<1>3. ~ Processed(e)
  <2>1. rows[msg[c].collect_uid].status = "not_processed"
    BY DEF IInv, EraInv, RunsUnprocessed
  <2>2. \A i \in RowsOf(e) : i = msg[c].collect_uid
    BY <1>2 DEF IInv, EraInv, OneTaskPerEra
  <2> QED BY <2>1, <2>2 DEF Processed
<1>4. stakes[e + 1] = 0 /\ rewards[e] <= stakes[e + 1] /\ rewards[e] \in Nat
  BY <1>3 DEF IInv, EraInv, EraStoredWithItsTask, TypeOK, EraTypeOK
<1>5. e + 1 \notin DOMAIN stored.stake /\ e \notin DOMAIN stored.rewards
  BY <1>4 DEF PayoutInv, StoredInv
<1> QED BY <1>1, <1>2, <1>5 DEF Requested, Era

\* What becomes of the eras whose rewards are given up when only handler c takes a step.
LEMMA GivenUpByOne ==
    ASSUME IInv, NEW c \in Consumers,
           \A d \in Consumers \ {c} : pc'[d] = pc[d] /\ trx'[d] = trx[d] /\ msg'[d] = msg[d]
    PROVE  /\ (GivenUp(c)' <=> GivenUp(c)) /\ (GivenUp(c) => msg'[c] = msg[c]) => TooEarly' = TooEarly
           /\ GivenUp(c)' /\ ~ GivenUp(c) /\ EraId(c)' \in EntityIds =>
                 TooEarly' = TooEarly \union {EraId(c)'}
           /\ ~ GivenUp(c)' /\ GivenUp(c) => TooEarly' = TooEarly \ {EraId(c)}
<1>1. \A d \in Consumers \ {c} : (GivenUp(d)' <=> GivenUp(d)) /\ EraId(d)' = EraId(d)
  BY DEF GivenUp, EraId
<1>2. ASSUME NEW d \in Consumers \ {c}, GivenUp(c), GivenUp(d) PROVE EraId(d) # EraId(c)
  BY <1>2, OneRunPerEntity DEF GivenUp, EraId, Running, IInv, TypeOK
<1>3. TooEarly' = {e \in EntityIds : \E d \in Consumers : GivenUp(d)' /\ EraId(d)' = e}
  BY DEF TooEarly
<1>4. CASE (GivenUp(c)' <=> GivenUp(c)) /\ (GivenUp(c) => msg'[c] = msg[c])
  <2>1. \A d \in Consumers : (GivenUp(d)' <=> GivenUp(d)) /\ (GivenUp(d) => EraId(d)' = EraId(d))
    BY <1>1, <1>4 DEF EraId
  <2> QED BY <1>3, <1>4, <2>1 DEF TooEarly
<1>5. CASE GivenUp(c)' /\ ~ GivenUp(c)
  BY <1>1, <1>3, <1>5 DEF TooEarly
<1>6. CASE ~ GivenUp(c)' /\ GivenUp(c)
  BY <1>1, <1>2, <1>3, <1>6 DEF TooEarly
<1> QED BY <1>4, <1>5, <1>6

\* A step that inserts no row, commits nothing and skips no rewards is not seen.
LEMMA NotSeen ==
    ASSUME \A e : RowsOf(e)' = RowsOf(e), stored' = stored, TooEarly' = TooEarly
    PROVE  UNCHANGED Records!recordVars
<1>1. Requested' = {e \in EntityIds : RowsOf(e)' # {}}
  BY DEF Requested
<1>2. \A e \in EntityIds : RowsOf(e)' # {} <=> RowsOf(e) # {}
  OBVIOUS
<1>3. Requested' = Requested
  BY <1>1, <1>2 DEF Requested
<1> QED BY <1>3 DEF Records!recordVars

LEMMA SameHandlersNotSeen ==
    ASSUME UNCHANGED <<rows, pc, trx, msg, stored>>
    PROVE  UNCHANGED Records!recordVars
<1>1. \A e : RowsOf(e)' = RowsOf(e)
  BY DEF RowsOf, RowIds
<1>2. \A d \in Consumers : (GivenUp(d)' <=> GivenUp(d)) /\ EraId(d)' = EraId(d)
  BY DEF GivenUp, EraId
<1>3. TooEarly' = {e \in EntityIds : \E d \in Consumers : GivenUp(d)' /\ EraId(d)' = e}
  BY DEF TooEarly
<1>4. TooEarly' = TooEarly
  BY <1>2, <1>3 DEF TooEarly
<1> QED BY <1>1, <1>4, NotSeen

LEMMA RequestIsRecordsStep ==
    ASSUME IInv, NEW e \in EntityIds, AddEraTask(e), UNCHANGED payoutVars
    PROVE  Records!Request(e)
<1>1. /\ RowsOf(e)' = RowsOf(e) \union {Len(rows) + 1}
      /\ \A a \in EntityIds \ {e} : RowsOf(a)' = RowsOf(a)
  BY InsertedRow DEF AddEraTask, InsertTask, IInv, TypeOK, TaskTypeOK
<1>2. \A a \in EntityIds : RowsOf(a)' # {} <=> (RowsOf(a) # {} \/ a = e)
  <2>1. RowsOf(e)' # {}
    BY <1>1
  <2> QED BY <1>1, <2>1
<1>3. Requested' = {a \in EntityIds : RowsOf(a)' # {}}
  BY DEF Requested
<1>4. Requested' = Requested \union {e}
  BY <1>2, <1>3 DEF Requested
<1>5. UNCHANGED <<pc, trx, msg, stored>>
  BY DEF AddEraTask, InsertTask, consumerVars, eraVars, payoutVars
<1>6. TooEarly' = TooEarly
  <2>1. \A d \in Consumers : (GivenUp(d)' <=> GivenUp(d)) /\ EraId(d)' = EraId(d)
    BY <1>5 DEF GivenUp, EraId
  <2>2. TooEarly' = {a \in EntityIds : \E d \in Consumers : GivenUp(d)' /\ EraId(d)' = a}
    BY DEF TooEarly
  <2> QED BY <2>1, <2>2 DEF TooEarly
<1> QED BY <1>4, <1>5, <1>6 DEF Records!Request

\* The rewards are given up only while the era's start is not stored, nor the era recorded.
LEMMA SkipIsRecordsStep ==
    ASSUME IInv, PayoutInv, NEW c \in Consumers, SkipRewards(c), UNCHANGED payoutVars
    PROVE  Records!GiveUp(EraId(c))
<1>1. /\ UNCHANGED <<rows, msg, trx, stored>> /\ trx[c] = "staked" /\ pc[c] = "run" /\ pc'[c] = "done"
      /\ \A d \in Consumers \ {c} : pc'[d] = pc[d]
  BY DEF SkipRewards, FinishTask, IInv, TypeOK, TaskTypeOK, HandlerTypeOK, eraVars, payoutVars
<1>2. EraId(c) \in Requested /\ EraId(c) \in EntityIds /\ EraId(c) + 1 \notin DOMAIN stored.stake
  BY <1>1, RunsUnrecorded DEF Running, Requested
<1>3. ~ EraStartKnown(EraId(c))
  BY DEF SkipRewards, EraId
<1>4. EraId(c) \notin KnownStarts /\ EraId(c) \notin DOMAIN stored.stake
  BY <1>3 DEF EraStartKnown, PayoutInv, StoredInv
<1>5. TooEarly' = TooEarly \union {EraId(c)}
  <2>1. GivenUp(c)' /\ ~ GivenUp(c) /\ EraId(c)' = EraId(c)
    BY <1>1 DEF GivenUp, EraId
  <2> QED BY <1>1, <1>2, <2>1, GivenUpByOne
<1>6. Requested' = Requested
  BY <1>1 DEF Requested, RowsOf, RowIds
<1> QED BY <1>1, <1>2, <1>4, <1>5, <1>6 DEF Records!GiveUp, Records!StartKnown

\* A commit records the era of the task as a whole.
LEMMA CommitIsRecordsStep ==
    ASSUME IInv, PayoutInv, NEW c \in Consumers, CommitRows(c)
    PROVE  Records!Record(EraId(c))
<1>1. /\ pc[c] = "done" /\ trx[c] \in {"staked", "rewarded"} /\ pc[c] \in Running
      /\ pc'[c] = "ack" /\ msg' = msg
      /\ \A d \in Consumers \ {c} : pc'[d] = pc[d] /\ trx'[d] = trx[d]
  BY DEF CommitRows, Commit, CommitTask, IInv, EraInv, PartsInOrder, Running, TypeOK, TaskTypeOK,
         HandlerTypeOK, EraTypeOK
<1>2. PICK e : /\ e = EraId(c) /\ e \in Requested /\ e \in EntityIds /\ e + 1 \in Era
               /\ e + 1 \notin DOMAIN stored.stake /\ e \notin DOMAIN stored.rewards
  BY <1>1, RunsUnrecorded DEF Requested
<1>3. /\ inserts[c].stake = StakeOf(e + 1)
      /\ trx[c] = "rewarded" => Started(e) /\ inserts[c].rewards = RewardsOf(e)
  BY <1>1, <1>2 DEF PayoutInv, HandlerInv
<1>4. /\ stored'.stake = With(stored.stake, e + 1, StakeOf(e + 1))
      /\ trx[c] = "rewarded" => stored'.rewards = With(stored.rewards, e, RewardsOf(e))
      /\ trx[c] = "staked" => stored'.rewards = stored.rewards
  BY <1>2, <1>3 DEF CommitRows
<1>5. /\ [a \in Era |-> StakeOf(a)][e + 1] = StakeOf(e + 1)
      /\ [a \in EntityIds |-> RewardsOf(a)][e] = RewardsOf(e)
  BY <1>2
<1>6. Records!Extended(stored.stake, stored'.stake, e + 1, StakeOf(e + 1))
  BY <1>2, <1>4 DEF Records!Extended, With
<1>7. trx[c] = "rewarded" => Records!Extended(stored.rewards, stored'.rewards, e, RewardsOf(e))
  BY <1>2, <1>4 DEF Records!Extended, With
<1>8. Requested' = Requested
  <2>1. \A a : RowsOf(a)' = RowsOf(a)
    BY MarkedRow DEF CommitRows, Commit, IInv, TypeOK, TaskTypeOK
  <2>2. Requested' = {a \in EntityIds : RowsOf(a)' # {}}
    BY DEF Requested
  <2> QED BY <2>1, <2>2 DEF Requested
<1>9. TooEarly' = TooEarly \ {e} /\ (e \in TooEarly <=> trx[c] = "staked")
  <2>1. ~ GivenUp(c)' /\ (GivenUp(c) <=> trx[c] = "staked")
    BY <1>1 DEF GivenUp
  <2>2. e \in TooEarly <=> GivenUp(c)
    <3>1. ASSUME NEW d \in Consumers, GivenUp(d), EraId(d) = e PROVE d = c
      BY <1>1, <1>2, <3>1, OneRunPerEntity DEF GivenUp, EraId, Running, IInv, TypeOK
    <3> QED BY <1>2, <3>1 DEF TooEarly
  <2>3. CASE GivenUp(c)
    BY <1>1, <1>2, <2>1, <2>2, <2>3, GivenUpByOne
  <2>4. CASE ~ GivenUp(c)
    <3>1. TooEarly' = TooEarly
      BY <1>1, <2>1, <2>4, GivenUpByOne
    <3> QED BY <2>1, <2>2, <2>4, <3>1
  <2> QED BY <2>1, <2>2, <2>3, <2>4
<1>10. trx[c] = "rewarded" => Records!StartKnown(e)
  BY <1>3 DEF Started, Records!StartKnown
<1> QED BY <1>1, <1>2, <1>4, <1>5, <1>6, <1>7, <1>8, <1>9, <1>10 DEF Records!Record

\* An attempt that ends without a commit leaves its era to the next.
LEMMA RollbackIsRecordsStep ==
    ASSUME IInv, PayoutInv, NEW c \in Consumers, FailRows(c) \/ CrashRows(c)
    PROVE  Records!Retry(EraId(c)) \/ UNCHANGED Records!recordVars
<1>1. /\ UNCHANGED <<rows, stored>> /\ pc'[c] \in {"ack", "idle"}
      /\ \A d \in Consumers \ {c} : pc'[d] = pc[d] /\ msg'[d] = msg[d] /\ trx'[d] = trx[d]
  BY DEF FailRows, CrashRows, Fail, FailTask, Crash, ConsumerCrash, IInv, TypeOK, EraTypeOK,
         TaskTypeOK, HandlerTypeOK
<1>2. \A e : RowsOf(e)' = RowsOf(e)
  BY <1>1 DEF RowsOf, RowIds
<1>3. ~ GivenUp(c)'
  BY <1>1 DEF GivenUp
<1>4. CASE GivenUp(c)
  <2>1. TooEarly' = TooEarly \ {EraId(c)}
    BY <1>1, <1>3, <1>4, GivenUpByOne
  <2>2. Requested' = Requested
    BY <1>1 DEF Requested, RowsOf, RowIds
  <2> QED BY <1>1, <2>1, <2>2 DEF Records!Retry
<1>5. CASE ~ GivenUp(c)
  <2>1. TooEarly' = TooEarly
    BY <1>1, <1>3, <1>5, GivenUpByOne
  <2> QED BY <1>1, <1>2, <2>1, NotSeen
<1> QED BY <1>4, <1>5

\* The steps of a handler that skip, commit and undo nothing.
LEMMA HandlerNotSeen ==
    ASSUME IInv, PayoutInv, NEW c \in Consumers,
           \/ (Deliver(c) \/ Framework(c) \/ Disconnect(c)) /\ UNCHANGED payoutVars
           \/ Reading(c) \/ SaveStakeEra(c) \/ FindStart(c) \/ SaveRewardsEra(c)
    PROVE  UNCHANGED Records!recordVars
<1>1. CASE (Deliver(c) \/ Framework(c) \/ Disconnect(c)) /\ UNCHANGED payoutVars
  <2>1. /\ UNCHANGED <<rows, trx, stored>>
        /\ \A d \in Consumers \ {c} : pc'[d] = pc[d] /\ msg'[d] = msg[d]
        /\ pc[c] = "done" <=> pc'[c] = "done"
        /\ pc[c] = "done" => msg'[c] = msg[c]
    BY <1>1 DEF Deliver, Receive, Framework, HandlerStep, IncreaseAttempts, SelectRows, LockRow,
                StartTask, SkipTask, Ack, Disconnect, LoseChannel, IInv, TypeOK, TaskTypeOK,
                HandlerTypeOK, eraVars, payoutVars
  <2>2. (GivenUp(c)' <=> GivenUp(c)) /\ (GivenUp(c) => msg'[c] = msg[c])
    BY <2>1 DEF GivenUp
  <2>3. TooEarly' = TooEarly
    BY <2>1, <2>2, GivenUpByOne
  <2>4. \A e : RowsOf(e)' = RowsOf(e)
    BY <2>1 DEF RowsOf, RowIds
  <2> QED BY <2>1, <2>3, <2>4, NotSeen
<1>2. CASE Reading(c)
  <2>1. UNCHANGED <<rows, pc, trx, msg>>
    BY <1>2, ReadingIsSilent DEF vars, taskVars, consumerVars, eraVars
  <2>2. stored' = stored
    BY <1>2 DEF Reading, AskStakers, ProcessStake, AskPayees, ProcessPayout
  <2> QED BY <2>1, <2>2, SameHandlersNotSeen
<1>3. CASE SaveStakeEra(c) \/ FindStart(c) \/ SaveRewardsEra(c)
  <2>1. /\ UNCHANGED <<rows, msg, stored>> /\ pc[c] = "run"
        /\ pc'[c] = "done" => trx'[c] # "staked"
        /\ \A d \in Consumers \ {c} : pc'[d] = pc[d] /\ trx'[d] = trx[d]
    BY <1>3 DEF SaveStakeEra, ProcessStakeEra, FindStart, FindEraStart, SaveRewardsEra,
                ProcessRewardsEra, FinishTask, taskVars, consumerVars, IInv, TypeOK, EraTypeOK,
                TaskTypeOK, HandlerTypeOK
  <2>2. ~ GivenUp(c)' /\ ~ GivenUp(c)
    BY <2>1 DEF GivenUp
  <2>3. TooEarly' = TooEarly
    BY <2>1, <2>2, GivenUpByOne
  <2>4. \A e : RowsOf(e)' = RowsOf(e)
    BY <2>1 DEF RowsOf, RowIds
  <2> QED BY <2>1, <2>3, <2>4, NotSeen
<1> QED BY <1>1, <1>2, <1>3

LEMMA RecordsInit == PayoutInit => Records!Init
<1> SUFFICES ASSUME PayoutInit PROVE Records!Init
  OBVIOUS
<1>1. Requested = {}
  BY DEF PayoutInit, Init, TaskInit, Requested, RowsOf, RowIds
<1>2. TooEarly = {}
  BY DEF PayoutInit, Init, TaskInit, TooEarly, GivenUp
<1> QED BY <1>1, <1>2, NothingAtAll DEF PayoutInit, Records!Init

LEMMA RecordsStep ==
    ASSUME IInv, PayoutInv, [DetailedNext]_detailedVars
    PROVE  [Records!Next]_(Records!recordVars)
<1>1. ASSUME NEW e \in EntityIds, AddEraTask(e), UNCHANGED payoutVars PROVE Records!Next
  BY <1>1, RequestIsRecordsStep DEF Records!Next
<1>2. CASE Messages /\ UNCHANGED payoutVars
  <2>1. UNCHANGED <<rows, pc, trx, msg, stored>>
    BY <1>2 DEF Messages, ReadUnprocessed, SendTask, ListenerCrash, consumerVars, eraVars, payoutVars
  <2> QED BY <2>1, SameHandlersNotSeen
<1>3. ASSUME NEW c \in Consumers, SkipRewards(c), UNCHANGED payoutVars PROVE Records!Next
  <2>1. EraId(c) \in EntityIds
    BY <1>3, RunsForAnEra DEF SkipRewards, FinishTask, Running, IInv, EraId
  <2> QED BY <1>3, <2>1, SkipIsRecordsStep DEF Records!Next
<1>4. ASSUME NEW c \in Consumers, CommitRows(c) PROVE Records!Next
  <2>1. EraId(c) \in EntityIds
    BY <1>4, RunsForAnEra DEF CommitRows, Commit, CommitTask, Running, IInv, EraId
  <2> QED BY <1>4, <2>1, CommitIsRecordsStep DEF Records!Next
<1>5. ASSUME NEW c \in Consumers, FailRows(c) \/ CrashRows(c)
      PROVE  Records!Next \/ UNCHANGED Records!recordVars
  <2>1. CASE pc[c] \in Running
    <3>1. EraId(c) \in EntityIds
      BY <2>1, RunsForAnEra DEF IInv, EraId
    <3> QED BY <1>5, <3>1, RollbackIsRecordsStep DEF Records!Next
  <2>2. CASE pc[c] \notin Running
    <3>1. /\ UNCHANGED <<rows, stored>> /\ pc'[c] \in {"ack", "idle"}
          /\ \A d \in Consumers \ {c} : pc'[d] = pc[d] /\ msg'[d] = msg[d] /\ trx'[d] = trx[d]
      BY <1>5 DEF FailRows, CrashRows, Fail, FailTask, Crash, ConsumerCrash, IInv, TypeOK, EraTypeOK,
             TaskTypeOK, HandlerTypeOK
    <3>2. ~ GivenUp(c)' /\ ~ GivenUp(c)
      BY <2>2, <3>1 DEF GivenUp, Running
    <3>3. TooEarly' = TooEarly
      BY <3>1, <3>2, GivenUpByOne
    <3>4. \A e : RowsOf(e)' = RowsOf(e)
      BY <3>1 DEF RowsOf, RowIds
    <3> QED BY <3>1, <3>3, <3>4, NotSeen
  <2> QED BY <2>1, <2>2
<1>6. ASSUME NEW c \in Consumers,
             \/ (Deliver(c) \/ Framework(c) \/ Disconnect(c)) /\ UNCHANGED payoutVars
             \/ Reading(c) \/ SaveStakeEra(c) \/ FindStart(c) \/ SaveRewardsEra(c)
      PROVE  UNCHANGED Records!recordVars
  BY <1>6, HandlerNotSeen
<1>7. CASE UNCHANGED detailedVars
  <2>1. UNCHANGED <<rows, pc, trx, msg, stored>>
    BY <1>7 DEF detailedVars, payoutVars, vars, taskVars, consumerVars, eraVars
  <2> QED BY <2>1, SameHandlersNotSeen
<1> QED BY <1>1, <1>2, <1>3, <1>4, <1>5, <1>6, <1>7 DEF DetailedNext

\* The processor implements EraRecords: whatever the workers' order, the queue, the locks and
\* the faults, an era is recorded once and as a whole, with the rows the chain had of it, and
\* without rewards only if its start was not stored when it was looked for.
THEOREM PayoutImplementsRecords == DetailedSpec => ImplementsEraRecords
<1>1. PayoutInit => Records!Init
  BY RecordsInit
<1>2. IInv /\ PayoutInv /\ [DetailedNext]_detailedVars => [Records!Next]_(Records!recordVars)
  BY RecordsStep
<1> QED BY <1>1, <1>2, PayoutInvariant, PTL DEF DetailedSpec, ImplementsEraRecords, Records!Spec
=============================================================================
