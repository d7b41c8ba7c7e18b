------------------------------ MODULE EraStaking ------------------------------
(***************************************************************************)
(* PolkadotStakingProcessorService in the task framework of TaskConsumer.  *)
(* The task of an era has two parts, in one transaction: the stake of the  *)
(* next era, and the rewards of this era, which need the block this era    *)
(* started at.  That block is in the stake_eras row which the task of the  *)
(* era before has written, if it has: tasks run in any order.              *)
(*                                                                         *)
(* The rows of validators and nominators that belong to an era's stake or  *)
(* to its rewards are one unit each.                                       *)
(***************************************************************************)
EXTENDS TaskConsumer

CONSTANT KnownStarts   \* eras whose start block is written in the code

ASSUME ErasAssumption == EntityIds \subseteq Nat /\ KnownStarts \subseteq EntityIds

VARIABLES
    stakes,    \* how many times the stake of each era is in the database
    rewards,   \* how many times its rewards are
    trx        \* how far each handler's transaction is

eraVars == <<stakes, rewards, trx>>
vars == <<taskVars, eraVars>>

Era == EntityIds \union {e + 1 : e \in EntityIds}

EraTypeOK ==
    /\ stakes \in [Era -> Nat]
    /\ rewards \in [EntityIds -> Nat]
    /\ trx \in [Consumers -> {"none", "staked", "started", "rewarded"}]

TypeOK == TaskTypeOK /\ EraTypeOK

Init ==
    /\ TaskInit
    /\ stakes = [e \in Era |-> 0]
    /\ rewards = [e \in EntityIds |-> 0]
    /\ trx = [c \in Consumers |-> "none"]

-----------------------------------------------------------------------------
\* The BlockProcessor's callback creates the task of an era: the one block that
\* pays the era out has its follow-up tasks created at most once.
AddEraTask(e) ==
    /\ RowsOf(e) = {}
    /\ InsertTask(e)
    /\ UNCHANGED eraVars

\* processStakeEra: the rows of the next era's stake are inserted.
ProcessStakeEra(c) ==
    /\ pc[c] = "run"
    /\ trx[c] = "none"
    /\ trx' = [trx EXCEPT ![c] = "staked"]
    /\ UNCHANGED <<taskVars, stakes, rewards>>

\* findEraStartBlockId reads the committed stake_eras table, outside the
\* transaction.
EraStartKnown(e) == e \in KnownStarts \/ stakes[e] > 0

FindEraStart(c) ==
    /\ pc[c] = "run"
    /\ trx[c] = "staked"
    /\ EraStartKnown(msg[c].entity_id)
    /\ trx' = [trx EXCEPT ![c] = "started"]
    /\ UNCHANGED <<taskVars, stakes, rewards>>

\* Without a start block the rewards are skipped: processRewardsEra logs that the
\* task is sent again, returns, and processTaskMessage says status true.
SkipRewards(c) ==
    /\ trx[c] = "staked"
    /\ ~ EraStartKnown(msg[c].entity_id)
    /\ FinishTask(c)
    /\ UNCHANGED eraVars

\* The rest of processRewardsEra.
ProcessRewardsEra(c) ==
    /\ trx[c] = "started"
    /\ FinishTask(c)
    /\ trx' = [trx EXCEPT ![c] = "rewarded"]
    /\ UNCHANGED <<stakes, rewards>>

\* Mutant: the early return of a task without rewards rolls its stake back.
StakesIfRewarded(c) ==
    IF trx[c] = "rewarded" THEN [stakes EXCEPT ![msg[c].entity_id + 1] = @ + 1] ELSE stakes

\* What the commit adds to the tables: always a stake, and perhaps rewards.
StakesWith(c) == [stakes EXCEPT ![msg[c].entity_id + 1] = @ + 1]

RewardsWith(c) ==
    IF trx[c] = "rewarded" THEN [rewards EXCEPT ![msg[c].entity_id] = @ + 1] ELSE rewards

Commit(c) ==
    /\ CommitTask(c)
    /\ stakes' = StakesWith(c)
    /\ rewards' = RewardsWith(c)
    /\ trx' = [trx EXCEPT ![c] = "none"]

Fail(c) ==
    /\ FailTask(c)
    /\ trx' = [trx EXCEPT ![c] = "none"]
    /\ UNCHANGED <<stakes, rewards>>

Crash(c) ==
    /\ ConsumerCrash(c)
    /\ trx' = [trx EXCEPT ![c] = "none"]
    /\ UNCHANGED <<stakes, rewards>>

-----------------------------------------------------------------------------
Deliver(c) == /\ \E m \in Message : Receive(c, m)
              /\ UNCHANGED eraVars

Framework(c) == HandlerStep(c) /\ UNCHANGED eraVars

Disconnect(c) == LoseChannel(c) /\ UNCHANGED eraVars

Processor(c) ==
    \/ ProcessStakeEra(c)
    \/ FindEraStart(c)
    \/ SkipRewards(c)
    \/ ProcessRewardsEra(c)
    \/ Commit(c)

Messages ==
    /\ ReadUnprocessed \/ ListenerCrash \/ \E i \in outbox : SendTask(i)
    /\ UNCHANGED eraVars

Next ==
    \/ \E e \in EntityIds : AddEraTask(e)
    \/ Messages
    \/ \E c \in Consumers :
        \/ Deliver(c)
        \/ Framework(c)
        \/ Processor(c)
        \/ Fail(c)
        \/ Crash(c)
        \/ Disconnect(c)

Spec == Init /\ [][Next]_vars

-----------------------------------------------------------------------------
(* Properties.                                                             *)

Processed(e) == \E i \in RowsOf(e) : rows[i].status = "processed"

\* The stake of an era is in the database exactly when the task of the era before
\* is processed, and once; its rewards are there at most once, and only with its
\* task processed.  No constraint of the schema says so: it rests on the check of
\* the status under the row lock, across redeliveries and crashes.
EraStoredWithItsTask ==
    \A e \in EntityIds :
        /\ stakes[e + 1] = IF Processed(e) THEN 1 ELSE 0
        /\ rewards[e] <= stakes[e + 1]

\* Rewards are skipped only while the task of the era before is not processed:
\* whoever finds no start block has found it too early.
SkippedOnlyTooEarly ==
    [][\A c \in Consumers :
          pc[c] = "run" /\ pc'[c] = "done" /\ trx'[c] = "staked" =>
              \A e \in EntityIds : e + 1 = msg[c].entity_id => ~ Processed(e)]_vars

\* processRewardsEra: if no eraStartBlockId - recreate task in rabbit.  An era
\* whose task is processed has its rewards in the database.  An era whose task
\* runs before that of the era before refutes it: nothing is sent again, and the
\* task is marked as processed.
ProcessedEraHasRewards ==
    \A e \in EntityIds : Processed(e) => rewards[e] > 0
=============================================================================
