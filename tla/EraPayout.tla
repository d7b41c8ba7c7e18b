------------------------------- MODULE EraPayout -------------------------------
(***************************************************************************)
(* EraStaking with the rows of an era: what PolkadotStakingProcessor-       *)
(* PolkadotHelper reads of it, and what is inserted.  The stake of an era   *)
(* is read at the block it starts at: by the task of the era before, for    *)
(* the stake_* tables, and once more by its own task, for the rewards.      *)
(*                                                                         *)
(* Each reading is a better-queue, of which a few workers run side by side; *)
(* they push rows to arrays they share, and the last one resolves the       *)
(* promise (drain).                                                         *)
(*                                                                         *)
(* Abstractions.                                                            *)
(*  - Block e is the one era e starts at, which is the one that pays out    *)
(*    era e - 1.  (Era 0 starts at block 0.)                                *)
(*  - A validator's own stake, the total and the preferences are one value, *)
(*    and the totals of an era and the times are left out.                  *)
(*  - The tables of rewards_* repeat columns of eras, validators and        *)
(*    nominators, in the same transaction.                                  *)
(***************************************************************************)
EXTENDS EraStaking, SequencesExt

CONSTANTS
    Session,      \* session.validators at each block: a sequence
    Exposure,     \* of an era and a validator: own, others (a sequence of who and value),
                  \* and clipped, those of them who are paid
    Points,       \* erasRewardPoints of each era: of those who have some
    Payee,        \* where an account has its rewards go, at each block
    Concurrent,   \* { concurrent: 5 }
    ChunkSize     \* NOMINATORS_CUNCURRENCY

\* Of the chain: a session lists its validators once, and those of an era's first block
\* have an exposure in it, which lists a nominator once.
ASSUME PayoutAssumption ==
    /\ Concurrent \in Nat \ {0} /\ ChunkSize \in Nat \ {0}
    /\ \A e \in Era :
        LET validators == ToSet(Session[e]) IN
        /\ Session[e] \in Seq(validators) /\ IsInjective(Session[e])
        /\ \A v \in validators :
            LET others == Exposure[e][v].others IN
            /\ v \in DOMAIN Exposure[e] /\ others \in Seq(ToSet(others))
            /\ \A i, j \in DOMAIN others : others[i].who = others[j].who => i = j

VARIABLES
    work,    \* what each handler has read
    inserts, \* the rows its transaction has inserted
    stored   \* the rows committed

payoutVars == <<work, inserts, stored>>
detailedVars == <<vars, payoutVars>>

NoWork == [step |-> "none", start |-> 0, todo |-> <<>>, validators |-> <<>>, nominators |-> <<>>,
           validatorsResult |-> <<>>, nominatorsResult |-> <<>>]
NoRows == [stake |-> <<>>, rewards |-> <<>>]

Step == {"none", "stake", "staked", "payout", "paid"}

PayoutTypeOK ==
    /\ \A c \in Consumers :
        /\ work[c].step \in Step
        /\ work[c].start \in Era \union {0}
        /\ ToSet(work[c].nominatorsResult) # {} => work[c].step \in {"payout", "paid"}
        /\ pc[c] # "run" => work[c] = NoWork
        /\ inserts[c] # NoRows => pc[c] \in {"run", "done"}
    /\ DOMAIN stored.stake = {e \in Era : stakes[e] > 0}
    /\ DOMAIN stored.rewards = {e \in EntityIds : rewards[e] > 0}

PayoutInit ==
    /\ Init
    /\ work = [c \in Consumers |-> NoWork]
    /\ inserts = [c \in Consumers |-> NoRows]
    /\ stored = NoRows

-----------------------------------------------------------------------------
(* What a handler asks for.                                                 *)

EraId(c) == msg[c].entity_id
PayoutBlock(e) == e + 1

\* Mutant: the stake of an era is read at the block it is paid out at.
StartAtPayout(e) == PayoutBlock(e)

\* findEraStartBlockId.
StartBlock(e) == IF e \in KnownStarts THEN e ELSE stored.stake[e].start_block_id

\* The era and the block of getValidatorsAndNominatorsStake: the next era's, and then
\* those of the rewards.
StakedEra(c) == IF trx[c] = "none" THEN EraId(c) + 1 ELSE EraId(c)
StakedAt(c) == IF trx[c] = "none" THEN PayoutBlock(EraId(c)) ELSE work[c].start

NoExposure == [own |-> 0, others |-> <<>>, clipped |-> {}]

\* erasStakers.at: nothing is known of an era that is still to come, and nothing of an
\* account that is no validator of it.
ErasStakers(b, e, v) ==
    IF e <= b /\ v \in DOMAIN Exposure[e] THEN Exposure[e][v] ELSE NoExposure

ValidatorRow(v, ex) == [account_id |-> v, own |-> ex.own, nominators_count |-> Len(ex.others)]

NominatorRow(v, ex, i) ==
    [account_id |-> ex.others[i].who, value |-> ex.others[i].value, validator |-> v,
     is_clipped |-> ex.others[i].who \in ex.clipped]

-----------------------------------------------------------------------------
(* The queues.                                                              *)

\* The tasks the workers are at.
InProgress(c) == {i \in DOMAIN work[c].todo : i <= Concurrent}

\* An empty queue never drains.
FillQueue(c, step, todo) == [work[c] EXCEPT !.step = step, !.todo = todo]

AskStakers(c) ==
    /\ pc[c] = "run" /\ trx[c] \in {"none", "started"} /\ work[c].step = "none"
    /\ work' = [work EXCEPT ![c] = FillQueue(c, "stake", Session[StakedAt(c)])]
    /\ UNCHANGED <<vars, inserts, stored>>

\* Mutant: the task that was begun first is taken for the one that ended.
WithoutFirst(todo, i) == Tail(todo)

Without(todo, i) == RemoveAt(todo, i)

\* The rows of a worker's validator are pushed, and its task ends.
StakePushed(w, i, ex) ==
    LET v == w.todo[i]
        left == Without(w.todo, i) IN
    [w EXCEPT !.todo = left,
              !.step = IF left = <<>> THEN "staked" ELSE @,
              !.validators = Append(@, ValidatorRow(v, ex)),
              !.nominators = @ \o [k \in DOMAIN ex.others |-> NominatorRow(v, ex, k)]]

\* One worker of getValidatorsAndNominatorsStake has its answers.
ProcessStake(c) ==
    /\ work[c].step = "stake"
    /\ \E i \in InProgress(c) :
        LET ex == ErasStakers(StakedAt(c), StakedEra(c), work[c].todo[i]) IN
        work' = [work EXCEPT ![c] = StakePushed(work[c], i, ex)]
    /\ UNCHANGED <<vars, inserts, stored>>

\* The inserts of processStakeEra.
SaveStakeEra(c) ==
    /\ work[c].step = "staked"
    /\ ProcessStakeEra(c)
    /\ inserts' = [inserts EXCEPT ![c].stake =
          [start_block_id |-> PayoutBlock(EraId(c)),
           validators |-> ToBag(work[c].validators), nominators |-> ToBag(work[c].nominators)]]
    /\ work' = [work EXCEPT ![c] = NoWork]
    /\ UNCHANGED stored

FindStart(c) ==
    /\ FindEraStart(c)
    /\ work' = [work EXCEPT ![c].start = StartBlock(EraId(c))]
    /\ UNCHANGED <<inserts, stored>>

\* The rows of one validator, in the order of the array.
OfValidator(ns, v) ==
    LET of[n \in 0..Len(ns)] ==
            IF n = 0 THEN <<>> ELSE IF ns[n].validator = v THEN Append(of[n - 1], ns[n]) ELSE of[n - 1]
    IN of[Len(ns)]

\* A task of the second queue: a validator, and those of its nominators who are still to be asked for.
PayoutTask(w, row) == [validator |-> row, others |-> OfValidator(w.nominators, row.account_id)]

\* The second queue of getValidatorsAndNominatorsPayout, once the first has drained.
AskPayees(c) ==
    LET w == work[c] IN
    /\ w.step = "staked" /\ trx[c] = "started"
    /\ work' = [work EXCEPT ![c] =
          FillQueue(c, "payout", [i \in DOMAIN w.validators |-> PayoutTask(w, w.validators[i])])]
    /\ UNCHANGED <<vars, inserts, stored>>

RewardPoints(e, v) == IF v \in DOMAIN Points[e] THEN Points[e][v] ELSE 0

PayeeAt(e, account) == Payee[PayoutBlock(e)][account]

\* The rows of the rewards: those of the stake, with the payee, and a validator's points.
PaidNominator(e, n) ==
    [account_id |-> n.account_id, value |-> n.value, validator |-> n.validator,
     is_clipped |-> n.is_clipped, reward_dest |-> PayeeAt(e, n.account_id)]

PaidValidator(e, v) ==
    [account_id |-> v.account_id, own |-> v.own, nominators_count |-> v.nominators_count,
     reward_points |-> RewardPoints(e, v.account_id), reward_dest |-> PayeeAt(e, v.account_id)]

\* How many of a validator's nominators are asked for together.
ChunkLen(others) == IF ChunkSize < Len(others) THEN ChunkSize ELSE Len(others)

\* The answers for a chunk of a validator's nominators; after the last chunk, the one for
\* the validator, which ends its task.
PayeesPushed(w, i, e) ==
    LET others == w.todo[i].others
        n == ChunkLen(others)
        left == Without(w.todo, i) IN
    IF others # <<>>
    THEN [w EXCEPT !.todo[i].others = SubSeq(others, n + 1, Len(others)),
                   !.nominatorsResult = @ \o [k \in 1..n |-> PaidNominator(e, others[k])]]
    ELSE [w EXCEPT !.todo = left,
                   !.step = IF left = <<>> THEN "paid" ELSE @,
                   !.validatorsResult = Append(@, PaidValidator(e, w.todo[i].validator))]

ProcessPayout(c) ==
    /\ work[c].step = "payout"
    /\ \E i \in InProgress(c) : work' = [work EXCEPT ![c] = PayeesPushed(work[c], i, EraId(c))]
    /\ UNCHANGED <<vars, inserts, stored>>

\* The inserts of processRewardsEra.
SaveRewardsEra(c) ==
    /\ work[c].step = "paid"
    /\ ProcessRewardsEra(c)
    /\ inserts' = [inserts EXCEPT ![c].rewards =
          [validators |-> ToBag(work[c].validatorsResult),
           nominators |-> ToBag(work[c].nominatorsResult)]]
    /\ work' = [work EXCEPT ![c] = NoWork]
    /\ UNCHANGED stored

-----------------------------------------------------------------------------
(* The end of a handler's transaction.                                      *)

\* Mutant: what was inserted stays.
KeepRows(c) == work' = [work EXCEPT ![c] = NoWork] /\ UNCHANGED inserts

Forget(c) == work' = [work EXCEPT ![c] = NoWork] /\ inserts' = [inserts EXCEPT ![c] = NoRows]

\* The rows of one more era in the tables.
With(tables, e, eraRows) == [a \in DOMAIN tables \union {e} |-> IF a = e THEN eraRows ELSE tables[a]]

CommitRows(c) ==
    /\ Commit(c)
    /\ Forget(c)
    /\ stored' = [stake |-> With(stored.stake, EraId(c) + 1, inserts[c].stake),
                  rewards |-> IF trx[c] = "rewarded" THEN With(stored.rewards, EraId(c), inserts[c].rewards)
                              ELSE stored.rewards]

\* Mutant: the stake is inserted outside of the transaction, and stays when the rewards fail.
StakeStays(c) ==
    /\ work[c].step \notin {"stake", "payout"}
    /\ Fail(c)
    /\ Forget(c)
    /\ stored' = IF trx[c] = "none" THEN stored
                 ELSE [stored EXCEPT !.stake = With(@, EraId(c) + 1, inserts[c].stake)]

\* A request that fails in a queue is an error nobody catches, for the promise of the
\* queue hears of none: it ends the process (CrashRows).
FailRows(c) ==
    /\ work[c].step \notin {"stake", "payout"}
    /\ Fail(c)
    /\ Forget(c)
    /\ UNCHANGED stored

CrashRows(c) == Crash(c) /\ Forget(c) /\ UNCHANGED stored

Reading(c) == AskStakers(c) \/ ProcessStake(c) \/ AskPayees(c) \/ ProcessPayout(c)

DetailedNext ==
    \/ (\E e \in EntityIds : AddEraTask(e)) /\ UNCHANGED payoutVars
    \/ Messages /\ UNCHANGED payoutVars
    \/ \E c \in Consumers :
        \/ (Deliver(c) \/ Framework(c) \/ Disconnect(c) \/ SkipRewards(c)) /\ UNCHANGED payoutVars
        \/ Reading(c)
        \/ SaveStakeEra(c) \/ FindStart(c) \/ SaveRewardsEra(c)
        \/ CommitRows(c) \/ FailRows(c) \/ CrashRows(c)

DetailedSpec == PayoutInit /\ [][DetailedNext]_detailedVars

-----------------------------------------------------------------------------
(* Properties.                                                              *)

\* What stake_* holds of an era is the exposure of its validators when it began, each
\* validator and each of its nominators once, in whatever order the workers were answered:
\* clipped are those the chain pays.
StakeIsTheExposure ==
    \A e \in DOMAIN stored.stake :
        LET ex(v) == Exposure[e][v]
            vs == ToSet(Session[e]) IN
        /\ stored.stake[e].validators = SetToBag({ValidatorRow(v, ex(v)) : v \in vs})
        /\ stored.stake[e].nominators =
              SetToBag(UNION {{NominatorRow(v, ex(v), i) : i \in DOMAIN ex(v).others} : v \in vs})

StakeNominator(r) ==
    [account_id |-> r.account_id, value |-> r.value, validator |-> r.validator, is_clipped |-> r.is_clipped]
StakeValidator(r) == [account_id |-> r.account_id, own |-> r.own, nominators_count |-> r.nominators_count]

\* The bag has the rows of another as often, with more columns.
RowsOfBoth(bag, other, Narrow(_)) ==
    /\ {Narrow(r) : r \in DOMAIN bag} = DOMAIN other
    /\ \A r \in DOMAIN bag : bag[r] = other[Narrow(r)]

\* The rows of an era's rewards are those another task has stored as its stake, one row for
\* each, with the payee of the payout and the points: the start block that was looked up is
\* the one the stake was read at, and no worker's rows are lost or counted twice.
RewardsRepeatStake ==
    \A e \in DOMAIN stored.rewards \ KnownStarts :
        LET paid == stored.rewards[e]
            dest == Payee[e + 1] IN
        /\ e \in DOMAIN stored.stake
        /\ RowsOfBoth(paid.nominators, stored.stake[e].nominators, StakeNominator)
        /\ RowsOfBoth(paid.validators, stored.stake[e].validators, StakeValidator)
        /\ \A r \in DOMAIN paid.nominators : r.reward_dest = dest[r.account_id]
        /\ \A r \in DOMAIN paid.validators :
              r.reward_dest = dest[r.account_id] /\ r.reward_points = RewardPoints(e, r.account_id)

-----------------------------------------------------------------------------
(* What is promised of the tables: EraRecords.                              *)

Validators(e) == ToSet(Session[e])

ValidatorRows(e, D) == {ValidatorRow(v, Exposure[e][v]) : v \in D}

NominatorRowsOf(e, v) == {NominatorRow(v, Exposure[e][v], i) : i \in DOMAIN Exposure[e][v].others}

NominatorRows(e, D) == UNION {NominatorRowsOf(e, v) : v \in D}

\* The rows of an era, each of them once: those of the stake, and those of the rewards.
StakeOf(e) == [start_block_id |-> e,
               validators |-> SetToBag(ValidatorRows(e, Validators(e))),
               nominators |-> SetToBag(NominatorRows(e, Validators(e)))]

RewardsOf(e) ==
    [validators |-> SetToBag({PaidValidator(e, r) : r \in ValidatorRows(e, Validators(e))}),
     nominators |-> SetToBag({PaidNominator(e, n) : n \in NominatorRows(e, Validators(e))})]

\* Eras whose handler has found no start block, and will commit without rewards.
GivenUp(c) == pc[c] = "done" /\ trx[c] = "staked"
TooEarly == {e \in EntityIds : \E c \in Consumers : GivenUp(c) /\ EraId(c) = e}

Requested == {e \in EntityIds : RowsOf(e) # {}}

Records == INSTANCE EraRecords WITH
    Eras <- EntityIds, KnownStarts <- KnownStarts,
    StakeRows <- [e \in Era |-> StakeOf(e)], RewardRows <- [e \in EntityIds |-> RewardsOf(e)],
    requested <- Requested, stake <- stored.stake, rewards <- stored.rewards, tooEarly <- TooEarly

\* Each era is recorded in one step and never again, with the rows the chain had of it,
\* although handlers and their workers read them one answer at a time, look for the start
\* outside of the transaction, and fail, crash and have the message redelivered in between:
\* without rewards only if the start was not stored when it was looked for.
ImplementsEraRecords == Records!Spec
=============================================================================
