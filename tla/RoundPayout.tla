------------------------------ MODULE RoundPayout ------------------------------
(***************************************************************************)
(* MoonbeamStakingProcessor: a round's task.  processStakeRound stores what *)
(* is staked in the round that begins at the payout block,                  *)
(* processRewardsRound what was paid for the round before the last: it      *)
(* looks for that round's first block, reads what was staked then, and      *)
(* tells from the events of the next blocks who was paid for which          *)
(* collator.  The chain goes on meanwhile, and may not be there yet.        *)
(*                                                                          *)
(* Abstractions.                                                            *)
(*  - The chain is a value the task reads from (Chains has the ones a run   *)
(*    looks at); amounts are small numbers, times and logs are left out.    *)
(*  - The task framework (TaskConsumer) is a task that runs again after a   *)
(*    failure, until its transaction commits.                               *)
(*  - nominators are the delegations of runtimes without topDelegations.    *)
(*  - The better-queue of fixZeroDelegatorsStakeQueue is one step: each of  *)
(*    its tasks writes its own delegator.                                   *)
(***************************************************************************)
EXTENDS Integers, SequencesExt

CONSTANTS
    Chains,      \* the chains: see Chain
    NoCollator,  \* undefined
    PadFrom,     \* 68: with this many collators awarded, a runtime from 2000 on
    PadTo,       \* 72: pays in this many blocks
    MaxFaults    \* bound: how often each kind of fault may happen

\* failure: any read or insert throws, or the process ends; stall: the chain makes no
\* block while the task sleeps.
FaultKind == {"failure", "stall"}

RewardMethod == {"Rewarded", "DelegatorDueReward", "OrbiterRewarded"}

(***************************************************************************)
(* A chain is a record of                                                   *)
(*   rounds: for each round its first block, the length round() says it has *)
(*      and the runtime; the task is about the payout of the last one       *)
(*   stake: for two rounds, the last and the one it pays for, the entries   *)
(*      of atStake in the order of the storage                              *)
(*   delegated: [block -> [delegator -> [collator -> amount]]], which       *)
(*      topDelegations and delegatorState say                               *)
(*   queries: which of these two the runtime has                            *)
(*   awarded: how many collators have points for the round paid for         *)
(*   events: the events of each block from the payout block on, each with   *)
(*      the collator whose payout it belongs to (payout), which the code    *)
(*      cannot read                                                         *)
(*   orbiter: the collator of each orbiter.                                 *)
(***************************************************************************)
RoundsInOrder(rounds) ==
    /\ Len(rounds) \in Nat \ {0} /\ DOMAIN rounds = 1..Len(rounds) /\ rounds[1].first = 0
    /\ \A k \in DOMAIN rounds :
          rounds[k].first \in Nat /\ rounds[k].length \in Nat \ {0} /\ rounds[k].version \in Nat
    /\ \A j, k \in DOMAIN rounds : j < k => rounds[j].first < rounds[k].first

\* An entry of atStake has the delegations of the block before its round, and, where
\* topDelegations tells which of them count, perhaps more.
SnapshotsOfDelegations(ch) ==
    LET k == Len(ch.rounds) - 2
        first == ch.rounds[k].first
        at == ch.delegated[first - 1] IN
    /\ ch.queries \subseteq {"topDelegations", "delegatorState"}
    /\ "topDelegations" \in ch.queries => "delegatorState" \in ch.queries
    /\ k > 0 =>
          /\ k \in DOMAIN ch.stake /\ ch.stake[k] \in Seq(ToSet(ch.stake[k]))
          /\ \A s \in ToSet(ch.stake[k]) : s.id # NoCollator
    /\ k > 0 /\ first > 0 /\ ch.queries # {} => \A s \in ToSet(ch.stake[k]) :
          LET delegators == {d \in DOMAIN at : at[d][s.id] > 0} IN
          /\ delegators \subseteq DOMAIN s.delegations
          /\ DOMAIN s.delegations \subseteq IF "topDelegations" \in ch.queries THEN DOMAIN at ELSE delegators

EventsOfABlock(events) ==
    /\ events \in Seq(ToSet(events))
    /\ \A e \in ToSet(events) : e.amount \in Nat

\* Runtimes to 1002 pay for a round in one block, later ones for a collator a block.
PayoutBlocks(ch) ==
    LET version == ch.rounds[Len(ch.rounds)].version IN
    IF version <= 1002 THEN 1 ELSE IF version >= 2000 /\ ch.awarded = PadFrom THEN PadTo ELSE ch.awarded

\* d counted as a delegator of the entry s when the round began.
Delegates(ch, s, d) ==
    LET first == ch.rounds[Len(ch.rounds) - 2].first IN
    /\ d \in DOMAIN s.delegations
    /\ "topDelegations" \in ch.queries => ch.delegated[first - 1][d][s.id] > 0

\* Who is paid, and for which collator: the collator itself, by its own event or by that of
\* its orbiter, and its delegators.  Runtimes 1001 and 1002 name the collator of a delegator.
PaysTheStaked(ch, b, e) ==
    LET k == Len(ch.rounds) - 2
        first == ch.rounds[Len(ch.rounds)].first
        version == ch.rounds[Len(ch.rounds)].version
        isDelegator == \A s \in ToSet(ch.stake[k]) : s.id = e.payout => Delegates(ch, s, e.account) IN
    /\ b \in first..first + PayoutBlocks(ch) - 1
    /\ k > 0 /\ \E s \in ToSet(ch.stake[k]) : s.id = e.payout
    /\ e.method = "Rewarded" =>
          /\ e.account = e.payout \/ isDelegator
          /\ version \in {1001, 1002} => e.account = e.payout /\ e.collator = NoCollator
    /\ e.method = "DelegatorDueReward" =>
          /\ isDelegator
          /\ version \in {1001, 1002} => e.collator = e.payout
    /\ e.method = "OrbiterRewarded" =>
          /\ version >= 2000
          /\ e.account \in DOMAIN ch.orbiter => ch.orbiter[e.account] = e.payout

\* That e pays the collator itself.
PaysCollator(e) == e.method = "OrbiterRewarded" \/ e.account = e.payout

\* Payments go together: a collator is paid in the block its delegators are paid in, later
\* runtimes pay for one collator in a block, and nobody is paid twice for one.
PaysOnce(ch, b) ==
    LET evs == ch.events[b]
        paid == {i \in DOMAIN evs : evs[i].method \in RewardMethod}
        version == ch.rounds[Len(ch.rounds)].version IN
    /\ \A i \in paid : \E j \in paid :
          evs[j].payout = evs[i].payout /\ PaysCollator(evs[j]) /\ evs[j].amount > 0
    /\ version > 1002 => \A i, j \in paid : evs[i].payout = evs[j].payout
    /\ \A i, j \in paid :
          /\ evs[i].payout = evs[j].payout
          /\ \/ PaysCollator(evs[i]) /\ PaysCollator(evs[j])
             \/ evs[i].account = evs[j].account /\ evs[i].amount > 0 /\ evs[j].amount > 0
          => i = j
    /\ \A c \in DOMAIN ch.events : \A i \in paid : \A e \in ToSet(ch.events[c]) :
          e.method \in RewardMethod /\ e.payout = evs[i].payout => c = b

\* A collator is nobody's delegator.
PaymentsOfARound(ch) ==
    LET k == Len(ch.rounds) - 2 IN
    /\ k > 0 => \A s, t \in ToSet(ch.stake[k]) : t.id \notin DOMAIN s.delegations
    /\ \A b \in DOMAIN ch.events :
          /\ \A e \in ToSet(ch.events[b]) : e.method \in RewardMethod => PaysTheStaked(ch, b, e)
          /\ PaysOnce(ch, b)

ASSUME RoundAssumption ==
    /\ MaxFaults \in [FaultKind -> Nat]
    /\ PadFrom \in Nat /\ PadTo \in Nat /\ PadFrom <= PadTo
    /\ \A ch \in Chains :
        /\ RoundsInOrder(ch.rounds)
        /\ SnapshotsOfDelegations(ch)
        /\ ch.awarded \in Nat
        /\ \A b \in DOMAIN ch.events : EventsOfABlock(ch.events[b])
        /\ PaymentsOfARound(ch)

VARIABLES
    chain,
    head,                \* the latest block
    pc,                  \* where the task stands
    specVersion, stakedValue, delegators, totalRewardedAmount,   \* of the RoundPayout object
    latestBlockNumber, originalRoundBlock, maxRoundChecks, checked,
    trx,                 \* rows inserted by the open transaction
    stored,              \* rows that are committed
    error,               \* why the last attempt was rolled back
    faults

object == <<specVersion, stakedValue, delegators, totalRewardedAmount>>
locals == <<latestBlockNumber, originalRoundBlock, maxRoundChecks, checked>>
vars == <<chain, head, pc, object, locals, trx, stored, error, faults>>

-----------------------------------------------------------------------------
(* What the chain answers.                                                  *)

NowRound == Len(chain.rounds)
PayoutBlock == chain.rounds[NowRound].first
RewardDelay == 2
OriginalRound == NowRound - RewardDelay

RoundAt(b) == CHOOSE k \in DOMAIN chain.rounds :
    /\ chain.rounds[k].first <= b
    /\ \A j \in DOMAIN chain.rounds : chain.rounds[j].first <= b => j <= k

AtStake(k, b) == IF k \in DOMAIN chain.stake /\ k <= RoundAt(b) THEN chain.stake[k] ELSE <<>>

EventsAt(b) == IF b \in DOMAIN chain.events THEN chain.events[b] ELSE <<>>
LastBlock == PayoutBlock + PadTo   \* bound: the last block there will be

Pc == {"idle", "stake", "head", "find", "collect", "wait", "sleep", "check", "commit"}
Errors == {"none", "fault", "first_rounds", "not_an_option", "missing_block", "no_collator", "no_orbiter"}

TypeOK ==
    /\ chain \in Chains
    /\ head \in PayoutBlock..LastBlock
    /\ pc \in Pc
    /\ specVersion \in Nat
    /\ \A c \in DOMAIN stakedValue : /\ stakedValue[c].rewardTotal \in Nat
                                     /\ DOMAIN stakedValue[c].delegators \subseteq delegators
    /\ totalRewardedAmount \in Nat
    /\ latestBlockNumber \in Nat /\ originalRoundBlock \in Nat
    /\ maxRoundChecks \in Nat /\ checked \in 0..maxRoundChecks
    /\ error \in Errors
    /\ faults \in [FaultKind -> Nat]

NewObject ==
    /\ specVersion' = 0
    /\ stakedValue' = <<>>
    /\ delegators' = {}
    /\ totalRewardedAmount' = 0

NoRows == [stake |-> {}, rewards |-> {}]

Init ==
    /\ chain \in Chains
    /\ head = PayoutBlock
    /\ pc = "idle"
    /\ specVersion = 0 /\ stakedValue = <<>> /\ delegators = {} /\ totalRewardedAmount = 0
    /\ latestBlockNumber = 0 /\ originalRoundBlock = 0 /\ maxRoundChecks = 0 /\ checked = 0
    /\ trx = NoRows /\ stored = NoRows
    /\ error = "none"
    /\ faults = [k \in FaultKind |-> 0]

Fault(k) ==
    /\ faults[k] < MaxFaults[k]
    /\ faults' = [faults EXCEPT ![k] = @ + 1]

Goto(from, to) == pc = from /\ pc' = to

\* The error reaches the consumer, which rolls the transaction back.
Throw(why) ==
    /\ pc' = "idle"
    /\ error' = why
    /\ trx' = NoRows
    /\ NewObject
    /\ latestBlockNumber' = 0 /\ originalRoundBlock' = 0 /\ maxRoundChecks' = 0 /\ checked' = 0
    /\ UNCHANGED <<chain, head, stored>>

-----------------------------------------------------------------------------
(* getCollatorsAndDelegators.                                               *)

\* atStake holds an Option in runtimes from 2600 on; the code goes by the runtime of
\* the payout block, also for an entry of two rounds before.
NotAnOption(k, b) ==
    /\ AtStake(k, b) # <<>>
    /\ chain.rounds[NowRound].version >= 2600 /\ chain.rounds[k].version < 2600

InTop(d, c, prior) == "topDelegations" \in chain.queries => chain.delegated[prior][d][c] > 0
TopDelegations(s, prior) == {d \in DOMAIN s.delegations : InTop(d, s.id, prior)}

\* fixZeroDelegatorsStakeQueue puts the delegator's own figure over amount: the one of
\* atStake is without what is to be withdrawn.
Amount(s, d, prior) ==
    LET own == chain.delegated[prior][d][s.id] IN
    IF "delegatorState" \in chain.queries /\ own > 0 THEN own ELSE s.delegations[d]

Collector(s, prior) ==
    [bond |-> s.bond, total |-> s.total, rewardTotal |-> 0, rewardCollator |-> 0, payoutBlockId |-> 0,
     delegators |-> [d \in TopDelegations(s, prior) |->
                        [final_amount |-> s.delegations[d], amount |-> Amount(s, d, prior), reward |-> 0]]]

\* Who had staked what in round k, seen at block b, and at the block prior.
GetCollatorsAndDelegators(k, b, prior) ==
    LET entries == AtStake(k, b)
        ids == {s.id : s \in ToSet(entries)}
        of(c) == CHOOSE s \in ToSet(entries) : s.id = c IN
    /\ stakedValue' = [c \in ids |-> Collector(of(c), prior)]
    /\ delegators' = UNION {TopDelegations(s, prior) : s \in ToSet(entries)}

-----------------------------------------------------------------------------
(* getRewardedFromEventsAtBlock.                                            *)

\* The rewards among a block's events; an orbiter's counts as its collator's.
Reward(e) ==
    IF e.method = "OrbiterRewarded"
    THEN [account |-> chain.orbiter[e.account], collator |-> NoCollator, amount |-> e.amount]
    ELSE [account |-> e.account, collator |-> e.collator, amount |-> e.amount]

IsReward(e) ==
    \/ e.method \in {"Rewarded", "DelegatorDueReward"}
    \/ e.method = "OrbiterRewarded" /\ specVersion >= 2000

\* The rewards of one account, in the order of their events.
RewardsOf(evs, a) ==
    LET of[n \in 0..Len(evs)] ==
            IF n = 0 THEN <<>>
            ELSE IF IsReward(evs[n]) /\ Reward(evs[n]).account = a THEN Append(of[n - 1], Reward(evs[n]))
            ELSE of[n - 1]
    IN of[Len(evs)]

\* The keys of rewards, in the order in which events name them: an orbiter's event names
\* its collator, too.
Named(e) ==
    IF e.method = "OrbiterRewarded" /\ IsReward(e) THEN << e.account, Reward(e).account >>
    ELSE << e.account >>

NamesOf(evs) ==
    LET names[n \in 0..Len(evs)] == IF n = 0 THEN <<>> ELSE names[n - 1] \o Named(evs[n])
    IN names[Len(evs)]

IsFirst(names, n) == \A j \in 1..n - 1 : names[j] # names[n]

Rewards(b) ==
    LET evs == EventsAt(b)
        names == NamesOf(evs)
        rewards[n \in 0..Len(names)] ==
            IF n = 0 THEN <<>>
            ELSE IF IsFirst(names, n) THEN rewards[n - 1] \o RewardsOf(evs, names[n])
            ELSE rewards[n - 1]
    IN rewards[Len(names)]

\* f[1] + .. + f[n].
SumOver(n, f) ==
    LET sum[i \in 0..n] == IF i = 0 THEN 0 ELSE sum[i - 1] + f[i]
    IN sum[n]

Sum(rs) == SumOver(Len(rs), [i \in 1..Len(rs) |-> rs[i].amount])

\* Mutant: a collator's total is its own reward.
PayCollatorAlone(total, b, st, r) ==
    IF r.account \notin DOMAIN st.staked THEN st
    ELSE [st EXCEPT !.current = r.account,
                    !.staked[r.account].rewardTotal = r.amount,
                    !.staked[r.account].rewardCollator = r.amount,
                    !.staked[r.account].payoutBlockId = b]

\* Collators first: a rewarded collator gets the total of the block, and is the one
\* the delegators are looked for under.
PayCollator(total, b, st, r) ==
    IF r.account \notin DOMAIN st.staked THEN st
    ELSE [st EXCEPT !.current = r.account,
                    !.staked[r.account].rewardTotal = total,
                    !.staked[r.account].rewardCollator = r.amount,
                    !.staked[r.account].payoutBlockId = b]

\* Mutant: one that was rewarded, whether or not it has the delegator paid.
PaidOrUnpaid(st, c, d) ==
    /\ c \in DOMAIN st.staked /\ st.staked[c].rewardCollator > 0
    /\ d \in DOMAIN st.staked[c].delegators

\* Runtimes to 900 pay every collator in one block: the first one in the storage's
\* order that was rewarded and has the delegator unpaid.
IsUnpaid(st, c, d) ==
    /\ c \in DOMAIN st.staked /\ st.staked[c].rewardCollator > 0
    /\ d \in DOMAIN st.staked[c].delegators /\ st.staked[c].delegators[d].reward = 0

FirstUnpaid(st, d) ==
    LET entries == chain.stake[OriginalRound]
        i == CHOOSE i \in DOMAIN entries : /\ IsUnpaid(st, entries[i].id, d)
                                           /\ \A j \in 1..i - 1 : ~ IsUnpaid(st, entries[j].id, d)
    IN entries[i].id

CollatorOf(st, r) ==
    IF specVersion \in {1001, 1002} THEN r.collator
    ELSE IF specVersion <= 900 /\ \E c \in DOMAIN st.staked : IsUnpaid(st, c, r.account)
    THEN FirstUnpaid(st, r.account)
    ELSE st.current

PayDelegator(st, r) ==
    LET c == CollatorOf(st, r) IN
    IF \/ r.account \notin delegators \/ r.amount = 0
       \/ specVersion \in {1001, 1002} /\ r.collator = NoCollator
    THEN st
    ELSE IF c \in DOMAIN st.staked /\ r.account \in DOMAIN st.staked[c].delegators
    THEN [st EXCEPT !.current = c, !.staked[c].delegators[r.account].reward = r.amount]
    ELSE [st EXCEPT !.current = c, !.lost = TRUE]

\* Rewarded(b).lost: a delegator was found under no collator, which is an error (but
\* for two blocks of moonriver).
Rewarded(b) ==
    LET rs == Rewards(b)
        unpaid == [staked |-> stakedValue, current |-> NoCollator, lost |-> FALSE]
        collated[n \in 0..Len(rs)] ==
            IF n = 0 THEN unpaid ELSE PayCollator(Sum(rs), b, collated[n - 1], rs[n])
        delegated[n \in 0..Len(rs)] ==
            IF n = 0 THEN collated[Len(rs)] ELSE PayDelegator(delegated[n - 1], rs[n])
    IN delegated[Len(rs)]

OrbiterUnknown(b) ==
    /\ specVersion >= 2000
    /\ \E e \in ToSet(EventsAt(b)) : e.method = "OrbiterRewarded" /\ e.account \notin DOMAIN chain.orbiter

-----------------------------------------------------------------------------
(* The task.                                                                *)

\* A message for the task, until its rows are stored.
ProcessTaskMessage ==
    /\ Goto("idle", "stake")
    /\ stored = NoRows
    /\ error' = "none"
    /\ UNCHANGED <<chain, head, object, locals, trx, stored, faults>>

\* getStakeRound and the rows of stake_rounds, stake_collators and stake_delegators.
ProcessStakeRound ==
    /\ Goto("stake", "head")
    /\ specVersion' = chain.rounds[NowRound].version
    /\ GetCollatorsAndDelegators(NowRound, PayoutBlock, PayoutBlock)
    /\ trx' = [trx EXCEPT !.stake = {[round_id |-> NowRound, start_block_id |-> PayoutBlock,
                                      collators |-> stakedValue']}]
    /\ UNCHANGED <<chain, head, totalRewardedAmount, locals, stored, error, faults>>

\* processRewardsRound has an object of its own; the latest block is read first.
ReadHead ==
    /\ Goto("head", "find")
    /\ NewObject
    /\ latestBlockNumber' = head
    /\ originalRoundBlock' = PayoutBlock
    /\ UNCHANGED <<chain, head, maxRoundChecks, checked, trx, stored, error, faults>>

\* One turn of the search for the original round's block: it goes back by the length
\* of the round it is in, and stops at the chain's beginning wherever it is.
FindOriginalRound ==
    LET round == RoundAt(originalRoundBlock)
        length == chain.rounds[round].length IN
    /\ pc = "find"
    /\ \/ /\ round # OriginalRound /\ originalRoundBlock >= length
          /\ originalRoundBlock' = originalRoundBlock - length
          /\ UNCHANGED pc
       \/ /\ round = OriginalRound \/ originalRoundBlock < length
          /\ pc' = "collect"
          /\ UNCHANGED originalRoundBlock
    /\ UNCHANGED <<chain, head, object, latestBlockNumber, maxRoundChecks, checked, trx, stored, error,
                   faults>>

\* Round 1 begins at block 0, and the rounds before it nowhere.
FirstRounds ==
    /\ pc = "collect" /\ originalRoundBlock = 0
    /\ Throw("first_rounds")
    /\ UNCHANGED faults

NotReadable ==
    /\ pc = "collect" /\ originalRoundBlock > 0
    /\ NotAnOption(OriginalRound, originalRoundBlock)
    /\ Throw("not_an_option")
    /\ UNCHANGED faults

\* Mutant: the delegators as they are after the round's first block.
CollectAfterFirst ==
    /\ originalRoundBlock > 0 /\ ~ NotAnOption(OriginalRound, originalRoundBlock)
    /\ Goto("collect", "wait")
    /\ specVersion' = chain.rounds[NowRound].version
    /\ GetCollatorsAndDelegators(OriginalRound, originalRoundBlock, originalRoundBlock)
    /\ UNCHANGED <<chain, head, totalRewardedAmount, locals, trx, stored, error, faults>>

\* What was staked when the original round began: at the block before it.
Collect ==
    /\ originalRoundBlock > 0 /\ ~ NotAnOption(OriginalRound, originalRoundBlock)
    /\ Goto("collect", "wait")
    /\ specVersion' = chain.rounds[NowRound].version
    /\ GetCollatorsAndDelegators(OriginalRound, originalRoundBlock, originalRoundBlock - 1)
    /\ UNCHANGED <<chain, head, totalRewardedAmount, locals, trx, stored, error, faults>>

\* Runtimes to 1002 pay everyone in the first block, later ones one collator a block.
MaxRoundChecks ==
    IF specVersion <= 1002 THEN 1
    ELSE IF specVersion >= 2000 /\ chain.awarded = PadFrom THEN PadTo
    ELSE chain.awarded

\* Mutant: the blocks still to come are not waited for.
NeverSleeps ==
    /\ Goto("wait", "check")
    /\ maxRoundChecks' = MaxRoundChecks
    /\ UNCHANGED <<chain, head, object, latestBlockNumber, originalRoundBlock, checked, trx, stored,
                   error, faults>>

\* Fewer blocks than awarded collators: the task sleeps fifteen seconds for each.
Wait ==
    LET short == chain.awarded > latestBlockNumber - PayoutBlock + 1 IN
    /\ Goto("wait", IF specVersion > 1002 /\ short THEN "sleep" ELSE "check")
    /\ maxRoundChecks' = MaxRoundChecks
    /\ UNCHANGED <<chain, head, object, latestBlockNumber, originalRoundBlock, checked, trx, stored,
                   error, faults>>

\* A block takes twelve seconds, so that many came in, unless the chain stood still.
EndSleep ==
    /\ Goto("sleep", "check")
    /\ \/ head >= latestBlockNumber + chain.awarded /\ UNCHANGED faults
       \/ head < latestBlockNumber + chain.awarded /\ Fault("stall")
    /\ UNCHANGED <<chain, head, object, locals, trx, stored, error>>

NextBlock == PayoutBlock + checked

\* Mutant: a block too many.
OneTooMany == checked <= maxRoundChecks

MoreToCheck == checked < maxRoundChecks

\* The rewards in the events of the next block.
CheckBlock ==
    /\ pc = "check" /\ MoreToCheck
    /\ NextBlock <= head
    /\ ~ OrbiterUnknown(NextBlock) /\ ~ Rewarded(NextBlock).lost
    /\ stakedValue' = Rewarded(NextBlock).staked
    /\ totalRewardedAmount' = totalRewardedAmount + Sum(Rewards(NextBlock))
    /\ checked' = checked + 1
    /\ UNCHANGED <<chain, head, pc, specVersion, delegators, latestBlockNumber, originalRoundBlock,
                   maxRoundChecks, trx, stored, error, faults>>

\* There is no such block yet, or its rewards cannot be told apart.
FailBlock ==
    /\ pc = "check" /\ MoreToCheck
    /\ \/ NextBlock > head /\ Throw("missing_block")
       \/ NextBlock <= head /\ OrbiterUnknown(NextBlock) /\ Throw("no_orbiter")
       \/ NextBlock <= head /\ ~ OrbiterUnknown(NextBlock) /\ Rewarded(NextBlock).lost /\ Throw("no_collator")
    /\ UNCHANGED faults

\* Mutant: only as many blocks as there are.
CheckedSoFar == checked = maxRoundChecks \/ NextBlock > head

AllChecked == checked = maxRoundChecks

\* The rows of rounds, collators and delegators, and those of the reward tables, which
\* repeat them.
SaveRewards ==
    /\ AllChecked
    /\ Goto("check", "commit")
    /\ trx' = [trx EXCEPT !.rewards = {[round_id |-> OriginalRound,
                                        start_block_id |-> originalRoundBlock,
                                        total_reward |-> totalRewardedAmount,
                                        collators |-> stakedValue]}]
    /\ UNCHANGED <<chain, head, object, locals, stored, error, faults>>

Commit ==
    /\ pc = "commit"
    /\ stored' = [stake |-> stored.stake \union trx.stake, rewards |-> stored.rewards \union trx.rewards]
    /\ pc' = "idle" /\ trx' = NoRows
    /\ NewObject
    /\ latestBlockNumber' = 0 /\ originalRoundBlock' = 0 /\ maxRoundChecks' = 0 /\ checked' = 0
    /\ UNCHANGED <<chain, head, error, faults>>

Fail == pc # "idle" /\ Fault("failure") /\ Throw("fault")

NewBlock ==
    /\ head < LastBlock
    /\ head' = head + 1
    /\ UNCHANGED <<chain, pc, object, locals, trx, stored, error, faults>>

Task ==
    \/ ProcessTaskMessage \/ ProcessStakeRound \/ ReadHead \/ FindOriginalRound \/ FirstRounds
    \/ NotReadable \/ Collect \/ Wait \/ EndSleep \/ CheckBlock \/ FailBlock \/ SaveRewards \/ Commit

Next == Task \/ Fail \/ NewBlock

Spec == Init /\ [][Next]_vars

-----------------------------------------------------------------------------
(* Properties.                                                              *)

\* The rounds from the one paid for to the payout have one length, which round() says.
Steady == \A k \in OriginalRound..NowRound - 1 :
    k \in DOMAIN chain.rounds =>
        /\ chain.rounds[k].length = chain.rounds[NowRound].length
        /\ chain.rounds[k + 1].first = chain.rounds[k].first + chain.rounds[k].length

\* What is stored as staked is what was staked at the block before the original round
\* began, for the delegations there were then, as long as rounds keep their length: the
\* search goes back by the length of the round it is in, not of the one before it.
StakeIsOfTheRoundsStart ==
    Steady => \A row \in stored.rewards :
        LET first == chain.rounds[row.round_id].first
            at == chain.delegated[first - 1] IN
        /\ row.start_block_id = first
        /\ DOMAIN row.collators = {s.id : s \in ToSet(chain.stake[row.round_id])}
        /\ chain.queries # {} => \A c \in DOMAIN row.collators :
              LET of == row.collators[c].delegators IN
              /\ DOMAIN of = {d \in DOMAIN at : at[d][c] > 0}
              /\ \A d \in DOMAIN of : of[d].amount = at[d][c]

\* What the chain paid by certain events, until its last block.
PaidIn(b, events) ==
    LET evs == EventsAt(b) IN
    SumOver(Len(evs), [i \in 1..Len(evs) |-> IF evs[i] \in events THEN evs[i].amount ELSE 0])

Paid(events) == SumOver(PadTo + 1, [i \in 1..PadTo + 1 |-> PaidIn(PayoutBlock + i - 1, events)])

RewardEvents ==
    {e \in UNION {ToSet(chain.events[b]) : b \in DOMAIN chain.events} : e.method \in RewardMethod}

\* A stored round's total is all that the chain paid for it, though the latest blocks
\* may not have been there when the task began, and an attempt may have failed between.
StoredRoundIsComplete == \A row \in stored.rewards : row.total_reward = Paid(RewardEvents)

\* The original round was found, and the runtime is one the code can tell the collator of
\* a delegator in: those from 901 to 1000 pay in one block and are taken for later ones.
CollatorsTold == Steady /\ chain.rounds[NowRound].version \notin 901..1000

\* A runtime to 900 says nothing of the collator a delegator is paid for.
Ambiguous(row, d) ==
    /\ chain.rounds[NowRound].version <= 900
    /\ \E a, b \in DOMAIN row.collators : a # b /\ \A c \in {a, b} : d \in DOMAIN row.collators[c].delegators

\* A delegator's reward is stored under the collator it was paid for, in every runtime,
\* but where the runtime leaves it open: a delegator of two collators, paid in one block.
\* And a collator's total is what was paid for it, when collators are paid one a block.
RewardsUnderTheirCollator ==
    CollatorsTold => \A row \in stored.rewards : \A c \in DOMAIN row.collators :
        LET r == row.collators[c]
            of == {e \in RewardEvents : e.payout = c} IN
        /\ \A d \in DOMAIN r.delegators :
              \/ Ambiguous(row, d)
              \/ r.delegators[d].reward = Paid({e \in of : e.method # "OrbiterRewarded" /\ e.account = d})
        /\ chain.rounds[NowRound].version > 1002 => r.rewardTotal = Paid(of)

RowsTotal(sv) ==
    LET ofDelegators(c) == SumFunction([d \in DOMAIN sv[c].delegators |-> sv[c].delegators[d].reward]) IN
    SumFunction([c \in DOMAIN sv |-> sv[c].rewardCollator + ofDelegators(c)])

\* The rows of a round's collators and delegators add up to its total: no reward is put
\* over another one, even where the runtime leaves the collator open.
RowsAddUp == CollatorsTold => \A row \in stored.rewards : RowsTotal(row.collators) = row.total_reward

\* Why an attempt fails of itself.  The sleep covers the blocks that are to come, but
\* where the number of blocks is put up after the sleep was reckoned; the search ends at
\* block 0 for the first rounds only; a task whose rounds lie on both sides of runtime
\* 2600 fails; and whoever is paid is under a collator, if the original round was found.
FailuresHaveACause ==
    /\ error = "missing_block" =>
          \/ faults["stall"] > 0
          \/ chain.rounds[NowRound].version >= 2000 /\ chain.awarded = PadFrom /\ PadFrom < PadTo
    /\ error = "first_rounds" => OriginalRound <= 1 \/ ~ Steady
    /\ error = "not_an_option" => chain.rounds[OriginalRound].version # chain.rounds[NowRound].version
    /\ error = "no_collator" => ~ CollatorsTold
=============================================================================
