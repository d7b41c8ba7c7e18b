----------------------------- MODULE MCRoundPayout -----------------------------
(* A TLC instance of RoundPayout: one chain for each kind of runtime, and   *)
(* some whose rounds change.  Collators "A" and "B", delegators "d" and     *)
(* "e", an orbiter "o".                                                     *)
EXTENDS RoundPayout

\* Rounds that begin at the blocks of firsts, the last of the given length.
Rounds(firsts, last, version) ==
    [k \in DOMAIN firsts |->
        [first |-> firsts[k], version |-> version,
         length |-> IF k = Len(firsts) THEN last ELSE firsts[k + 1] - firsts[k]]]

Delegated(dA, dB, eB) == "d" :> ("A" :> dA @@ "B" :> dB) @@ "e" :> ("A" :> 0 @@ "B" :> eB)

\* From block 2 on e delegates more; in one chain d leaves A, too.
Before == Delegated(7, 8, 5)
History(after) == [b \in 0..13 |-> IF b < 2 THEN Before ELSE after]

\* What is staked in the original round, with a part of d's delegation to be withdrawn.
Stake == << [id |-> "A", bond |-> 10, total |-> 16, delegations |-> "d" :> 6],
            [id |-> "B", bond |-> 20, total |-> 33, delegations |-> "d" :> 8 @@ "e" :> 5] >>
LastStake == << [id |-> "A", bond |-> 10, total |-> 17, delegations |-> "d" :> 7],
                [id |-> "B", bond |-> 20, total |-> 37, delegations |-> "d" :> 8 @@ "e" :> 9] >>

Paid1(method, a, c, n, by) == [method |-> method, account |-> a, collator |-> c, amount |-> n, payout |-> by]
To(a, n, by) == Paid1("Rewarded", a, NoCollator, n, by)
Due(a, n, by) == Paid1("DelegatorDueReward", a, by, n, by)
ToOrbiter(n, by) == Paid1("OrbiterRewarded", "o", NoCollator, n, by)
Names(a) == Paid1("Other", a, NoCollator, 1, NoCollator)

AtOnce == << Names("d"), To("B", 5, "B"), To("d", 2, "B"), To("e", 1, "B"), To("A", 4, "A"), To("d", 3, "A") >>
WithIds == << Names("e"), To("B", 5, "B"), Due("d", 2, "B"), Due("e", 1, "B"), To("A", 4, "A"), Due("d", 3, "A") >>
OfA == << To("A", 4, "A"), To("d", 3, "A") >>
OfB == << Names("d"), To("B", 5, "B"), To("d", 2, "B"), To("e", 1, "B"), To("e", 0, "B") >>
OrbiterOfB == << To("d", 2, "B"), ToOrbiter(5, "B"), To("e", 1, "B") >>

Usual == << 0, 2, 4, 6 >>
Both == {"topDelegations", "delegatorState"}

Chain(rounds, queries, events) ==
    [rounds |-> rounds, stake |-> (Len(rounds) - 2 :> Stake @@ Len(rounds) :> LastStake),
     delegated |-> History(Delegated(7, 8, 9)), queries |-> queries, awarded |-> 2, events |-> events,
     orbiter |-> "o" :> "B"]

InOneBlock == {Chain(Rounds(Usual, 2, 900), {}, 6 :> AtOnce), Chain(Rounds(Usual, 2, 1000), {}, 6 :> AtOnce),
               Chain(Rounds(Usual, 2, 1002), {}, 6 :> WithIds)}
ByBlock == {Chain(Rounds(Usual, 2, 1300), Both, 6 :> OfB @@ 7 :> OfA),
            Chain(Rounds(Usual, 2, 2000), Both, 6 :> OfA @@ 7 :> <<>> @@ 8 :> OrbiterOfB),
            [Chain(Rounds(Usual, 2, 2000), Both, 6 :> OrbiterOfB) EXCEPT !.orbiter = <<>>]}

\* The first rounds; the runtime changes to 2600; and rounds that become longer: the
\* search ends within the original round, before it, or at block 0.
Edges == {Chain(Rounds(<< 0, 2 >>, 2, 1300), Both, <<>>),
          Chain(Rounds(<< 0, 2, 4 >>, 2, 1300), Both, <<>>),
          [Chain(Rounds(Usual, 2, 2600), Both, 6 :> OfB @@ 7 :> OfA) EXCEPT !.rounds[2].version = 2500],
          [Chain(Rounds(<< 0, 2, 4, 7 >>, 4, 1300), Both, 7 :> OfB @@ 8 :> OfA)
               EXCEPT !.delegated = History(Delegated(0, 8, 9))],
          Chain(Rounds(<< 0, 3, 6, 10 >>, 9, 1300), Both, 10 :> OfB @@ 11 :> OfA),
          Chain(Rounds(<< 0, 3, 6, 9 >>, 9, 1300), Both, 9 :> OfB @@ 10 :> OfA)}

AllChains == InOneBlock \union ByBlock \union Edges
Faults == [failure |-> 1, stall |-> 1]
=============================================================================
